---------------------------- MODULE GovernanceProofs ----------------------------
(***************************************************************************)
(* Theorems about the governance stage.  First the policy: what            *)
(* remediation.rego promises for every input, every choice of thresholds   *)
(* and allowlists, and every sequence of revisions of an incident.  Then   *)
(* the agent that asks it, for any set of analyses, messages and workers,  *)
(* any payloads, any TTL, any number of deliveries and any clock bound.    *)
(***************************************************************************)
EXTENDS GovernanceAgent, PolicyRevisions, TLAPS

-----------------------------------------------------------------------------
(* The policy *)


(* A Boolean rule is TRUE of a reason exactly when the reason is in the    *)
(* set: no restart candidate is denied for any reason.                     *)
LEMMA SafeCandidateMeaning ==
    ASSUME NEW in \in PolicyInput
    PROVE  SafeCandidate(in) <=>
             /\ in.action = "restart_deployment"
             /\ in.assessed_severity \in {"HIGH", "CRITICAL"}
             /\ ~(in.confidence < ApprovalConfidence)
             /\ in.operational_risk \in {"low", "medium"}
             /\ in.target_namespace \in AllowedNamespaces
             /\ in.target_deployment \in AllowedDeployments
             /\ ~(in.signal_count < 2)
             /\ ~(in.evidence_count < 2)
BY DEF SafeCandidate, HardDenials, HardDenialReason, HardDenialRule, NoAction,
       SeverityActionable, RiskApprovable, NamespaceAllowed, DeploymentAllowed

(* remediation.rego 122-151: exactly one body of the complete rule fires,  *)
(* so OPA never fails with a conflict and never falls back to the default. *)
THEOREM DecisionIsUnique ==
    ASSUME NEW in \in PolicyInput
    PROVE  \E d \in DecisionValue : FiringBodies(in) = {d}
<1>1. CASE NoAction(in)
  <2>1. ~SafeCandidate(in)
    BY <1>1 DEF SafeCandidate, NoAction
  <2>2. FiringBodies(in) = {"NO_ACTION"}
    BY <1>1, <2>1 DEF FiringBodies, DecisionBody, DecisionValue,
                      AutomaticCandidate, ApprovalCandidate
  <2>. QED  BY <2>2 DEF DecisionValue
<1>2. CASE ~NoAction(in) /\ HardDenials(in) # {}
  <2>1. ~SafeCandidate(in)
    BY <1>2 DEF SafeCandidate
  <2>2. FiringBodies(in) = {"DENY"}
    BY <1>2, <2>1 DEF FiringBodies, DecisionBody, DecisionValue,
                      AutomaticCandidate, ApprovalCandidate
  <2>. QED  BY <2>2 DEF DecisionValue
<1>3. CASE ~NoAction(in) /\ HardDenials(in) = {}
  <2>1. SafeCandidate(in)
    <3>1. ~HardDenialRule(in, "unsupported_action")
      BY <1>3 DEF HardDenials, HardDenialReason
    <3>. QED  BY <1>3, <3>1 DEF SafeCandidate, HardDenialRule
  <2>2. CASE AutomaticCandidate(in)
    <3>1. FiringBodies(in) = {"PERMIT"}
      BY <1>3, <2>2 DEF FiringBodies, DecisionBody, DecisionValue,
                        ApprovalCandidate
    <3>. QED  BY <3>1 DEF DecisionValue
  <2>3. CASE ~AutomaticCandidate(in)
    <3>1. FiringBodies(in) = {"REQUIRE_APPROVAL"}
      BY <1>3, <2>1, <2>3 DEF FiringBodies, DecisionBody, DecisionValue,
                              ApprovalCandidate
    <3>. QED  BY <3>1 DEF DecisionValue
  <2>. QED  BY <2>2, <2>3
<1>. QED  BY <1>1, <1>2, <1>3

(* The value of the policy is the one body that fires. *)
LEMMA DecisionFires ==
    ASSUME NEW in \in PolicyInput
    PROVE  /\ Decision(in) \in DecisionValue
           /\ FiringBodies(in) = {Decision(in)}
           /\ DecisionBody(in, Decision(in))
<1>1. PICK d \in DecisionValue : FiringBodies(in) = {d}
  BY DecisionIsUnique
<1>2. Decision(in) = d
  BY <1>1 DEF Decision
<1>. QED  BY <1>1, <1>2 DEF FiringBodies

(* remediation.rego 82-120: a request for approval always tells the        *)
(* reviewer at least one reason why the automatic path was refused.        *)
THEOREM ApprovalIsExplained ==
    ASSUME NEW in \in PolicyInput, Decision(in) = "REQUIRE_APPROVAL"
    PROVE  ApprovalReasons(in) # {}
<1>1. ApprovalCandidate(in)
  BY DecisionFires DEF DecisionBody
<1>2. SafeCandidate(in) /\ ~AutomaticCandidate(in)
  BY <1>1 DEF ApprovalCandidate
<1>3. \E reason \in ApprovalReason : ApprovalReasonRule(in, reason)
  <2>1. /\ in.assessed_severity # "CRITICAL" => in.assessed_severity = "HIGH"
        /\ in.operational_risk # "medium" => in.operational_risk = "low"
    BY <1>2, SafeCandidateMeaning
  <2>2. /\ in.confidence \in Int /\ in.signal_count \in Int
        /\ in.source_count \in Int /\ in.evidence_count \in Int
        /\ in.requires_human_approval \in BOOLEAN
    BY DEF PolicyInput
  <2>3. \/ in.automation_mode # "controlled"
        \/ in.requires_human_approval
        \/ in.assessed_severity = "CRITICAL"
        \/ in.operational_risk = "medium"
        \/ in.confidence < AutomaticConfidence
        \/ in.signal_count < AutomaticMinSignals
        \/ in.source_count < AutomaticMinSources
        \/ in.evidence_count < AutomaticMinEvidence
    BY <1>2, <2>1, <2>2, ThresholdAssumption DEF AutomaticCandidate
  <2>. QED  BY <2>3 DEF ApprovalReason, ApprovalReasonRule
<1>. QED  BY <1>1, <1>3 DEF ApprovalReasons

(* remediation.rego 65-75: a PERMIT without a human is given only in       *)
(* controlled mode, to an allowlisted target, for a HIGH incident of low   *)
(* risk whose analysis does not ask for a human; never for CRITICAL.       *)
THEOREM PermitIsNarrow ==
    ASSUME NEW in \in PolicyInput, Decision(in) = "PERMIT"
    PROVE  /\ in.automation_mode = "controlled"
           /\ in.assessed_severity = "HIGH"
           /\ in.operational_risk = "low"
           /\ ~in.requires_human_approval
           /\ in.target_namespace \in AllowedNamespaces
           /\ in.target_deployment \in AllowedDeployments
           /\ in.confidence >= AutomaticConfidence
           /\ in.confidence >= ApprovalConfidence
<1>1. AutomaticCandidate(in)
  BY DecisionFires DEF DecisionBody
<1>2. in.confidence \in Int
  BY DEF PolicyInput
<1>. QED
  BY <1>1, <1>2, SafeCandidateMeaning, ThresholdAssumption DEF AutomaticCandidate

(* More confidence, signals, sources or evidence for the same              *)
(* recommendation never makes the policy stricter.                         *)
THEOREM MoreSupportNeverStricter ==
    ASSUME NEW in \in PolicyInput, NEW more \in PolicyInput,
           BetterSupported(in, more)
    PROVE  Permissiveness(Decision(more)) >= Permissiveness(Decision(in))
<1>1. /\ in.confidence \in Int /\ more.confidence \in Int
      /\ in.signal_count \in Int /\ more.signal_count \in Int
      /\ in.source_count \in Int /\ more.source_count \in Int
      /\ in.evidence_count \in Int /\ more.evidence_count \in Int
  BY DEF PolicyInput
<1>2. /\ more.action = in.action
      /\ more.target_namespace = in.target_namespace
      /\ more.target_deployment = in.target_deployment
      /\ more.assessed_severity = in.assessed_severity
      /\ more.operational_risk = in.operational_risk
      /\ more.requires_human_approval = in.requires_human_approval
      /\ more.automation_mode = in.automation_mode
      /\ more.confidence >= in.confidence
      /\ more.signal_count >= in.signal_count
      /\ more.source_count >= in.source_count
      /\ more.evidence_count >= in.evidence_count
  BY DEF BetterSupported
<1>3. SafeCandidate(in) => SafeCandidate(more)
  BY <1>1, <1>2, SafeCandidateMeaning, ThresholdAssumption
<1>4. AutomaticCandidate(in) => AutomaticCandidate(more)
  BY <1>1, <1>2, <1>3, ThresholdAssumption DEF AutomaticCandidate
<1>5. CASE Decision(in) = "PERMIT"
  <2>1. AutomaticCandidate(more)
    BY <1>4, <1>5, DecisionFires DEF DecisionBody
  <2>2. "PERMIT" \in FiringBodies(more)
    BY <2>1 DEF FiringBodies, DecisionBody, DecisionValue
  <2>3. Decision(more) = "PERMIT"
    BY <2>2, DecisionFires
  <2>. QED  BY <1>5, <2>3 DEF Permissiveness
<1>6. CASE Decision(in) = "REQUIRE_APPROVAL"
  <2>1. SafeCandidate(more)
    BY <1>3, <1>6, DecisionFires DEF DecisionBody, ApprovalCandidate
  <2>2. \/ "PERMIT" \in FiringBodies(more)
        \/ "REQUIRE_APPROVAL" \in FiringBodies(more)
    BY <2>1 DEF FiringBodies, DecisionBody, DecisionValue, ApprovalCandidate
  <2>3. Decision(more) \in {"PERMIT", "REQUIRE_APPROVAL"}
    BY <2>2, DecisionFires
  <2>. QED  BY <1>6, <2>3 DEF Permissiveness
<1>7. CASE Decision(in) \in {"DENY", "NO_ACTION"}
  BY <1>7, DecisionFires DEF Permissiveness, DecisionValue
<1>. QED  BY <1>5, <1>6, <1>7, DecisionFires DEF DecisionValue

-----------------------------------------------------------------------------
(* The policy, revision after revision *)

(* A revision is an input again, of the same recommendation with at least  *)
(* the support of the one before.                                          *)
LEMMA RevisionGains ==
    ASSUME input \in PolicyInput, NextRevision
    PROVE  /\ input' \in PolicyInput
           /\ BetterSupported(input, input')
<1>1. /\ input.confidence \in 0 .. 100 /\ input.signal_count \in Int
      /\ input.source_count \in Nat /\ input.evidence_count \in Nat
  BY DEF PolicyInput
<1>2. CASE GainConfidence
  BY <1>1, <1>2, RevisionsAssumption DEF GainConfidence, PolicyInput, BetterSupported
<1>3. CASE GainSignal
  BY <1>1, <1>3 DEF GainSignal, PolicyInput, BetterSupported
<1>4. CASE GainSource
  BY <1>1, <1>4 DEF GainSource, PolicyInput, BetterSupported
<1>5. CASE GainEvidence
  BY <1>1, <1>5 DEF GainEvidence, PolicyInput, BetterSupported
<1>. QED  BY <1>2, <1>3, <1>4, <1>5 DEF NextRevision

(* Every revision is an input of the policy. *)
THEOREM RevisionsAreInputs == Revisions => [](input \in PolicyInput)
<1>1. FirstRevision => input \in PolicyInput
  BY RevisionsAssumption DEF FirstRevision
<1>2. input \in PolicyInput /\ [NextRevision]_input => (input \in PolicyInput)'
  BY RevisionGains
<1>. QED  BY <1>1, <1>2, PTL DEF Revisions

(* The policy takes one decision on every revision of an incident. *)
THEOREM DecisionUniqueHolds == Revisions => []DecisionUnique
<1>1. input \in PolicyInput => DecisionUnique
  BY DecisionIsUnique DEF DecisionUnique
<1>. QED  BY <1>1, RevisionsAreInputs, PTL

(* Whenever a revision goes to a reviewer, it goes with a reason. *)
THEOREM ApprovalExplainedHolds == Revisions => []ApprovalExplained
<1>1. input \in PolicyInput => ApprovalExplained
  BY ApprovalIsExplained DEF ApprovalExplained
<1>. QED  BY <1>1, RevisionsAreInputs, PTL

(* No revision is refused what the revision before it was allowed. *)
THEOREM NeverStricterHolds == Revisions => NeverStricter
<1>1. /\ input \in PolicyInput
      /\ [NextRevision]_input
      => [Permissiveness(Decision(input')) >= Permissiveness(Decision(input))]_input
  <2> SUFFICES ASSUME input \in PolicyInput, NextRevision
               PROVE  Permissiveness(Decision(input')) >= Permissiveness(Decision(input))
    OBVIOUS
  <2>1. input' \in PolicyInput /\ BetterSupported(input, input')
    BY RevisionGains
  <2>. QED  BY <2>1, MoreSupportNeverStricter
<1>. QED  BY <1>1, RevisionsAreInputs, PTL DEF Revisions, NeverStricter

-----------------------------------------------------------------------------
(* The agent *)


-----------------------------------------------------------------------------
(* Types *)

(* The payload of every message, and of every busy worker, is typed. *)
LEMMA PayloadTyped ==
    ASSUME TypeOK
    PROVE  /\ \A m \in Message : payload[m] \in PayloadType
           /\ \A w \in Worker : pc[w] # "idle" =>
                 /\ msg[w] \in Message
                 /\ PayloadOf(w) \in PayloadType
                 /\ PayloadOf(w).analysis \in Analysis
<1>1. \A m \in Message : payload[m] \in PayloadType
  BY GovernanceAssumption DEF TypeOK
<1>2. \A w \in Worker : pc[w] # "idle" => msg[w] \in Message
  BY DEF TypeOK
<1>. QED  BY <1>1, <1>2 DEF PayloadOf, PayloadType

(* What the callback of a worker leaves behind is typed. *)
LEMMA ReleaseTyped ==
    ASSUME TypeOK, NEW w \in Worker, Release(w)
    PROVE  /\ pc' \in [Worker -> Location]
           /\ msg' \in [Worker -> Message \cup {NoMessage}]
           /\ request' \in [Worker -> RequestType \cup {NoRequest}]
           /\ \A v \in Worker : /\ pc'[v] = "idle" <=> msg'[v] = NoMessage
                                /\ pc'[v] \in {"persisting", "asking"} => request'[v] # NoRequest
BY DEF TypeOK, Release, Location

(* A busy worker that moves to another location, where it needs no request *)
(* or has one already, stays typed.                                        *)
LEMMA GotoTyped ==
    ASSUME TypeOK, NEW w \in Worker, NEW l \in Location \ {"idle"},
           pc[w] # "idle", Goto(w, l), UNCHANGED <<msg, request>>,
           l \in {"persisting", "asking"} => pc[w] \in {"persisting", "asking"}
    PROVE  /\ pc' \in [Worker -> Location]
           /\ \A v \in Worker : /\ pc'[v] = "idle" <=> msg'[v] = NoMessage
                                /\ pc'[v] \in {"persisting", "asking"} => request'[v] # NoRequest
BY DEF TypeOK, Goto

(* The request a worker builds, and the document it stores, are typed. *)
LEMMA NewRequestTyped ==
    ASSUME TypeOK, NEW w \in Worker, pc[w] # "idle"
    PROVE  NewRequest(w) \in RequestType
<1>1. PayloadOf(w) \in PayloadType /\ clock + ApprovalTTL \in Nat
  BY PayloadTyped, GovernanceAssumption DEF TypeOK
<1>. QED  BY <1>1 DEF NewRequest, PayloadType, RequestType

(* The documents are what TypeOK says they are. *)
DocumentsOK ==
    /\ document \in [Analysis -> DocumentType]
    /\ \A a \in Analysis :
          /\ document[a].status = "absent" <=> document[a].request = NoRequest
          /\ document[a].request # NoRequest => document[a].request.analysis = a

(* A worker that persists a request has made it for its own analysis. *)
RequestInv ==
    \A w \in Worker : pc[w] \in {"persisting", "asking"} =>
        request[w].analysis = PayloadOf(w).analysis

(* The write of persist_approval_request keeps the documents typed. *)
LEMMA StoreTyped ==
    ASSUME TypeOK, RequestInv, NEW w \in Worker, pc[w] = "persisting", StoreRequest(w)
    PROVE  DocumentsOK'
<1>1. PayloadOf(w).analysis \in Analysis
  BY PayloadTyped
<1>2. request[w] \in RequestType /\ request[w] # NoRequest
  BY DEF TypeOK
<1>3. request[w].analysis = PayloadOf(w).analysis
  BY DEF RequestInv
<1>4. [status |-> "pending", request |-> request[w]] \in DocumentType
  BY <1>2 DEF DocumentType
<1>. QED  BY <1>1, <1>2, <1>3, <1>4 DEF StoreRequest, DocumentsOK, TypeOK

-----------------------------------------------------------------------------
(* What a step leaves alone *)

(* The steps of worker w, and those that no worker takes. *)
WorkerStep(w) == Work(w) \/ Crash(w) \/ \E m \in Message : Deliver(w, m)
Environment ==
    \/ Tick
    \/ \E a \in Analysis : Resolve(a) \/ ExpireDocument(a)
    \/ \E m \in Message : DeadLetter(m)

LEMMA NextSplit ==
    ASSUME [Next]_vars
    PROVE  Environment \/ (\E w \in Worker : WorkerStep(w)) \/ UNCHANGED vars
BY DEF Next, Environment, WorkerStep

(* Topics only grow and payloads never change. *)
Grows ==
    /\ payload' = payload
    /\ requests \subseteq requests'
    /\ audited \subseteq audited'
    /\ published \subseteq published'

(* A step of w changes neither the clock nor any other worker, and changes *)
(* the documents only by storing its own request where there was none.     *)
Frame(w) ==
    /\ clock' = clock
    /\ \A v \in Worker \ {w} : /\ pc'[v] = pc[v] /\ msg'[v] = msg[v]
                               /\ request'[v] = request[v]
    /\ \/ document' = document
       \/ pc[w] = "persisting" /\ DocumentOf(w).status = "absent" /\ StoreRequest(w)

LEMMA StepFrame ==
    ASSUME TypeOK, NEW w \in Worker, WorkerStep(w)
    PROVE  Frame(w) /\ Grows
<1>. USE DEF queueVars, workerVars, topicVars, Frame, Grows
<1>1. CASE Decide(w)
  BY <1>1 DEF Decide, Evaluate, EvaluateError, Goto, Nack, Release, TypeOK
<1>2. CASE Persist(w)
  <2>1. CASE PersistCreated(w)
    BY <2>1 DEF PersistCreated, Goto, TypeOK
  <2>2. CASE PersistFound(w)
    BY <2>2 DEF PersistFound, Goto, TypeOK
  <2>3. CASE PersistCollision(w)
    BY <2>3 DEF PersistCollision, Nack, Release, TypeOK
  <2>4. CASE PersistError(w)
    BY <2>4 DEF PersistError, Nack, Release, TypeOK
  <2>. QED  BY <1>2, <2>1, <2>2, <2>3, <2>4 DEF Persist
<1>3. CASE Report(w)
  <2>1. CASE PublishRequest(w) \/ RequestError(w)
    BY <2>1 DEF PublishRequest, RequestError, Goto, Nack, Release, TypeOK
  <2>2. CASE PublishAudit(w) \/ AuditError(w)
    BY <2>2 DEF PublishAudit, AuditError, Goto, Nack, Release, TypeOK
  <2>3. CASE Publish(w) \/ PublishError(w) \/ Ack(w)
    BY <2>3 DEF Publish, PublishError, Ack, Goto, Nack, Release, TypeOK
  <2>. QED  BY <1>3, <2>1, <2>2, <2>3 DEF Report
<1>4. CASE Crash(w)
  BY <1>4 DEF Crash, Nack, Release, TypeOK
<1>5. CASE \E m \in Message : Deliver(w, m)
  BY <1>5 DEF Deliver, Goto, TypeOK
<1>. QED  BY <1>1, <1>2, <1>3, <1>4, <1>5 DEF WorkerStep, Work

(* An environment step changes no worker and no topic.  A document it      *)
(* changes is resolved, after a request of its analysis was published, or  *)
(* withdrawn after it has expired.                                         *)
Answered(a) ==
    /\ document[a].status = "pending" /\ \E q \in requests : q.analysis = a
    /\ document'[a].status \in {"approved", "denied"}
    /\ document'[a].request = document[a].request
Withdrawn(a) ==
    /\ document[a].status # "absent" /\ document[a].request.expires <= clock
    /\ document'[a] = Absent

LEMMA EnvironmentFrame ==
    ASSUME TypeOK, Environment \/ UNCHANGED vars
    PROVE  /\ UNCHANGED <<pc, msg, request, payload, requests, audited, published>>
           /\ clock' \in Nat /\ clock <= clock'
           /\ \/ document' = document
              \/ /\ clock' = clock
                 /\ \E a \in Analysis :
                       /\ \A b \in Analysis \ {a} : document'[b] = document[b]
                       /\ Answered(a) \/ Withdrawn(a)
<1>. USE DEF queueVars, workerVars, topicVars
<1>1. CASE Tick
  BY <1>1 DEF Tick, TypeOK
<1>2. ASSUME NEW a \in Analysis, Resolve(a)
      PROVE  /\ clock' = clock /\ Answered(a)
             /\ \A b \in Analysis \ {a} : document'[b] = document[b]
             /\ UNCHANGED <<pc, msg, request, payload, requests, audited, published>>
  BY <1>2 DEF Resolve, Answered, TypeOK, DocumentType
<1>3. ASSUME NEW a \in Analysis, ExpireDocument(a)
      PROVE  /\ clock' = clock /\ Withdrawn(a)
             /\ \A b \in Analysis \ {a} : document'[b] = document[b]
             /\ UNCHANGED <<pc, msg, request, payload, requests, audited, published>>
  BY <1>3 DEF ExpireDocument, Withdrawn, TypeOK
<1>4. CASE \E m \in Message : DeadLetter(m)
  BY <1>4 DEF DeadLetter, TypeOK
<1>5. CASE UNCHANGED vars
  BY <1>5 DEF vars, TypeOK
<1>6. clock \in Nat
  BY DEF TypeOK
<1>. QED  BY <1>1, <1>2, <1>3, <1>4, <1>5, <1>6 DEF Environment

-----------------------------------------------------------------------------
(* Type correctness *)

(* The initial state is typed. *)
LEMMA InitTypeOK == Init => TypeOK /\ RequestInv
BY GovernanceAssumption
   DEF Init, TypeOK, RequestInv, Location, DocumentType, Absent

(* A worker that starts to persist a request has just made it. *)
LEMMA NextRequest ==
    ASSUME TypeOK, RequestInv, [Next]_vars
    PROVE  RequestInv'
<1>1. CASE Environment \/ UNCHANGED vars
  BY <1>1, EnvironmentFrame DEF RequestInv, PayloadOf
<1>2. ASSUME NEW w \in Worker, WorkerStep(w)
      PROVE  RequestInv'
  <2>1. Frame(w) /\ payload' = payload
    BY <1>2, StepFrame DEF Grows
  <2>2. pc'[w] \in {"persisting", "asking"} => request'[w].analysis = PayloadOf(w)'.analysis
    <3>1. CASE Evaluate(w)
      BY <2>1, <3>1 DEF Evaluate, NewRequest, Goto, PayloadOf, TypeOK
    <3>2. CASE PersistCreated(w) \/ PersistFound(w)
      BY <2>1, <3>2 DEF PersistCreated, PersistFound, Goto, PayloadOf, TypeOK, RequestInv
    <3>3. CASE ~Evaluate(w) /\ ~PersistCreated(w) /\ ~PersistFound(w)
      BY <1>2, <3>3 DEF WorkerStep, Work, Decide, EvaluateError, Persist, PersistCollision,
            PersistError, Report, PublishRequest, RequestError, PublishAudit, AuditError,
            Publish, PublishError, Ack, Crash, Deliver, Nack, Release, Goto, TypeOK
    <3>. QED  BY <3>1, <3>2, <3>3
  <2>. QED  BY <2>1, <2>2 DEF Frame, RequestInv, PayloadOf
<1>. QED  BY <1>1, <1>2, NextSplit

(* Every step keeps the types. *)
LEMMA NextTypeOK ==
    ASSUME TypeOK, RequestInv, [Next]_vars
    PROVE  TypeOK'
<1>. USE DEF queueVars, workerVars, topicVars
<1>1. CASE Tick
  BY <1>1 DEF Tick, TypeOK
<1>2. ASSUME NEW a \in Analysis, Resolve(a)
      PROVE  TypeOK'
  <2>1. PICK s \in {"approved", "denied"} : document' = [document EXCEPT ![a].status = s]
    BY <1>2 DEF Resolve
  <2>2. [document[a] EXCEPT !.status = s] \in DocumentType
    BY DEF TypeOK, DocumentType
  <2>3. document' \in [Analysis -> DocumentType]
    BY <2>1, <2>2 DEF TypeOK
  <2>4. document[a] \in DocumentType /\ document[a].status # "absent"
    BY <1>2 DEF Resolve, TypeOK
  <2>5. /\ document'[a].status = s /\ document'[a].request = document[a].request
        /\ \A b \in Analysis \ {a} : document'[b] = document[b]
    BY <2>1, <2>4 DEF TypeOK, DocumentType
  <2>. QED  BY <1>2, <2>3, <2>4, <2>5 DEF Resolve, TypeOK
<1>3. ASSUME NEW a \in Analysis, ExpireDocument(a)
      PROVE  TypeOK'
  BY <1>3 DEF ExpireDocument, Absent, DocumentType, TypeOK
<1>4. ASSUME NEW m \in Message, DeadLetter(m)
      PROVE  TypeOK'
  BY <1>4 DEF DeadLetter, TypeOK
<1>5. ASSUME NEW w \in Worker, NEW m \in Message, Deliver(w, m)
      PROVE  TypeOK'
  BY <1>5, GovernanceAssumption DEF Deliver, Goto, TypeOK, Location
<1>6. ASSUME NEW w \in Worker, Decide(w)
      PROVE  TypeOK'
  <2>1. CASE Evaluate(w)
    <3>1. NewRequest(w) \in RequestType /\ NoRequest \notin RequestType
      BY <2>1, NewRequestTyped, GovernanceAssumption DEF Evaluate
    <3>. QED  BY <2>1, <3>1 DEF Evaluate, Goto, TypeOK, Location
  <2>2. CASE EvaluateError(w)
    <3>1. failures' \in [Message -> Nat]
      BY <2>2 DEF EvaluateError, CountFailure, TypeOK
    <3>. QED  BY <2>2, <3>1, ReleaseTyped DEF EvaluateError, Nack, TypeOK
  <2>. QED  BY <1>6, <2>1, <2>2 DEF Decide
<1>7. ASSUME NEW w \in Worker, Persist(w)
      PROVE  TypeOK'
  <2>1. CASE PersistCreated(w)
    <3>1. DocumentsOK'
      BY <2>1, StoreTyped DEF PersistCreated
    <3>. QED  BY <2>1, <3>1, GotoTyped DEF PersistCreated, DocumentsOK, TypeOK, Location
  <2>2. CASE PersistFound(w)
    BY <2>2, GotoTyped DEF PersistFound, TypeOK, Location
  <2>3. CASE PersistCollision(w)
    BY <2>3, ReleaseTyped DEF PersistCollision, Nack, TypeOK
  <2>4. CASE PersistError(w)
    <3>1. DocumentsOK'
      BY <2>4, StoreTyped DEF PersistError, DocumentsOK, TypeOK
    <3>2. failures' \in [Message -> Nat]
      BY <2>4 DEF PersistError, CountFailure, TypeOK
    <3>. QED  BY <2>4, <3>1, <3>2, ReleaseTyped DEF PersistError, DocumentsOK, Nack, TypeOK
  <2>. QED  BY <1>7, <2>1, <2>2, <2>3, <2>4 DEF Persist
<1>8. ASSUME NEW w \in Worker, Report(w)
      PROVE  TypeOK'
  <2>0. pc[w] # "idle" => PayloadOf(w) \in PayloadType
    BY PayloadTyped
  <2>1. CASE PublishRequest(w)
    BY <2>1, GotoTyped DEF PublishRequest, TypeOK, Location
  <2>2. CASE PublishAudit(w)
    BY <2>0, <2>2, GotoTyped DEF PublishAudit, TypeOK, Location
  <2>3. CASE Publish(w)
    BY <2>0, <2>3, GotoTyped DEF Publish, TypeOK, Location
  <2>4. CASE RequestError(w) \/ AuditError(w) \/ PublishError(w)
    <3>1. failures' \in [Message -> Nat]
      BY <2>4 DEF RequestError, AuditError, PublishError, CountFailure, TypeOK
    <3>2. requests' \in SUBSET RequestType
      BY <2>4 DEF RequestError, AuditError, PublishError, TypeOK
    <3>3. audited' \in SUBSET PayloadType /\ published' \in SUBSET PayloadType
      BY <2>0, <2>4 DEF RequestError, AuditError, PublishError, TypeOK
    <3>. QED
      BY <2>4, <3>1, <3>2, <3>3, ReleaseTyped
         DEF RequestError, AuditError, PublishError, Nack, TypeOK
  <2>5. CASE Ack(w)
    BY <2>5, ReleaseTyped DEF Ack, TypeOK
  <2>. QED  BY <1>8, <2>1, <2>2, <2>3, <2>4, <2>5 DEF Report
<1>9. ASSUME NEW w \in Worker, Crash(w)
      PROVE  TypeOK'
  <2>1. failures' \in [Message -> Nat]
    BY <1>9 DEF Crash, CountFailure, TypeOK
  <2>. QED  BY <1>9, <2>1, ReleaseTyped DEF Crash, Nack, TypeOK
<1>10. CASE UNCHANGED vars
  BY <1>10 DEF vars, TypeOK
<1>. QED
  BY <1>1, <1>2, <1>3, <1>4, <1>5, <1>6, <1>7, <1>8, <1>9, <1>10 DEF Next, Work

-----------------------------------------------------------------------------
(* The inductive invariant *)

(* A live request that is on the topic, or on its way there, is stored. *)
StoredInv ==
    /\ LiveRequestIsStored
    /\ \A w \in Worker : pc[w] = "asking" /\ request[w].expires > clock =>
          document[request[w].analysis].request = request[w]

(* An analysis whose document is resolved has had a request published. *)
AnsweredInv ==
    \A a \in Analysis : document[a].status \in {"approved", "denied"} =>
        \E q \in requests : q.analysis = a

(* Who is past a publication of process() has made it. *)
EvidenceInv ==
    /\ EvidenceFirst
    /\ \A w \in Worker :
          /\ pc[w] = "auditing" /\ PayloadOf(w).verdict = "REQUIRE_APPROVAL" =>
                \E q \in requests : q.analysis = PayloadOf(w).analysis
          /\ pc[w] = "publishing" => PayloadOf(w) \in audited
          /\ pc[w] = "acking" => PayloadOf(w) \in published

IInv ==
    /\ TypeOK
    /\ RequestInv
    /\ StoredInv
    /\ AnsweredInv
    /\ EvidenceInv
    /\ AckedIsDecided

(* A document a worker finds absent holds no request. *)
LEMMA AbsentHoldsNothing ==
    ASSUME TypeOK, NEW a \in Analysis, document[a].status = "absent"
    PROVE  document[a].request \notin RequestType
BY GovernanceAssumption DEF TypeOK

(* What the transaction leaves of the stored requests: it overwrites none, *)
(* and stores the worker's own under its analysis.                         *)
LEMMA StoreKeeps ==
    ASSUME TypeOK, TypeOK', RequestInv, NEW w \in Worker, pc[w] = "persisting",
           DocumentOf(w).status = "absent", StoreRequest(w)
    PROVE  /\ \A q \in RequestType : q.analysis \in Analysis =>
                (document[q.analysis].request = q => document'[q.analysis].request = q)
           /\ document'[request[w].analysis].request = request[w]
<1>1. PayloadOf(w).analysis \in Analysis /\ request[w].analysis = PayloadOf(w).analysis
  BY PayloadTyped DEF RequestInv
<1>2. document[PayloadOf(w).analysis].request \notin RequestType
  BY <1>1, AbsentHoldsNothing DEF DocumentOf
<1>3. document'[PayloadOf(w).analysis].request = request[w]
  BY <1>1 DEF StoreRequest, TypeOK
<1>4. \A a \in Analysis \ {PayloadOf(w).analysis} : document'[a] = document[a]
  BY DEF StoreRequest, TypeOK
<1>. QED  BY <1>1, <1>2, <1>3, <1>4

(* A worker that reaches "asking" has just stored its request, or has      *)
(* found it stored.                                                        *)
LEMMA AskingIsStored ==
    ASSUME TypeOK, TypeOK', RequestInv, NEW w \in Worker, WorkerStep(w),
           pc'[w] = "asking"
    PROVE  document'[request'[w].analysis].request = request'[w]
<1>. USE DEF queueVars, workerVars, topicVars
<1>1. CASE PersistCreated(w)
  BY <1>1, StoreKeeps DEF PersistCreated
<1>2. CASE PersistFound(w)
  <2>1. request[w].analysis = PayloadOf(w).analysis
    BY <1>2 DEF PersistFound, RequestInv
  <2>. QED  BY <1>2, <2>1 DEF PersistFound, SameHash, DocumentOf
<1>3. CASE ~PersistCreated(w) /\ ~PersistFound(w)
  BY <1>3 DEF WorkerStep, Work, Decide, Evaluate, EvaluateError, Persist,
        PersistCollision, PersistError, Report, PublishRequest, RequestError,
        PublishAudit, AuditError, Publish, PublishError, Ack, Crash, Deliver, Nack,
        Release, Goto, TypeOK
<1>. QED  BY <1>1, <1>2, <1>3

(* The requests a step of w may add to the topic: its own, from "asking". *)
LEMMA NewRequests ==
    ASSUME TypeOK, NEW w \in Worker, WorkerStep(w)
    PROVE  \/ requests' = requests
           \/ pc[w] = "asking" /\ requests' = requests \cup {request[w]}
BY DEF queueVars, workerVars, topicVars, WorkerStep, Work, Decide, Evaluate,
       EvaluateError, Persist, PersistCreated, PersistFound, PersistCollision,
       PersistError, Report, PublishRequest, RequestError, PublishAudit, AuditError,
       Publish, PublishError, Ack, Crash, Deliver

(* Requests that can still be answered stay stored. *)
LEMMA NextStored ==
    ASSUME TypeOK, TypeOK', RequestInv, StoredInv, [Next]_vars
    PROVE  StoredInv'
<1>0. /\ \A q \in requests : q \in RequestType
      /\ \A w \in Worker : pc[w] = "asking" => request[w] \in RequestType
      /\ \A q \in RequestType : q.analysis \in Analysis /\ q.expires \in Nat
  BY DEF TypeOK, RequestType
<1>1. CASE Environment \/ UNCHANGED vars
  <2>1. /\ UNCHANGED <<pc, request, requests>>
        /\ clock \in Nat /\ clock' \in Nat /\ clock <= clock'
    BY <1>1, EnvironmentFrame DEF TypeOK
  <2>2. ASSUME NEW q \in RequestType, q.expires > clock',
               document[q.analysis].request = q
        PROVE  document'[q.analysis].request = q
    <3>1. q.analysis \in Analysis /\ q.expires \in Nat
      BY <1>0
    <3>2. CASE document' = document
      BY <2>2, <3>2
    <3>3. ASSUME NEW a \in Analysis, clock' = clock, Answered(a) \/ Withdrawn(a),
                 \A b \in Analysis \ {a} : document'[b] = document[b]
          PROVE  document'[q.analysis].request = q
      <4>1. CASE q.analysis = a /\ Answered(a)
        BY <2>2, <4>1 DEF Answered
      <4>2. CASE q.analysis = a /\ Withdrawn(a)
        BY <2>1, <2>2, <3>1, <3>3, <4>2 DEF Withdrawn
      <4>3. CASE q.analysis # a
        BY <2>2, <3>1, <3>3, <4>3
      <4>. QED  BY <3>3, <4>1, <4>2, <4>3
    <3>. QED  BY <1>1, <3>2, <3>3, EnvironmentFrame
  <2>3. \A q \in RequestType : q.expires > clock' => q.expires > clock
    BY <1>0, <2>1
  <2>. QED  BY <1>0, <2>1, <2>2, <2>3 DEF StoredInv, LiveRequestIsStored
<1>2. ASSUME NEW w \in Worker, WorkerStep(w)
      PROVE  StoredInv'
  <2>1. /\ clock' = clock
        /\ \A v \in Worker \ {w} : pc'[v] = pc[v] /\ request'[v] = request[v]
        /\ \/ document' = document
           \/ pc[w] = "persisting" /\ DocumentOf(w).status = "absent" /\ StoreRequest(w)
    BY <1>2, StepFrame DEF Frame
  <2>2. \A q \in RequestType :
           document[q.analysis].request = q => document'[q.analysis].request = q
    BY <1>0, <2>1, StoreKeeps
  <2>3. pc'[w] = "asking" => document'[request'[w].analysis].request = request'[w]
    BY <1>2, AskingIsStored
  <2>4. \/ requests' = requests
        \/ pc[w] = "asking" /\ requests' = requests \cup {request[w]}
    BY <1>2, NewRequests
  <2>5. LiveRequestIsStored'
    BY <1>0, <2>1, <2>2, <2>4 DEF StoredInv, LiveRequestIsStored
  <2>6. ASSUME NEW v \in Worker, pc'[v] = "asking", request'[v].expires > clock'
        PROVE  document'[request'[v].analysis].request = request'[v]
    BY <1>0, <2>1, <2>2, <2>3, <2>6 DEF StoredInv
  <2>. QED  BY <2>5, <2>6 DEF StoredInv
<1>. QED  BY <1>1, <1>2, NextSplit

(* Only a reviewer resolves a document, and a request has told one of it. *)
LEMMA NextAnswered ==
    ASSUME TypeOK, AnsweredInv, [Next]_vars
    PROVE  AnsweredInv'
<1>1. CASE Environment \/ UNCHANGED vars
  BY <1>1, EnvironmentFrame DEF AnsweredInv, Answered, Withdrawn, Absent
<1>2. ASSUME NEW w \in Worker, WorkerStep(w)
      PROVE  AnsweredInv'
  <2>1. requests \subseteq requests'
    BY <1>2, StepFrame DEF Grows
  <2>2. \A a \in Analysis : document'[a] = document[a] \/ document'[a].status = "pending"
    <3>1. Frame(w)
      BY <1>2, StepFrame
    <3>2. pc[w] = "persisting" => PayloadOf(w).analysis \in Analysis
      BY PayloadTyped
    <3>. QED  BY <3>1, <3>2 DEF Frame, StoreRequest, TypeOK
  <2>. QED  BY <2>1, <2>2 DEF AnsweredInv
<1>. QED  BY <1>1, <1>2, NextSplit

(* Request, audit event and decision are published in this order. *)
LEMMA NextEvidence ==
    ASSUME TypeOK, RequestInv, AnsweredInv, EvidenceInv, [Next]_vars
    PROVE  EvidenceInv'
<1>. USE DEF queueVars, workerVars, topicVars
<1>1. CASE Environment \/ UNCHANGED vars
  BY <1>1, EnvironmentFrame DEF EvidenceInv, EvidenceFirst, PayloadOf
<1>2. ASSUME NEW w \in Worker, WorkerStep(w)
      PROVE  EvidenceInv'
  <2>1. /\ \A v \in Worker \ {w} : pc'[v] = pc[v] /\ PayloadOf(v)' = PayloadOf(v)
        /\ msg'[w] = msg[w] => PayloadOf(w)' = PayloadOf(w)
        /\ requests \subseteq requests' /\ audited \subseteq audited'
        /\ published \subseteq published'
    BY <1>2, StepFrame DEF Frame, Grows, PayloadOf
  \* What w itself needs at its next location.
  <2>2. pc'[w] = "auditing" /\ PayloadOf(w)'.verdict = "REQUIRE_APPROVAL" =>
           \E q \in requests' : q.analysis = PayloadOf(w)'.analysis
    <3>1. CASE Evaluate(w)
      BY <2>1, <3>1 DEF Evaluate, Goto, TypeOK
    <3>2. CASE PersistFound(w)
      <4>1. /\ PayloadOf(w).analysis \in Analysis
            /\ request[w].analysis = PayloadOf(w).analysis
        BY <3>2, PayloadTyped DEF PersistFound, RequestInv
      <4>2. ASSUME pc'[w] = "auditing"
            PROVE  DocumentOf(w).status \in {"approved", "denied"}
        BY <3>2, <4>1, <4>2 DEF PersistFound, Goto, DocumentOf, TypeOK, DocumentType
      <4>3. pc'[w] = "auditing" => \E q \in requests : q.analysis = PayloadOf(w).analysis
        BY <3>2, <4>1, <4>2 DEF PersistFound, DocumentOf, AnsweredInv
      <4>. QED  BY <2>1, <3>2, <4>1, <4>3 DEF PersistFound
    <3>3. CASE PublishRequest(w)
      BY <2>1, <3>3 DEF PublishRequest, RequestInv
    <3>4. CASE ~Evaluate(w) /\ ~PersistFound(w) /\ ~PublishRequest(w)
      BY <1>2, <3>4 DEF WorkerStep, Work, Decide, EvaluateError, Persist, PersistCreated,
            PersistCollision, PersistError, Report, RequestError, PublishAudit,
            AuditError, Publish, PublishError, Ack, Crash, Deliver, Nack, Release, Goto,
            TypeOK
    <3>. QED  BY <3>1, <3>2, <3>3, <3>4
  <2>3. /\ pc'[w] = "publishing" => PayloadOf(w)' \in audited'
        /\ pc'[w] = "acking" => PayloadOf(w)' \in published'
    <3>1. CASE PublishAudit(w) \/ Publish(w)
      BY <2>1, <3>1 DEF PublishAudit, Publish, Goto, TypeOK
    <3>2. CASE ~PublishAudit(w) /\ ~Publish(w)
      BY <1>2, <3>2 DEF WorkerStep, Work, Decide, Evaluate, EvaluateError, Persist,
            PersistCreated, PersistFound, PersistCollision, PersistError, Report,
            PublishRequest, RequestError, AuditError, PublishError, Ack, Crash, Deliver,
            Nack, Release, Goto, TypeOK
    <3>. QED  BY <3>1, <3>2
  \* What w may add to the topics.
  <2>4. /\ audited' \subseteq audited \cup {PayloadOf(w)}
        /\ audited' = audited \/ pc[w] = "auditing"
        /\ published' \subseteq published \cup {PayloadOf(w)}
        /\ published' = published \/ pc[w] = "publishing"
    BY <1>2 DEF WorkerStep, Work, Decide, Evaluate, EvaluateError, Persist,
          PersistCreated, PersistFound, PersistCollision, PersistError, Report,
          PublishRequest, RequestError, PublishAudit, AuditError, Publish, PublishError,
          Ack, Crash, Deliver
  <2>5. EvidenceFirst'
    BY <2>1, <2>4 DEF EvidenceInv, EvidenceFirst
  <2>. QED  BY <2>1, <2>2, <2>3, <2>5 DEF EvidenceInv
<1>. QED  BY <1>1, <1>2, NextSplit

(* A message is acknowledged by a worker that has published its decision. *)
LEMMA NextAcked ==
    ASSUME TypeOK, EvidenceInv, AckedIsDecided, [Next]_vars
    PROVE  AckedIsDecided'
<1>. USE DEF queueVars, workerVars, topicVars
<1>1. CASE Environment \/ UNCHANGED vars
  <2>1. UNCHANGED <<payload, published>>
    BY <1>1, EnvironmentFrame
  <2>2. \A m \in Message : queue'[m] \in {queue[m], "dead-lettered"}
    BY <1>1 DEF Environment, Tick, Resolve, ExpireDocument, DeadLetter, vars, TypeOK
  <2>. QED  BY <2>1, <2>2 DEF AckedIsDecided
<1>2. ASSUME NEW w \in Worker, WorkerStep(w)
      PROVE  AckedIsDecided'
  <2>1. payload' = payload /\ published \subseteq published'
    BY <1>2, StepFrame DEF Grows
  <2>2. CASE Ack(w)
    <3>1. \A m \in Message \ {msg[w]} : queue'[m] = queue[m]
      BY <2>2 DEF Ack, TypeOK
    <3>2. payload[msg[w]] \in published
      BY <2>2 DEF Ack, EvidenceInv, PayloadOf
    <3>. QED  BY <2>1, <3>1, <3>2 DEF AckedIsDecided
  <2>3. CASE ~Ack(w)
    <3>1. queue' = queue
      BY <1>2, <2>3 DEF WorkerStep, Work, Decide, Evaluate, EvaluateError, Persist,
            PersistCreated, PersistFound, PersistCollision, PersistError, Report,
            PublishRequest, RequestError, PublishAudit, AuditError, Publish,
            PublishError, Crash, Deliver, Nack
    <3>. QED  BY <2>1, <3>1 DEF AckedIsDecided
  <2>. QED  BY <2>2, <2>3
<1>. QED  BY <1>1, <1>2, NextSplit

-----------------------------------------------------------------------------
(* The theorems *)

(* IInv is an invariant of the governance agent. *)
THEOREM Invariance == Spec => []IInv
<1>1. Init => IInv
  <2>. SUFFICES ASSUME Init
                PROVE  IInv
    OBVIOUS
  <2>1. TypeOK /\ RequestInv
    BY InitTypeOK
  <2>2. StoredInv /\ AnsweredInv /\ EvidenceInv /\ AckedIsDecided
    BY DEF Init, StoredInv, LiveRequestIsStored, AnsweredInv, Absent, EvidenceInv,
           EvidenceFirst, AckedIsDecided
  <2>. QED  BY <2>1, <2>2 DEF IInv
<1>2. IInv /\ [Next]_vars => IInv'
  <2>. SUFFICES ASSUME IInv, [Next]_vars
                PROVE  IInv'
    OBVIOUS
  <2>1. TypeOK'
    BY NextTypeOK DEF IInv
  <2>2. RequestInv'
    BY NextRequest DEF IInv
  <2>3. StoredInv'
    BY <2>1, NextStored DEF IInv
  <2>4. AnsweredInv'
    BY NextAnswered DEF IInv
  <2>5. EvidenceInv'
    BY NextEvidence DEF IInv
  <2>6. AckedIsDecided'
    BY NextAcked DEF IInv
  <2>. QED  BY <2>1, <2>2, <2>3, <2>4, <2>5, <2>6 DEF IInv
<1>. QED  BY <1>1, <1>2, PTL DEF Spec

(* The governance agent is type-correct. *)
THEOREM TypeCorrect == Spec => []TypeOK
<1>1. IInv => TypeOK
  BY DEF IInv
<1>. QED  BY <1>1, Invariance, PTL

(* The request a reviewer can still answer is the one in Firestore:        *)
(* persist_approval_request.                                               *)
THEOREM LiveRequestIsStoredHolds == Spec => []LiveRequestIsStored
<1>1. IInv => LiveRequestIsStored
  BY DEF IInv, StoredInv
<1>. QED  BY <1>1, Invariance, PTL

(* A decision follows its audit event, and both follow the request: process. *)
THEOREM EvidenceFirstHolds == Spec => []EvidenceFirst
<1>1. IInv => EvidenceFirst
  BY DEF IInv, EvidenceInv
<1>. QED  BY <1>1, Invariance, PTL

(* No incident is acknowledged before its decision is published. *)
THEOREM AckedIsDecidedHolds == Spec => []AckedIsDecided
<1>1. IInv => AckedIsDecided
  BY DEF IInv
<1>. QED  BY <1>1, Invariance, PTL

(* A resolved request is never reopened; it goes when it has expired.      *)
THEOREM ResolvedIsNotReopenedHolds == Spec => ResolvedIsNotReopened
<1>1. ASSUME TypeOK, [Next]_vars,
             NEW a \in Analysis, document[a].status \in {"approved", "denied"}
      PROVE  \/ document'[a] = document[a]
             \/ document'[a] = Absent /\ document[a].request.expires <= clock
  <2>1. CASE Environment \/ UNCHANGED vars
    BY <1>1, <2>1, EnvironmentFrame DEF Answered, Withdrawn
  <2>2. ASSUME NEW w \in Worker, WorkerStep(w)
        PROVE  document'[a] = document[a]
    BY <1>1, <2>2, StepFrame DEF Frame, StoreRequest, DocumentOf, TypeOK
  <2>. QED  BY <1>1, <2>1, <2>2, NextSplit
<1>2. TypeOK /\ [Next]_vars =>
        [\A a \in Analysis : document[a].status \in {"approved", "denied"} =>
            \/ document'[a] = document[a]
            \/ document'[a] = Absent /\ document[a].request.expires <= clock]_vars
  BY <1>1
<1>. QED  BY <1>2, TypeCorrect, PTL DEF Spec, ResolvedIsNotReopened
=============================================================================
