--------------------------- MODULE ApprovalAgentProofs ---------------------------
(***************************************************************************)
(* Theorems about ApprovalAgent, for any set of requests, messages and     *)
(* workers, any lifetimes of requests, envelopes and permits, any skew of  *)
(* the reviewers' clocks, any number of deliveries and any clock bound:    *)
(* at most one decision is in force for a request, and a reviewer made it. *)
(* That a resolution is lost only by expiry holds of reviewers whose       *)
(* clocks are ahead by no more than the agent allows.                      *)
(***************************************************************************)
EXTENDS ApprovalAgent, FiniteSetTheorems, TLAPS

-----------------------------------------------------------------------------
(* Types *)

(* A busy worker has a message, and that an envelope. *)
LEMMA EnvelopeTyped ==
    ASSUME TypeOK, NEW w \in Worker, pc[w] # "idle"
    PROVE  /\ msg[w] \in Message
           /\ EnvelopeOf(w) \in EnvelopeType
           /\ EnvelopeOf(w).request \in Request
           /\ DocumentOf(w) \in DocumentType
<1>1. msg[w] \in Message /\ EnvelopeOf(w) \in EnvelopeType
  BY DEF TypeOK, EnvelopeOf
<1>2. EnvelopeOf(w).request \in Request
  BY <1>1 DEF EnvelopeType
<1>. QED  BY <1>1, <1>2 DEF TypeOK, DocumentOf

(* A worker has a decision in its hands where it needs one. *)
LEMMA ResultTyped ==
    ASSUME TypeOK, NEW w \in Worker, pc[w] \in Reporting \cup {"built"}
    PROVE  result[w] \in DecisionType /\ result[w] # NoDecision
  BY DEF TypeOK

(* What the workers are, apart from the rest of TypeOK. *)
WorkersOK ==
    /\ pc \in [Worker -> Location]
    /\ msg \in [Worker -> Message \cup {NoMessage}]
    /\ result \in [Worker -> DecisionType \cup {NoDecision}]
    /\ \A w \in Worker :
          /\ pc[w] = "idle" <=> msg[w] = NoMessage
          /\ pc[w] # "idle" => envelope[msg[w]] # NoEnvelope
          /\ result[w] # NoDecision <=> pc[w] \in Reporting \cup {"built"}

DocumentsOK ==
    /\ document \in [Request -> DocumentType]
    /\ \A r \in Request : document[r].resolution # NoDecision <=> Resolved(r)

LEMMA ReleaseTyped ==
    ASSUME TypeOK, NEW w \in Worker, Release(w), envelope' = envelope
    PROVE  WorkersOK'
  BY DEF TypeOK, Release, Location, WorkersOK, Reporting

(* A worker that goes on keeps its message; it holds a decision from       *)
(* "built" on.                                                             *)
LEMMA GotoTyped ==
    ASSUME TypeOK, NEW w \in Worker, NEW l \in Location \ {"idle"},
           pc[w] # "idle", Goto(w, l), UNCHANGED <<msg, envelope>>,
           result' \in [Worker -> DecisionType \cup {NoDecision}],
           \A v \in Worker \ {w} : result'[v] = result[v],
           result'[w] # NoDecision <=> l \in Reporting \cup {"built"}
    PROVE  WorkersOK'
  BY DEF TypeOK, Goto, WorkersOK

LEMMA FailureCounted ==
    ASSUME TypeOK, NEW w \in Worker, pc[w] # "idle", CountFailure(w)
    PROVE  failures' \in [Message -> Nat]
<1>1. failures \in [Message -> Nat] /\ msg[w] \in Message
  BY DEF TypeOK
<1>. QED  BY <1>1 DEF CountFailure

(* The decision that BuildDecision makes. *)
LEMMA DecisionTyped ==
    ASSUME TypeOK, NEW w \in Worker, pc[w] # "idle"
    PROVE  LET d == ResolvedDecision(EnvelopeOf(w))
           IN  /\ d \in DecisionType /\ d # NoDecision
               /\ d.expires <= EnvelopeOf(w).expires
<1>1. /\ EnvelopeOf(w) \in EnvelopeType /\ clock \in Nat /\ PermitTTL \in Nat
      /\ NoDecision \notin DecisionType
  BY EnvelopeTyped, ApprovalAssumption DEF TypeOK
<1>2. EnvelopeOf(w).expires \in Nat
  BY <1>1 DEF EnvelopeType
<1>3. LET s == Earlier(EnvelopeOf(w).expires, clock + PermitTTL)
      IN  s \in Nat /\ s <= EnvelopeOf(w).expires
  BY <1>1, <1>2 DEF Earlier
<1>. QED  BY <1>1, <1>3 DEF ResolvedDecision, EnvelopeType, DecisionType

(* The transaction's write: a pending document becomes resolved, with the  *)
(* worker's decision and the expiry it had.                                *)
Stores(w) == pc[w] = "built" /\ DocumentOf(w).status = "pending" /\ StoreResolution(w)

LEMMA StoreEffect ==
    ASSUME TypeOK, NEW w \in Worker, Stores(w)
    PROVE  LET r == EnvelopeOf(w).request
           IN  /\ document' \in [Request -> DocumentType]
               /\ document'[r].status \in {"approved", "denied"}
               /\ document'[r].expires = document[r].expires
               /\ document'[r].resolution = result[w]
               /\ \A q \in Request \ {r} : document'[q] = document[q]
               /\ document[r].status = "pending" /\ document[r].resolution = NoDecision
<1>1. EnvelopeOf(w).request \in Request /\ DocumentOf(w) \in DocumentType
  BY EnvelopeTyped DEF Stores
<1>2. result[w] \in DecisionType
  BY ResultTyped DEF Stores
<1>3. document[EnvelopeOf(w).request].expires \in Nat
  BY <1>1 DEF DocumentOf, DocumentType
<1>4. [ status     |-> IF EnvelopeOf(w).decision = "APPROVE" THEN "approved" ELSE "denied",
        expires    |-> document[EnvelopeOf(w).request].expires,
        resolution |-> result[w] ] \in DocumentType
  BY <1>2, <1>3 DEF DocumentType
<1>5. document' = [document EXCEPT ![EnvelopeOf(w).request] =
        [ status     |-> IF EnvelopeOf(w).decision = "APPROVE" THEN "approved" ELSE "denied",
          expires    |-> document[EnvelopeOf(w).request].expires,
          resolution |-> result[w] ]]
  BY DEF Stores, StoreResolution
<1>6. document[EnvelopeOf(w).request].resolution = NoDecision
  BY <1>1 DEF Stores, DocumentOf, TypeOK, Resolved
<1>7. document \in [Request -> DocumentType]
  BY DEF TypeOK
<1>. HIDE DEF EnvelopeOf
<1>. QED  BY <1>1, <1>4, <1>5, <1>6, <1>7 DEF Stores, DocumentOf

LEMMA StoreTyped ==
    ASSUME TypeOK, NEW w \in Worker, Stores(w)
    PROVE  DocumentsOK'
<1>1. EnvelopeOf(w).request \in Request /\ result[w] # NoDecision
  BY EnvelopeTyped, ResultTyped DEF Stores
<1>. QED  BY <1>1, StoreEffect DEF DocumentsOK, TypeOK, Resolved

LEMMA InitTypeOK == Init => TypeOK
  BY ApprovalAssumption
     DEF Init, TypeOK, Location, Reporting, DocumentType, Absent, Resolved

(* The envelope that a reviewer signs and message m first carries. *)
Signed(m) == {e \in EnvelopeType : e.approval = m /\ e.issued <= clock + ReviewerSkew}

LEMMA ReviewEffect ==
    ASSUME TypeOK, NEW m \in Message, Review(m)
    PROVE  \E e \in Signed(m) : envelope' = [envelope EXCEPT ![m] = e]
<1>1. ASSUME NEW r \in Request, NEW b \in requested[r],
             NEW t \in clock .. clock + ReviewerSkew,
             NEW x \in {t + EnvelopeTTL, Earlier(b, t + EnvelopeTTL)},
             NEW choice \in {"APPROVE", "DENY"}, NEW s \in Signature
      PROVE  [approval |-> m, request |-> r, binding |-> b, decision |-> choice,
              issued |-> t, expires |-> x, signed |-> s] \in Signed(m)
  <2>1. /\ b \in Nat /\ t \in Nat /\ t + EnvelopeTTL \in Nat /\ s \in BOOLEAN
        /\ t <= clock + ReviewerSkew
    BY <1>1, ApprovalAssumption DEF TypeOK
  <2>2. x \in Nat
    BY <1>1, <2>1 DEF Earlier
  <2>. QED  BY <2>1, <2>2 DEF Signed, EnvelopeType
<1>. QED  BY <1>1 DEF Review

(* Time, requests, reviewers and the subscription keep the types. *)
LEMMA EnvironmentTypeOK ==
    ASSUME TypeOK,
           \/ Tick
           \/ \E r \in Request : CreateRequest(r) \/ ExpireDocument(r)
           \/ \E m \in Message : Review(m) \/ Republish(m) \/ DeadLetter(m)
    PROVE  TypeOK'
<1>. USE DEF requestVars, queueVars, workerVars, topicVars
<1>1. CASE Tick
  BY <1>1 DEF Tick, TypeOK, Resolved
<1>2. ASSUME NEW r \in Request, CreateRequest(r) PROVE TypeOK'
  <2>1. clock + ApprovalTTL \in Nat
    BY ApprovalAssumption DEF TypeOK
  <2>2. [status |-> "pending", expires |-> clock + ApprovalTTL,
         resolution |-> NoDecision] \in DocumentType
    BY <2>1 DEF DocumentType
  <2>3. DocumentsOK'
    BY <1>2, <2>2 DEF CreateRequest, DocumentsOK, TypeOK, Resolved
  <2>. QED  BY <1>2, <2>1, <2>3 DEF CreateRequest, DocumentsOK, TypeOK
<1>3. ASSUME NEW r \in Request, ExpireDocument(r) PROVE TypeOK'
  <2>1. DocumentsOK'
    BY <1>3 DEF ExpireDocument, Absent, DocumentType, DocumentsOK, TypeOK, Resolved
  <2>. QED  BY <1>3, <2>1 DEF ExpireDocument, DocumentsOK, TypeOK
<1>4. ASSUME NEW m \in Message, Review(m) \/ Republish(m) PROVE TypeOK'
  <2>1. \E e \in EnvelopeType : envelope' = [envelope EXCEPT ![m] = e]
    <3>1. CASE Review(m)
      BY <3>1, ReviewEffect DEF Signed
    <3>2. CASE Republish(m)
      BY <3>2 DEF Republish, TypeOK
    <3>. QED  BY <1>4, <3>1, <3>2
  <2>2. PICK e \in EnvelopeType : envelope' = [envelope EXCEPT ![m] = e]
    BY <2>1
  <2>3. /\ queue[m] = "unsent" /\ queue' = [queue EXCEPT ![m] = "pending"]
        /\ UNCHANGED <<clock, requestVars, attempts, workerVars, topicVars, failures>>
    BY <1>4 DEF Review, Republish
  <2>4. envelope[m] = NoEnvelope /\ e # NoEnvelope
    BY <2>3, ApprovalAssumption DEF TypeOK
  <2>5. envelope' \in [Message -> EnvelopeType \cup {NoEnvelope}]
    BY <2>2 DEF TypeOK
  <2>6. \A w \in Worker : pc[w] # "idle" => msg[w] # m /\ msg[w] \in Message
    BY <2>4 DEF TypeOK
  <2>7. WorkersOK'
    BY <2>2, <2>3, <2>6 DEF WorkersOK, TypeOK
  <2>8. \A n \in Message : queue'[n] = "unsent" <=> envelope'[n] = NoEnvelope
    BY <2>2, <2>3, <2>4 DEF TypeOK
  <2>. QED  BY <2>3, <2>5, <2>7, <2>8 DEF WorkersOK, TypeOK, Resolved
<1>5. ASSUME NEW m \in Message, DeadLetter(m) PROVE TypeOK'
  BY <1>5 DEF DeadLetter, TypeOK, Resolved
<1>. QED  BY <1>1, <1>2, <1>3, <1>4, <1>5

(* A worker keeps the types. *)
LEMMA WorkerTypeOK ==
    ASSUME TypeOK, NEW w \in Worker, Work(w) \/ Crash(w) \/ \E m \in Message : Deliver(w, m)
    PROVE  TypeOK'
<1>. USE DEF requestVars, queueVars, workerVars, topicVars
<1>1. ASSUME NEW m \in Message, Deliver(w, m) PROVE TypeOK'
  <2>1. WorkersOK'
    BY <1>1, ApprovalAssumption DEF Deliver, Goto, WorkersOK, TypeOK, Location, Reporting
  <2>. QED  BY <1>1, <2>1 DEF Deliver, WorkersOK, TypeOK, Resolved
<1>2. CASE Verify(w) \/ ReadRequest(w) \/ BuildDecision(w)
  <2>1. WorkersOK'
    <3>1. CASE Verify(w)
      BY <3>1, GotoTyped DEF Verify, TypeOK, Location, Reporting
    <3>2. CASE ReadRequest(w)
      BY <3>2, GotoTyped DEF ReadRequest, TypeOK, Location, Reporting
    <3>3. CASE BuildDecision(w)
      <4>1. ResolvedDecision(EnvelopeOf(w)) \in DecisionType
            /\ ResolvedDecision(EnvelopeOf(w)) # NoDecision
        BY <3>3, DecisionTyped DEF BuildDecision
      <4>. QED  BY <3>3, <4>1, GotoTyped DEF BuildDecision, TypeOK, Location
    <3>. QED  BY <1>2, <3>1, <3>2, <3>3
  <2>. QED
    BY <1>2, <2>1 DEF Verify, ReadRequest, BuildDecision, WorkersOK, TypeOK, Resolved
<1>3. CASE Refuse(w) \/ CommitRefused(w)
  <2>1. WorkersOK'
    BY <1>3, ReleaseTyped DEF Refuse, CommitRefused, Nack
  <2>. QED  BY <1>3, <2>1 DEF Refuse, CommitRefused, Nack, WorkersOK, TypeOK, Resolved
<1>4. CASE CommitFirst(w)
  <2>1. DocumentsOK'
    BY <1>4, StoreTyped DEF CommitFirst, Stores
  <2>2. result[w] # NoDecision
    BY <1>4, ResultTyped DEF CommitFirst
  <2>3. WorkersOK'
    BY <1>4, <2>2, GotoTyped DEF CommitFirst, TypeOK, Location, Reporting
  <2>. QED  BY <1>4, <2>1, <2>3 DEF CommitFirst, DocumentsOK, WorkersOK, TypeOK
<1>5. CASE CommitAgain(w)
  <2>1. DocumentOf(w).resolution \in DecisionType /\ DocumentOf(w).resolution # NoDecision
    BY <1>5, EnvelopeTyped DEF CommitAgain, ResolvedByThis, DocumentOf, TypeOK, DocumentType
  <2>2. WorkersOK'
    BY <1>5, <2>1, GotoTyped DEF CommitAgain, TypeOK, Location, Reporting
  <2>. QED  BY <1>5, <2>2 DEF CommitAgain, WorkersOK, TypeOK, Resolved
<1>6. CASE CommitError(w)
  <2>1. DocumentsOK'
    BY <1>6, StoreTyped DEF CommitError, Stores, DocumentsOK, TypeOK, Resolved
  <2>2. WorkersOK' /\ failures' \in [Message -> Nat]
    BY <1>6, ReleaseTyped, FailureCounted DEF CommitError, Nack
  <2>. QED  BY <1>6, <2>1, <2>2 DEF CommitError, Nack, DocumentsOK, WorkersOK, TypeOK
<1>7. CASE PublishAudit(w) \/ Publish(w)
  <2>1. WorkersOK'
    BY <1>7, ResultTyped, GotoTyped
       DEF PublishAudit, Publish, TypeOK, Location, Reporting
  <2>2. audited' \in SUBSET Message /\ published' \in SUBSET DecisionType
    BY <1>7, EnvelopeTyped, ResultTyped
       DEF PublishAudit, Publish, TypeOK, Reporting, EnvelopeType
  <2>. QED  BY <1>7, <2>1, <2>2 DEF PublishAudit, Publish, WorkersOK, TypeOK, Resolved
<1>8. CASE AuditError(w) \/ PublishError(w)
  <2>1. WorkersOK' /\ failures' \in [Message -> Nat]
    BY <1>8, ReleaseTyped, FailureCounted DEF AuditError, PublishError, Nack
  <2>2. audited' \in SUBSET Message /\ published' \in SUBSET DecisionType
    BY <1>8, EnvelopeTyped, ResultTyped
       DEF AuditError, PublishError, TypeOK, Reporting, EnvelopeType
  <2>. QED  BY <1>8, <2>1, <2>2 DEF AuditError, PublishError, Nack, WorkersOK, TypeOK, Resolved
<1>9. CASE Ack(w)
  <2>1. WorkersOK'
    BY <1>9, ReleaseTyped DEF Ack
  <2>2. msg[w] \in Message /\ queue[msg[w]] # "unsent"
    BY <1>9, EnvelopeTyped DEF Ack, TypeOK
  <2>. QED  BY <1>9, <2>1, <2>2 DEF Ack, WorkersOK, TypeOK, Resolved
<1>10. CASE Crash(w)
  <2>1. WorkersOK' /\ failures' \in [Message -> Nat]
    BY <1>10, ReleaseTyped, FailureCounted DEF Crash, Nack
  <2>. QED  BY <1>10, <2>1 DEF Crash, Nack, WorkersOK, TypeOK, Resolved
<1>. QED
  BY <1>1, <1>2, <1>3, <1>4, <1>5, <1>6, <1>7, <1>8, <1>9, <1>10
     DEF Work, Check, Commit, Report

LEMMA NextTypeOK == TypeOK /\ [Next]_vars => TypeOK'
<1>1. TypeOK /\ UNCHANGED vars => TypeOK'
  BY DEF vars, requestVars, queueVars, workerVars, topicVars, TypeOK, Resolved
<1>. QED  BY <1>1, EnvironmentTypeOK, WorkerTypeOK DEF Next

(* Documents, envelopes, queues and workers are what they should be.       *)
THEOREM TypeCorrect == Spec => []TypeOK
  BY InitTypeOK, NextTypeOK, PTL DEF Spec

-----------------------------------------------------------------------------
(* The inductive invariant *)

(* An envelope that is in order, as long as it lasts. *)
Valid(e) == e.signed /\ e.issued < e.expires /\ e.expires <= e.binding

(* A reviewer's verified envelope says what d says, and lasts as long.     *)
Grounds(d, m) ==
    /\ envelope[m] # NoEnvelope
    /\ Valid(envelope[m])
    /\ envelope[m].approval = d.approval
    /\ envelope[m].request = d.request
    /\ envelope[m].binding = d.binding
    /\ envelope[m].binding \in requested[d.request]
    /\ envelope[m].decision = "APPROVE" <=> d.value = "PERMIT"
    /\ d.expires <= envelope[m].expires
    /\ d.expires <= d.binding
Reviewed(d) == \E m \in Message : Grounds(d, m)

(* Envelopes are answers to requests that were made. *)
EnvelopeInv ==
    \A m \in Message : envelope[m] # NoEnvelope =>
        envelope[m].binding \in requested[envelope[m].request]

(* What a worker has checked still holds, or what it bound has expired.    *)
Bound(w) ==
    \/ EnvelopeOf(w).binding <= clock
    \/ DocumentOf(w).status # "absent" /\ DocumentOf(w).expires = EnvelopeOf(w).binding
WorkerInv(w) ==
    /\ pc[w] \in {"verified", "read", "built"} =>
          EnvelopeOf(w).signed /\ EnvelopeOf(w).issued < EnvelopeOf(w).expires
    /\ pc[w] \in {"read", "built"} => Bound(w)
    /\ pc[w] = "built" => Grounds(result[w], msg[w])
    /\ pc[w] \in Reporting =>
          /\ Reviewed(result[w])
          /\ result[w].request = EnvelopeOf(w).request
          /\ result[w].approval = EnvelopeOf(w).approval
    /\ pc[w] \in {"publishing", "acking"} => EnvelopeOf(w).approval \in audited
    /\ pc[w] = "acking" => result[w] \in published

(* A resolution is its document's, or came too late to be of any use.      *)
ResolutionInv(r) ==
    Resolved(r) =>
        /\ document[r].resolution.request = r
        /\ Reviewed(document[r].resolution)
        /\ \/ document[r].resolution.binding = document[r].expires
           \/ document[r].resolution.binding <= clock

(* Decisions on the topic, and those on their way there. *)
Out(d) == d \in published \/ \E w \in Worker : pc[w] \in Reporting /\ result[w] = d

(* As long as its request is in force, such a decision is the stored one. *)
LiveInv ==
    \A d \in DecisionType :
        Out(d) /\ d.binding > clock => document[d.request].resolution = d

PublishedInv == \A d \in published : Reviewed(d) /\ d.approval \in audited

IInv ==
    /\ TypeOK
    /\ EnvelopeInv
    /\ \A w \in Worker : WorkerInv(w)
    /\ \A r \in Request : ResolutionInv(r)
    /\ LiveInv
    /\ PublishedInv

-----------------------------------------------------------------------------
(* What a step leaves alone *)

Environment ==
    \/ Tick
    \/ \E r \in Request : CreateRequest(r) \/ ExpireDocument(r)
    \/ \E m \in Message : Review(m) \/ Republish(m) \/ DeadLetter(m)
WorkerStep(w) == Work(w) \/ Crash(w) \/ \E m \in Message : Deliver(w, m)

LEMMA NextSplit ==
    ASSUME [Next]_vars
    PROVE  Environment \/ (\E w \in Worker : WorkerStep(w)) \/ UNCHANGED vars
  BY DEF Next, Environment, WorkerStep

(* Envelopes that were sent do not change, requests that were made and     *)
(* what was published stay, and time does not go back.                     *)
Grows ==
    /\ \A m \in Message : envelope[m] # NoEnvelope => envelope'[m] = envelope[m]
    /\ \A r \in Request : requested[r] \subseteq requested'[r]
    /\ audited \subseteq audited' /\ published \subseteq published'
    /\ clock' \in Nat /\ clock <= clock'

LEMMA StepGrows ==
    ASSUME TypeOK, [Next]_vars
    PROVE  Grows
<1>. USE DEF requestVars, queueVars, workerVars, topicVars, Grows
<1>0. clock \in Nat /\ clock <= clock
  BY DEF TypeOK
<1>1. CASE Environment
  <2>1. CASE Tick
    BY <1>0, <2>1 DEF Tick, TypeOK
  <2>2. ASSUME NEW r \in Request, CreateRequest(r) \/ ExpireDocument(r) PROVE Grows
    BY <1>0, <2>2 DEF CreateRequest, ExpireDocument, TypeOK
  <2>3. ASSUME NEW m \in Message, Review(m) \/ Republish(m) \/ DeadLetter(m) PROVE Grows
    <3>1. CASE Review(m) \/ Republish(m)
      <4>1. envelope[m] = NoEnvelope
        BY <3>1 DEF Review, Republish, TypeOK
      <4>2. \A n \in Message \ {m} : envelope'[n] = envelope[n]
        BY <3>1 DEF Review, Republish, TypeOK
      <4>. QED  BY <1>0, <3>1, <4>1, <4>2 DEF Review, Republish
    <3>2. CASE DeadLetter(m)
      BY <1>0, <3>2 DEF DeadLetter
    <3>. QED  BY <2>3, <3>1, <3>2
  <2>. QED  BY <1>1, <2>1, <2>2, <2>3 DEF Environment
<1>2. ASSUME NEW w \in Worker, WorkerStep(w) PROVE Grows
  <2>1. /\ UNCHANGED <<clock, requested, envelope>>
        /\ audited \subseteq audited' /\ published \subseteq published'
    BY <1>2 DEF WorkerStep, Work, Check, Verify, ReadRequest, BuildDecision, Refuse,
          Commit, CommitFirst, CommitAgain, CommitRefused, CommitError, Report,
          PublishAudit, AuditError, Publish, PublishError, Ack, Crash, Deliver, Nack
  <2>. QED  BY <1>0, <2>1
<1>3. CASE UNCHANGED vars
  BY <1>0, <1>3 DEF vars
<1>. QED  BY <1>1, <1>2, <1>3, NextSplit

(* A step of w touches no other worker, writes a document only by storing  *)
(* its decision, and publishes only what it has.                           *)
Frame(w) ==
    /\ UNCHANGED <<clock, requested, envelope>>
    /\ \A v \in Worker \ {w} : pc'[v] = pc[v] /\ msg'[v] = msg[v] /\ result'[v] = result[v]
    /\ document' = document \/ Stores(w)
    /\ \/ published' = published
       \/ pc[w] = "publishing" /\ published' = published \cup {result[w]}

LEMMA StepFrame ==
    ASSUME TypeOK, NEW w \in Worker, WorkerStep(w)
    PROVE  Frame(w)
<1>. USE DEF requestVars, queueVars, workerVars, topicVars, Frame
<1>1. CASE Check(w)
  BY <1>1 DEF Check, Verify, ReadRequest, BuildDecision, Refuse, Goto, Nack, Release, TypeOK
<1>2. CASE Commit(w)
  BY <1>2 DEF Commit, CommitFirst, CommitAgain, CommitRefused, CommitError, Stores,
        Goto, Nack, Release, TypeOK
<1>3. CASE Report(w)
  BY <1>3 DEF Report, PublishAudit, AuditError, Publish, PublishError, Ack, Goto, Nack,
        Release, TypeOK
<1>4. CASE Crash(w)
  BY <1>4 DEF Crash, Nack, Release, TypeOK
<1>5. CASE \E m \in Message : Deliver(w, m)
  BY <1>5 DEF Deliver, Goto, TypeOK
<1>. QED  BY <1>1, <1>2, <1>3, <1>4, <1>5 DEF WorkerStep, Work

(* Where a step takes w, and on what grounds.                              *)
Moves(w) ==
    \/ pc'[w] \in {"idle", "received"}
    \/ /\ pc[w] # "idle" /\ msg'[w] = msg[w]
       /\ \/ /\ pc'[w] = "verified" /\ EnvelopeOf(w).signed
             /\ EnvelopeOf(w).issued < EnvelopeOf(w).expires
          \/ /\ pc[w] = "verified" /\ pc'[w] = "read" /\ document' = document
             /\ DocumentOf(w).status # "absent"
             /\ DocumentOf(w).expires = EnvelopeOf(w).binding
          \/ /\ pc[w] = "read" /\ pc'[w] = "built" /\ document' = document
             /\ EnvelopeOf(w).expires <= EnvelopeOf(w).binding
             /\ result'[w] = ResolvedDecision(EnvelopeOf(w))
          \/ /\ pc'[w] = "auditing" /\ Stores(w) /\ result'[w] = result[w]
          \/ /\ pc[w] = "built" /\ pc'[w] = "auditing" /\ document' = document
             /\ ResolvedByThis(w) /\ result'[w] = DocumentOf(w).resolution
          \/ /\ pc[w] \in Reporting /\ pc'[w] \in Reporting /\ result'[w] = result[w]
             /\ document' = document
             /\ pc'[w] \in {"publishing", "acking"} =>
                   pc[w] = "publishing" \/ EnvelopeOf(w).approval \in audited'
             /\ pc'[w] = "acking" => result[w] \in published'

LEMMA StepMoves ==
    ASSUME TypeOK, NEW w \in Worker, WorkerStep(w)
    PROVE  Moves(w)
<1>. USE DEF requestVars, queueVars, workerVars, topicVars, Moves
<1>1. CASE Check(w)
  BY <1>1, EnvelopeTyped DEF InWindow, EnvelopeType, Check, Verify, ReadRequest, BuildDecision, Refuse, Goto, Nack, Release, TypeOK
<1>2. CASE Commit(w)
  BY <1>2 DEF Commit, CommitFirst, CommitAgain, CommitRefused, CommitError, Stores,
        Goto, Nack, Release, TypeOK
<1>3. CASE Report(w)
  BY <1>3 DEF Report, PublishAudit, AuditError, Publish, PublishError, Ack, Goto, Nack,
        Release, TypeOK, Reporting
<1>4. CASE Crash(w)
  BY <1>4 DEF Crash, Nack, Release, TypeOK
<1>5. CASE \E m \in Message : Deliver(w, m)
  BY <1>5 DEF Deliver, Goto, TypeOK
<1>. QED  BY <1>1, <1>2, <1>3, <1>4, <1>5 DEF WorkerStep, Work

(* The environment changes no worker and no topic, and of the documents at *)
(* most one: it makes it where there was none, or deletes it once expired. *)
Created(r) ==
    /\ document[r].status = "absent"
    /\ document'[r].status = "pending" /\ document'[r].resolution = NoDecision
Deleted(r) ==
    /\ document[r].status # "absent" /\ document[r].expires <= clock
    /\ document'[r] = Absent

LEMMA EnvironmentFrame ==
    ASSUME TypeOK, Environment \/ UNCHANGED vars
    PROVE  /\ UNCHANGED <<pc, msg, result, audited, published>>
           /\ \/ document' = document
              \/ /\ clock' = clock
                 /\ \E r \in Request :
                       /\ \A q \in Request \ {r} : document'[q] = document[q]
                       /\ Created(r) \/ Deleted(r)
<1>. USE DEF requestVars, queueVars, workerVars, topicVars
<1>1. CASE Tick
  BY <1>1 DEF Tick
<1>2. ASSUME NEW r \in Request, CreateRequest(r)
      PROVE  /\ UNCHANGED <<pc, msg, result, audited, published, clock>>
             /\ \A q \in Request \ {r} : document'[q] = document[q]
             /\ Created(r)
  BY <1>2 DEF CreateRequest, Created, TypeOK
<1>3. ASSUME NEW r \in Request, ExpireDocument(r)
      PROVE  /\ UNCHANGED <<pc, msg, result, audited, published, clock>>
             /\ \A q \in Request \ {r} : document'[q] = document[q]
             /\ Deleted(r)
  BY <1>3 DEF ExpireDocument, Deleted, TypeOK
<1>4. CASE \E m \in Message : Review(m) \/ Republish(m) \/ DeadLetter(m)
  BY <1>4 DEF Review, Republish, DeadLetter
<1>5. CASE UNCHANGED vars
  BY <1>5 DEF vars
<1>. QED  BY <1>1, <1>2, <1>3, <1>4, <1>5 DEF Environment

(* What a document was when a step changed it. *)
LEMMA DocumentFrame ==
    ASSUME TypeOK, [Next]_vars, NEW r \in Request
    PROVE  \/ document'[r] = document[r]
           \/ Created(r) /\ clock' = clock
           \/ Deleted(r) /\ clock' = clock
           \/ /\ clock' = clock
              /\ \E w \in Worker : Stores(w) /\ EnvelopeOf(w).request = r
<1>1. CASE Environment \/ UNCHANGED vars
  BY <1>1, EnvironmentFrame
<1>2. ASSUME NEW w \in Worker, WorkerStep(w), document'[r] # document[r]
      PROVE  clock' = clock /\ Stores(w) /\ EnvelopeOf(w).request = r
  BY <1>2, StepFrame, StoreEffect DEF Frame
<1>. QED  BY <1>1, <1>2, NextSplit

-----------------------------------------------------------------------------
(* What stays *)

(* A reviewer's word stands. *)
LEMMA GroundsStay ==
    ASSUME TypeOK, Grows, NEW d \in DecisionType, NEW m \in Message, Grounds(d, m)
    PROVE  Grounds(d, m)'
<1>1. d.request \in Request
  BY DEF DecisionType
<1>. QED  BY <1>1 DEF Grows, Grounds

LEMMA ReviewStays ==
    ASSUME TypeOK, Grows, NEW d \in DecisionType, Reviewed(d)
    PROVE  Reviewed(d)'
  BY GroundsStay DEF Reviewed

(* The envelope a busy worker has does not change under it. *)
LEMMA EnvelopeStays ==
    ASSUME TypeOK, Grows, NEW w \in Worker, pc[w] # "idle", msg'[w] = msg[w]
    PROVE  EnvelopeOf(w)' = EnvelopeOf(w)
  BY DEF TypeOK, Grows, EnvelopeOf

(* What a worker has bound stays as it is, or has expired. *)
LEMMA BoundStays ==
    ASSUME TypeOK, [Next]_vars, NEW w \in Worker, pc[w] # "idle", Bound(w),
           msg'[w] = msg[w]
    PROVE  Bound(w)'
<1>. DEFINE r == EnvelopeOf(w).request
            b == EnvelopeOf(w).binding
<1>1. r \in Request /\ b \in Nat /\ clock \in Nat /\ clock' \in Nat /\ clock <= clock'
  BY EnvelopeTyped, StepGrows DEF TypeOK, EnvelopeType, Grows
<1>2. EnvelopeOf(w)' = EnvelopeOf(w)
  BY EnvelopeStays, StepGrows
<1>3. b <= clock \/ (document[r].status # "absent" /\ document[r].expires = b)
  BY DEF Bound, DocumentOf
<1>4. b <= clock' \/ (document'[r].status # "absent" /\ document'[r].expires = b)
  <2>1. CASE b <= clock
    BY <1>1, <2>1
  <2>2. CASE document'[r] = document[r]
    BY <1>1, <1>3, <2>1, <2>2
  <2>3. CASE clock' = clock /\ (Created(r) \/ Deleted(r))
    BY <1>3, <2>3 DEF Created, Deleted
  <2>4. ASSUME NEW v \in Worker, Stores(v), EnvelopeOf(v).request = r
        PROVE  document'[r].status # "absent" /\ document'[r].expires = document[r].expires
    BY <2>4, StoreEffect
  <2>. QED  BY <1>1, <1>3, <2>1, <2>2, <2>3, <2>4, DocumentFrame
<1>. QED  BY <1>2, <1>4 DEF Bound, DocumentOf

-----------------------------------------------------------------------------
(* Each part of the invariant is kept *)

LEMMA NextEnvelope == TypeOK /\ EnvelopeInv /\ [Next]_vars => EnvelopeInv'
<1> SUFFICES ASSUME TypeOK, EnvelopeInv, [Next]_vars PROVE EnvelopeInv'
  OBVIOUS
<1>1. Grows /\ TypeOK'
  BY StepGrows, NextTypeOK
<1>2. ASSUME NEW m \in Message, envelope[m] # NoEnvelope
      PROVE  envelope'[m].binding \in requested'[envelope'[m].request]
  BY <1>1, <1>2 DEF Grows, EnvelopeInv, TypeOK, EnvelopeType
<1>3. ASSUME NEW m \in Message, envelope'[m] # NoEnvelope, envelope[m] = NoEnvelope
      PROVE  envelope'[m].binding \in requested'[envelope'[m].request]
  <2>1. CASE Review(m)
    <3>1. envelope'[m].binding \in requested[envelope'[m].request]
      BY <2>1 DEF Review, TypeOK
    <3>. QED  BY <2>1, <3>1 DEF Review, requestVars
  <2>2. CASE Republish(m)
    BY <2>2 DEF Republish, requestVars, EnvelopeInv, TypeOK
  <2>3. ASSUME NEW n \in Message \ {m}, Review(n) \/ Republish(n)
        PROVE  envelope'[m] = envelope[m]
    BY <2>3 DEF Review, Republish, TypeOK
  <2>4. CASE ~\E n \in Message : Review(n) \/ Republish(n)
    <3>1. envelope' = envelope
      <4>1. CASE Environment
        BY <2>4, <4>1 DEF Environment, Tick, CreateRequest, ExpireDocument, DeadLetter,
                          queueVars
      <4>2. CASE \E w \in Worker : WorkerStep(w)
        BY <4>2, StepFrame DEF Frame
      <4>3. CASE UNCHANGED vars
        BY <4>3 DEF vars, queueVars
      <4>. QED  BY <4>1, <4>2, <4>3, NextSplit
    <3>. QED  BY <1>3, <3>1
  <2>. QED  BY <1>3, <2>1, <2>2, <2>3, <2>4
<1>. QED  BY <1>2, <1>3 DEF EnvelopeInv

(* A worker that is not the one that moves keeps what it has. *)
LEMMA OthersKeep ==
    ASSUME TypeOK, [Next]_vars, NEW w \in Worker, WorkerInv(w),
           pc'[w] = pc[w], msg'[w] = msg[w], result'[w] = result[w]
    PROVE  WorkerInv(w)'
<1>1. Grows
  BY StepGrows
<1>2. CASE pc[w] = "idle"
  BY <1>2 DEF WorkerInv, Reporting
<1>3. CASE pc[w] # "idle"
  <2>1. EnvelopeOf(w)' = EnvelopeOf(w) /\ msg[w] \in Message
    BY <1>1, <1>3, EnvelopeStays, EnvelopeTyped
  <2>2. pc[w] \in {"read", "built"} => Bound(w)'
    BY BoundStays DEF WorkerInv
  <2>3. pc[w] = "built" => Grounds(result[w], msg[w])'
    <3>1. ASSUME pc[w] = "built" PROVE Grounds(result[w], msg[w])'
      <4>1. PICK d \in DecisionType : d = result[w]
        BY <3>1, ResultTyped
      <4>2. PICK m \in Message : m = msg[w]
        BY <2>1
      <4>3. Grounds(d, m)'
        BY <1>1, <3>1, <4>1, <4>2, GroundsStay DEF WorkerInv
      <4>. QED  BY <4>1, <4>2, <4>3 DEF Grounds
    <3>. QED  BY <3>1
  <2>4. pc[w] \in Reporting => Reviewed(result[w])'
    <3>1. ASSUME pc[w] \in Reporting PROVE Reviewed(result[w])'
      <4>1. PICK d \in DecisionType : d = result[w]
        BY <3>1, ResultTyped
      <4>2. Reviewed(d)'
        BY <1>1, <3>1, <4>1, ReviewStays DEF WorkerInv
      <4>. QED  BY <4>1, <4>2 DEF Reviewed, Grounds
    <3>. QED  BY <3>1
  <2>. QED  BY <1>1, <2>1, <2>2, <2>3, <2>4 DEF WorkerInv, Grows
<1>. QED  BY <1>2, <1>3

(* The worker that moves: from a check to the next, to a decision of its   *)
(* own, and with that or the stored one to the topics.                     *)
LEMMA MoverKeeps ==
    ASSUME TypeOK, [Next]_vars, NEW w \in Worker, WorkerStep(w), WorkerInv(w),
           EnvelopeInv, \A r \in Request : ResolutionInv(r)
    PROVE  WorkerInv(w)'
<1>0. Grows /\ Frame(w) /\ Moves(w) /\ TypeOK'
  BY StepGrows, StepFrame, StepMoves, NextTypeOK
<1>1. CASE pc'[w] \in {"idle", "received"}
  BY <1>1 DEF WorkerInv, Reporting
<1>2. ASSUME pc[w] # "idle", msg'[w] = msg[w]
      PROVE  /\ EnvelopeOf(w)' = EnvelopeOf(w) /\ EnvelopeOf(w) \in EnvelopeType
             /\ EnvelopeOf(w) = envelope[msg[w]] /\ envelope[msg[w]] # NoEnvelope
             /\ EnvelopeOf(w).request \in Request /\ msg[w] \in Message
             /\ clock' = clock
  BY <1>0, <1>2, EnvelopeStays, EnvelopeTyped DEF Frame, EnvelopeOf, TypeOK
<1>3. CASE /\ pc[w] # "idle" /\ msg'[w] = msg[w] /\ pc'[w] = "verified"
           /\ EnvelopeOf(w).signed /\ EnvelopeOf(w).issued < EnvelopeOf(w).expires
  BY <1>2, <1>3 DEF WorkerInv, Reporting
<1>4. CASE /\ pc[w] = "verified" /\ pc'[w] = "read" /\ msg'[w] = msg[w]
           /\ document' = document /\ DocumentOf(w).status # "absent"
           /\ DocumentOf(w).expires = EnvelopeOf(w).binding
  BY <1>2, <1>4 DEF WorkerInv, Reporting, Bound, DocumentOf
<1>5. CASE /\ pc[w] = "read" /\ pc'[w] = "built" /\ msg'[w] = msg[w]
           /\ document' = document
           /\ EnvelopeOf(w).expires <= EnvelopeOf(w).binding
           /\ result'[w] = ResolvedDecision(EnvelopeOf(w))
  <2>1. Bound(w)' /\ Valid(EnvelopeOf(w))
    BY <1>5, BoundStays DEF WorkerInv, Valid
  <2>2. /\ result'[w].expires <= EnvelopeOf(w).expires
        /\ result'[w].expires \in Nat
    BY <1>5, DecisionTyped DEF DecisionType
  <2>3. /\ EnvelopeOf(w).expires \in Nat /\ EnvelopeOf(w).binding \in Nat
        /\ EnvelopeOf(w).decision \in {"APPROVE", "DENY"}
        /\ EnvelopeOf(w).binding \in requested[EnvelopeOf(w).request]
    BY <1>2, <1>5 DEF EnvelopeType, EnvelopeInv
  <2>4. result'[w].expires <= EnvelopeOf(w).binding
    BY <1>5, <2>2, <2>3
  <2>5. requested' = requested /\ envelope' = envelope
    BY <1>0 DEF Frame
  <2>6. /\ result'[w].approval = EnvelopeOf(w).approval
        /\ result'[w].request = EnvelopeOf(w).request
        /\ result'[w].binding = EnvelopeOf(w).binding
        /\ EnvelopeOf(w).decision = "APPROVE" <=> result'[w].value = "PERMIT"
    BY <1>5, <2>3 DEF ResolvedDecision
  <2>7. Grounds(result[w], msg[w])'
    BY <1>2, <1>5, <2>1, <2>2, <2>3, <2>4, <2>5, <2>6 DEF Grounds
  <2>. QED  BY <1>2, <1>5, <2>1, <2>7 DEF WorkerInv, Reporting
<1>6. CASE pc'[w] = "auditing" /\ Stores(w) /\ result'[w] = result[w] /\ msg'[w] = msg[w]
  <2>1. PICK d \in DecisionType : d = result[w]
    BY <1>6, ResultTyped DEF Stores
  <2>2. PICK m \in Message : m = msg[w]
    BY <1>2, <1>6 DEF Stores
  <2>3. Grounds(d, m)
    BY <1>6, <2>1, <2>2 DEF Stores, WorkerInv
  <2>4. Reviewed(d)'
    BY <1>0, <2>3, GroundsStay DEF Reviewed
  <2>5. Reviewed(result[w])'
    BY <1>6, <2>1, <2>4 DEF Reviewed, Grounds
  <2>6. d.request = EnvelopeOf(w).request /\ d.approval = EnvelopeOf(w).approval
    BY <2>2, <2>3 DEF Grounds, EnvelopeOf
  <2>. QED  BY <1>2, <1>6, <2>1, <2>5, <2>6 DEF WorkerInv, Reporting, Stores
<1>7. CASE /\ pc[w] = "built" /\ pc'[w] = "auditing" /\ msg'[w] = msg[w]
           /\ document' = document
           /\ ResolvedByThis(w) /\ result'[w] = DocumentOf(w).resolution
  <2>1. ResolutionInv(EnvelopeOf(w).request) /\ Resolved(EnvelopeOf(w).request)
    BY <1>2, <1>7 DEF ResolvedByThis
  <2>2. PICK d \in DecisionType : d = DocumentOf(w).resolution
    <3>1. DocumentOf(w) \in DocumentType
      BY <1>7, EnvelopeTyped
    <3>2. DocumentOf(w).resolution # NoDecision
      BY <1>2, <1>7, <2>1 DEF DocumentOf, TypeOK
    <3>. QED  BY <3>1, <3>2 DEF DocumentType
  <2>3. Reviewed(d)'
    BY <1>0, <2>1, <2>2, ReviewStays DEF ResolutionInv, DocumentOf
  <2>4. Reviewed(result[w])'
    BY <1>7, <2>2, <2>3 DEF Reviewed, Grounds
  <2>5. d.request = EnvelopeOf(w).request /\ d.approval = EnvelopeOf(w).approval
    BY <1>7, <2>1, <2>2 DEF ResolutionInv, ResolvedByThis, DocumentOf
  <2>. QED  BY <1>2, <1>7, <2>2, <2>4, <2>5 DEF WorkerInv, Reporting
<1>8. CASE /\ pc[w] \in Reporting /\ pc'[w] \in Reporting /\ msg'[w] = msg[w]
           /\ result'[w] = result[w] /\ document' = document
           /\ pc'[w] \in {"publishing", "acking"} =>
                 pc[w] = "publishing" \/ EnvelopeOf(w).approval \in audited'
           /\ pc'[w] = "acking" => result[w] \in published'
  <2>1. PICK d \in DecisionType : d = result[w]
    BY <1>8, ResultTyped
  <2>2. Reviewed(d)'
    BY <1>0, <1>8, <2>1, ReviewStays DEF WorkerInv
  <2>3. Reviewed(result[w])'
    BY <1>8, <2>1, <2>2 DEF Reviewed, Grounds
  <2>4. pc'[w] \in {"publishing", "acking"} => EnvelopeOf(w).approval \in audited'
    BY <1>0, <1>8 DEF WorkerInv, Grows
  <2>. QED  BY <1>2, <1>8, <2>3, <2>4 DEF WorkerInv, Reporting
<1>. QED
  BY <1>0, <1>1, <1>3, <1>4, <1>5, <1>6, <1>7, <1>8 DEF Moves, Stores

LEMMA NextWorker ==
    ASSUME TypeOK, EnvelopeInv, \A w \in Worker : WorkerInv(w),
           \A r \in Request : ResolutionInv(r), [Next]_vars, NEW w \in Worker
    PROVE  WorkerInv(w)'
<1>1. CASE Environment \/ UNCHANGED vars
  BY <1>1, EnvironmentFrame, OthersKeep
<1>2. CASE WorkerStep(w)
  BY <1>2, MoverKeeps
<1>3. ASSUME NEW v \in Worker \ {w}, WorkerStep(v) PROVE WorkerInv(w)'
  BY <1>3, StepFrame, OthersKeep DEF Frame
<1>. QED  BY <1>1, <1>2, <1>3, NextSplit

(* A resolution is stored for the document it was bound to, or late.       *)
LEMMA NextResolution ==
    ASSUME TypeOK, \A w \in Worker : WorkerInv(w), [Next]_vars,
           NEW r \in Request, ResolutionInv(r)
    PROVE  ResolutionInv(r)'
<1>0. Grows /\ clock \in Nat
  BY StepGrows DEF TypeOK
<1>1. CASE document'[r] = document[r]
  <2>1. ASSUME Resolved(r) PROVE Reviewed(document[r].resolution)'
    <3>1. PICK d \in DecisionType : d = document[r].resolution
      BY <2>1 DEF TypeOK, DocumentType
    <3>2. Reviewed(d)'
      BY <1>0, <2>1, <3>1, ReviewStays DEF ResolutionInv
    <3>. QED  BY <1>1, <3>1, <3>2 DEF Reviewed, Grounds
  <2>2. ASSUME Resolved(r) PROVE document[r].resolution.binding \in Nat
    BY <2>2 DEF TypeOK, DocumentType, DecisionType
  <2>. QED  BY <1>0, <1>1, <2>1, <2>2 DEF ResolutionInv, Resolved, Grows
<1>2. CASE Created(r) \/ Deleted(r)
  BY <1>2 DEF Created, Deleted, Absent, ResolutionInv, Resolved
<1>3. ASSUME NEW w \in Worker, Stores(w), EnvelopeOf(w).request = r, clock' = clock
      PROVE  ResolutionInv(r)'
  <2>1. PICK d \in DecisionType : d = result[w]
    BY <1>3, ResultTyped DEF Stores
  <2>2. document'[r].resolution = d /\ document'[r].expires = document[r].expires
    BY <1>3, <2>1, StoreEffect
  <2>3. PICK m \in Message : m = msg[w]
    BY <1>3, EnvelopeTyped DEF Stores
  <2>4. Grounds(d, m) /\ Bound(w)
    BY <1>3, <2>1, <2>3 DEF Stores, WorkerInv
  <2>5. d.request = r /\ d.binding = EnvelopeOf(w).binding /\ d.expires <= d.binding
    BY <1>3, <2>3, <2>4 DEF Grounds, EnvelopeOf
  <2>6. Reviewed(d)'
    BY <1>0, <2>4, GroundsStay DEF Reviewed
  <2>7. d.binding = document[r].expires \/ d.binding <= clock
    BY <1>0, <1>3, <2>4, <2>5 DEF Bound, DocumentOf, DecisionType
  <2>8. Reviewed(document[r].resolution)'
    BY <2>2, <2>6 DEF Reviewed, Grounds
  <2>. QED  BY <1>3, <2>2, <2>5, <2>7, <2>8 DEF ResolutionInv
<1>. QED  BY <1>1, <1>2, <1>3, DocumentFrame

(* What a step brings out is the stored resolution, or was out before.     *)
LEMMA NewlyOut ==
    ASSUME TypeOK, \A w \in Worker : WorkerInv(w), \A r \in Request : ResolutionInv(r),
           [Next]_vars, NEW d \in DecisionType, Out(d)'
    PROVE  Out(d) \/ document'[d.request].resolution = d
<1>1. CASE Environment \/ UNCHANGED vars
  BY <1>1, EnvironmentFrame DEF Out
<1>2. ASSUME NEW w \in Worker, WorkerStep(w)
      PROVE  Out(d) \/ document'[d.request].resolution = d
  <2>1. Frame(w) /\ Moves(w)
    BY <1>2, StepFrame, StepMoves
  <2>2. CASE d \in published'
    BY <2>1, <2>2 DEF Frame, Out, Reporting
  <2>3. ASSUME NEW v \in Worker \ {w}, pc'[v] \in Reporting, result'[v] = d
        PROVE  Out(d)
    BY <2>1, <2>3 DEF Frame, Out
  <2>4. CASE pc'[w] \in Reporting /\ result'[w] = d
    <3>1. CASE Stores(w) /\ result'[w] = result[w]
      <4>1. Grounds(result[w], msg[w])
        BY <3>1 DEF Stores, WorkerInv
      <4>2. d.request = EnvelopeOf(w).request
        BY <2>4, <3>1, <4>1 DEF Grounds, EnvelopeOf
      <4>. QED  BY <2>4, <3>1, <4>2, StoreEffect
    <3>2. CASE /\ pc[w] = "built" /\ document' = document
               /\ ResolvedByThis(w) /\ result'[w] = DocumentOf(w).resolution
      <4>1. EnvelopeOf(w).request \in Request
        BY <3>2, EnvelopeTyped
      <4>2. d.request = EnvelopeOf(w).request
        BY <2>4, <3>2, <4>1 DEF ResolvedByThis, ResolutionInv, DocumentOf
      <4>. QED  BY <2>4, <3>2, <4>2 DEF DocumentOf
    <3>3. CASE pc[w] \in Reporting /\ result'[w] = result[w]
      BY <2>4, <3>3 DEF Out
    <3>. QED  BY <2>1, <2>4, <3>1, <3>2, <3>3 DEF Moves, Reporting
  <2>. QED  BY <2>2, <2>3, <2>4 DEF Out
<1>. QED  BY <1>1, <1>2, NextSplit

LEMMA NextLive ==
    ASSUME TypeOK, \A w \in Worker : WorkerInv(w), \A r \in Request : ResolutionInv(r),
           LiveInv, [Next]_vars
    PROVE  LiveInv'
<1> SUFFICES ASSUME NEW d \in DecisionType, Out(d)', d.binding > clock'
             PROVE  document'[d.request].resolution = d
  BY DEF LiveInv
<1>1. /\ d.request \in Request /\ d.expires \in Nat /\ d.binding \in Nat
      /\ clock \in Nat /\ clock' \in Nat /\ clock <= clock'
  BY StepGrows DEF Grows, DecisionType, TypeOK
<1>2. CASE Out(d)
  <2>1. d.binding > clock
    BY <1>1
  <2>2. document[d.request].resolution = d /\ Resolved(d.request)
    BY <1>1, <1>2, <2>1, ApprovalAssumption DEF LiveInv, TypeOK
  <2>3. d.binding = document[d.request].expires
    BY <1>1, <2>1, <2>2 DEF ResolutionInv
  <2>4. ~Created(d.request)
    BY <2>2 DEF Created, Resolved
  <2>5. ~Deleted(d.request)
    BY <1>1, <2>1, <2>3 DEF Deleted
  <2>6. ~\E w \in Worker : Stores(w) /\ EnvelopeOf(w).request = d.request
    BY <1>1, <2>2, StoreEffect DEF Resolved
  <2>. QED  BY <1>1, <2>2, <2>4, <2>5, <2>6, DocumentFrame
<1>. QED  BY <1>2, NewlyOut

LEMMA NextPublished ==
    ASSUME TypeOK, \A w \in Worker : WorkerInv(w), PublishedInv, [Next]_vars
    PROVE  PublishedInv'
<1>0. Grows /\ published \subseteq DecisionType
  BY StepGrows DEF TypeOK
<1>1. ASSUME NEW d \in published PROVE Reviewed(d)' /\ d.approval \in audited'
  BY <1>0, <1>1, ReviewStays DEF PublishedInv, Grows
<1>2. ASSUME NEW w \in Worker, pc[w] = "publishing"
      PROVE  Reviewed(result[w]) /\ result[w].approval \in audited
  BY <1>2 DEF WorkerInv, Reporting
<1>3. ASSUME NEW d \in published', d \notin published
      PROVE  Reviewed(d)' /\ d.approval \in audited'
  <2>1. PICK w \in Worker : pc[w] = "publishing" /\ d = result[w]
    <3>1. CASE Environment \/ UNCHANGED vars
      BY <1>3, <3>1, EnvironmentFrame
    <3>2. ASSUME NEW w \in Worker, WorkerStep(w)
          PROVE  pc[w] = "publishing" /\ d = result[w]
      BY <1>3, <3>2, StepFrame DEF Frame
    <3>. QED  BY <3>1, <3>2, NextSplit
  <2>2. d \in DecisionType
    BY <2>1, ResultTyped DEF Reporting
  <2>. QED  BY <1>0, <1>2, <2>1, <2>2, ReviewStays DEF Grows
<1>. QED  BY <1>1, <1>3 DEF PublishedInv

-----------------------------------------------------------------------------
(* The theorems *)

LEMMA InitIInv == Init => IInv
<1> SUFFICES ASSUME Init PROVE IInv
  OBVIOUS
<1>1. EnvelopeInv /\ LiveInv /\ PublishedInv
  BY DEF Init, EnvelopeInv, LiveInv, Out, Reporting, PublishedInv
<1>2. \A w \in Worker : WorkerInv(w)
  BY DEF Init, WorkerInv, Reporting
<1>3. \A r \in Request : ResolutionInv(r)
  BY DEF Init, ResolutionInv, Resolved, Absent
<1>. QED  BY <1>1, <1>2, <1>3, InitTypeOK DEF IInv

LEMMA NextIInv == IInv /\ [Next]_vars => IInv'
  BY NextTypeOK, NextEnvelope, NextWorker, NextResolution, NextLive, NextPublished
     DEF IInv

(* Every part of the invariant holds in every reachable state.             *)
THEOREM Invariance == Spec => []IInv
  BY InitIInv, NextIInv, PTL DEF Spec

(* commit_resolution 206-237: at most one decision is in force for a       *)
(* request, however many envelopes, redeliveries and generations of the    *)
(* request document there are.                                             *)
THEOREM LiveDecisionsAgreeHolds == Spec => []LiveDecisionsAgree
<1>1. IInv => LiveDecisionsAgree
  <2> SUFFICES ASSUME IInv, NEW x \in published, NEW y \in published,
                      x.request = y.request, x.expires > clock, y.expires > clock
               PROVE  x = y
    BY DEF LiveDecisionsAgree
  <2>1. ASSUME NEW d \in published, d.expires > clock
        PROVE  document[d.request].resolution = d
    <3>1. d \in DecisionType /\ Reviewed(d) /\ Out(d) /\ clock \in Nat
      BY DEF IInv, TypeOK, PublishedInv, Out
    <3>2. d.expires \in Nat /\ d.binding \in Nat /\ d.expires <= d.binding
      BY <3>1 DEF DecisionType, Reviewed, Grounds
    <3>. QED  BY <2>1, <3>1, <3>2 DEF IInv, LiveInv
  <2>. QED  BY <2>1
<1>. QED  BY <1>1, Invariance, PTL

(* process 248-251: what is published, a verified envelope for a request   *)
(* that was made has said, and the audit event came first.                 *)
THEOREM DecisionIsReviewedHolds == Spec => []DecisionIsReviewed
<1>1. IInv => DecisionIsReviewed
  <2> SUFFICES ASSUME IInv, NEW d \in published
               PROVE  \E m \in Message : Grounds(d, m) /\ d.approval \in audited
    BY DEF DecisionIsReviewed, Grounds, Valid
  <2>. QED  BY DEF IInv, PublishedInv, Reviewed
<1>. QED  BY <1>1, Invariance, PTL

(* resolve_approval 182-223: a resolution that a late worker stores in a   *)
(* newer document of its request has expired.                              *)
THEOREM StaleResolutionHasExpiredHolds == Spec => []StaleResolutionHasExpired
<1>1. IInv => StaleResolutionHasExpired
  <2> SUFFICES ASSUME IInv, NEW r \in Request, Resolved(r),
                      document[r].resolution.binding # document[r].expires
               PROVE  document[r].resolution.expires <= clock
    BY DEF StaleResolutionHasExpired
  <2>1. PICK d \in DecisionType : d = document[r].resolution
    BY DEF IInv, TypeOK, DocumentType
  <2>2. d.binding <= clock /\ d.expires <= d.binding /\ clock \in Nat
    BY <2>1 DEF IInv, TypeOK, ResolutionInv, Reviewed, Grounds
  <2>. QED  BY <2>1, <2>2 DEF DecisionType
<1>. QED  BY <1>1, Invariance, PTL

-----------------------------------------------------------------------------
(* What becomes of the deliveries of a message                             *)

(* The callbacks that have m in their hands. *)
Flying(m) == {w \in Worker : msg[w] = m}

(* Deliveries of m that did not fail are still under way. *)
Counted(m) ==
    /\ queue[m] \in {"pending", "dead-lettered"}
    /\ attempts[m] = failures[m] + Cardinality(Flying(m))

DeliveryInv ==
    \A m \in Message :
        /\ IsFiniteSet(Flying(m))
        /\ queue[m] = "unsent" => attempts[m] = 0 /\ failures[m] = 0
        /\ queue[m] = "dead-lettered" => attempts[m] = MaxDeliveries /\ Flying(m) = {}

(* A callback that ends without having failed. *)
GivesUp(w) == Refuse(w) \/ CommitRefused(w) \/ Ack(w)

(* What a step does to a message and its deliveries.                       *)
Untouched(m) ==
    /\ queue'[m] = queue[m] /\ attempts'[m] = attempts[m] /\ failures'[m] = failures[m]
    /\ Flying(m)' = Flying(m)
Sent(m) ==
    /\ queue[m] = "unsent" /\ queue'[m] = "pending"
    /\ attempts'[m] = attempts[m] /\ failures'[m] = failures[m]
    /\ Flying(m) = {} /\ Flying(m)' = {}
Buried(m) ==
    /\ queue[m] = "pending" /\ queue'[m] = "dead-lettered"
    /\ attempts[m] = MaxDeliveries
    /\ attempts'[m] = attempts[m] /\ failures'[m] = failures[m]
    /\ Flying(m) = {} /\ Flying(m)' = {}
Delivered(m) ==
    /\ queue[m] = "pending" /\ queue'[m] = "pending"
    /\ attempts'[m] = attempts[m] + 1 /\ failures'[m] = failures[m]
    /\ \E w \in Worker \ Flying(m) : Flying(m)' = Flying(m) \cup {w}
Fails(m) ==
    /\ queue'[m] = queue[m] /\ attempts'[m] = attempts[m]
    /\ failures'[m] = failures[m] + 1
    /\ \E w \in Flying(m) : Flying(m)' = Flying(m) \ {w}
Given(m) ==
    /\ queue'[m] \in {queue[m], "acked"} /\ queue[m] # "unsent"
    /\ queue[m] = "dead-lettered" => queue'[m] = "dead-lettered"
    /\ attempts'[m] = attempts[m] /\ failures'[m] = failures[m]
    /\ \E w \in Flying(m) : GivesUp(w) /\ Flying(m)' = Flying(m) \ {w}
Counting(m) ==
    \/ Untouched(m) \/ Sent(m) \/ Buried(m)
    \/ Delivered(m) \/ Fails(m) \/ Given(m)

(* A callback that returns or raises leaves the message it had. *)
LEMMA ReleaseFlying ==
    ASSUME TypeOK, NEW w \in Worker, pc[w] # "idle", Release(w), NEW m \in Message
    PROVE  /\ msg[w] = m =>
                 queue[m] # "unsent" /\ w \in Flying(m) /\ Flying(m)' = Flying(m) \ {w}
           /\ msg[w] # m => Flying(m)' = Flying(m)
<1>1. NoMessage \notin Message /\ (msg[w] = m => queue[m] # "unsent")
  BY ApprovalAssumption DEF TypeOK
<1>2. msg' = [msg EXCEPT ![w] = NoMessage] /\ msg \in [Worker -> Message \cup {NoMessage}]
  BY DEF Release, TypeOK
<1>3. Flying(m)' = Flying(m) \ {w}
  BY <1>1, <1>2 DEF Flying
<1>. QED  BY <1>1, <1>3 DEF Flying

LEMMA StepCounting ==
    ASSUME TypeOK, [Next]_vars, NEW m \in Message
    PROVE  Counting(m)
<1>. USE DEF requestVars, queueVars, workerVars, topicVars, Counting
<1>1. CASE Environment
  <2>1. UNCHANGED <<pc, msg, failures, attempts>>
    BY <1>1 DEF Environment, Tick, CreateRequest, ExpireDocument, Review, Republish, DeadLetter
  <2>2. Flying(m)' = Flying(m)
    BY <2>1 DEF Flying
  <2>3. CASE queue'[m] = queue[m]
    BY <2>1, <2>2, <2>3 DEF Untouched
  <2>4. CASE Review(m) \/ Republish(m)
    <3>1. queue[m] = "unsent" /\ queue'[m] = "pending"
      BY <2>4 DEF Review, Republish, TypeOK
    <3>2. Flying(m) = {}
      <4>1. ASSUME NEW w \in Worker, msg[w] = m PROVE FALSE
        BY <3>1, <4>1, ApprovalAssumption DEF TypeOK
      <4>. QED  BY <4>1 DEF Flying
    <3>. QED  BY <2>1, <2>2, <3>1, <3>2 DEF Sent
  <2>5. CASE DeadLetter(m)
    <3>1. Flying(m) = {} /\ queue'[m] = "dead-lettered"
      BY <2>5 DEF Flying, DeadLetter, TypeOK
    <3>. QED  BY <2>1, <2>2, <2>5, <3>1 DEF Buried, DeadLetter
  <2>6. ASSUME queue'[m] # queue[m] PROVE Review(m) \/ Republish(m) \/ DeadLetter(m)
    BY <1>1, <2>6 DEF Environment, Tick, CreateRequest, ExpireDocument, Review, Republish,
                      DeadLetter, TypeOK
  <2>. QED  BY <2>3, <2>4, <2>5, <2>6
<1>2. ASSUME NEW w \in Worker, WorkerStep(w) PROVE Counting(m)
  <2>1. CASE UNCHANGED <<msg, queue, attempts, failures>>
    BY <2>1 DEF Untouched, Flying
  <2>2. CASE /\ pc[w] # "idle" /\ Release(w) /\ CountFailure(w)
             /\ UNCHANGED <<queue, attempts>>
    <3>1. CASE msg[w] = m
      <4>1. failures'[m] = failures[m] + 1
        BY <2>2, <3>1 DEF CountFailure, TypeOK
      <4>. QED  BY <2>2, <3>1, <4>1, ReleaseFlying DEF Fails
    <3>2. CASE msg[w] # m
      <4>1. failures'[m] = failures[m]
        BY <2>2, <3>2 DEF CountFailure, TypeOK
      <4>. QED  BY <2>2, <3>2, <4>1, ReleaseFlying DEF Untouched
    <3>. QED  BY <3>1, <3>2
  <2>3. CASE /\ pc[w] # "idle" /\ Release(w) /\ GivesUp(w)
             /\ UNCHANGED <<attempts, failures>>
             /\ queue' \in {queue, [queue EXCEPT ![msg[w]] =
                                       IF @ = "pending" THEN "acked" ELSE @]}
    <3>0. queue \in [Message -> {"unsent", "pending", "acked", "dead-lettered"}]
      BY DEF TypeOK
    <3>1. CASE msg[w] = m
      <4>1. /\ queue'[m] \in {queue[m], "acked"}
            /\ queue[m] = "dead-lettered" => queue'[m] = "dead-lettered"
        BY <2>3, <3>0, <3>1
      <4>. QED  BY <2>3, <3>1, <4>1, ReleaseFlying DEF Given
    <3>2. CASE msg[w] # m
      <4>1. queue'[m] = queue[m]
        BY <2>3, <3>0, <3>2
      <4>. QED  BY <2>3, <3>2, <4>1, ReleaseFlying DEF Untouched
    <3>. QED  BY <3>1, <3>2
  <2>4. ASSUME NEW n \in Message, Deliver(w, n) PROVE Counting(m)
    <3>1. /\ msg' = [msg EXCEPT ![w] = n] /\ msg[w] = NoMessage /\ NoMessage \notin Message
          /\ msg \in [Worker -> Message \cup {NoMessage}]
      BY <2>4, ApprovalAssumption DEF Deliver, TypeOK
    <3>2. CASE n = m
      <4>1. w \notin Flying(m)
        BY <3>1 DEF Flying
      <4>2. Flying(m)' = Flying(m) \cup {w}
        BY <3>1, <3>2 DEF Flying
      <4>3. attempts'[m] = attempts[m] + 1
        BY <2>4, <3>2 DEF Deliver, TypeOK
      <4>. QED  BY <2>4, <3>2, <4>1, <4>2, <4>3 DEF Deliver, Delivered
    <3>3. CASE n # m
      <4>1. Flying(m)' = Flying(m)
        BY <3>1, <3>3 DEF Flying
      <4>2. attempts'[m] = attempts[m]
        BY <2>4, <3>3 DEF Deliver, TypeOK
      <4>. QED  BY <2>4, <4>1, <4>2 DEF Deliver, Untouched
    <3>. QED  BY <3>2, <3>3
  <2>5. CASE Check(w)
    BY <2>1, <2>3, <2>5 DEF Check, Verify, ReadRequest, BuildDecision, Refuse, CheckFails,
                            Nack, GivesUp
  <2>6. CASE Commit(w)
    BY <2>1, <2>2, <2>3, <2>6 DEF Commit, CommitFirst, CommitAgain, CommitRefused,
                                  CommitError, Nack, GivesUp
  <2>7. CASE Report(w)
    BY <2>1, <2>2, <2>3, <2>7 DEF Report, PublishAudit, AuditError, Publish, PublishError,
                                  Ack, Nack, GivesUp
  <2>8. CASE Crash(w)
    BY <2>2, <2>8 DEF Crash, Nack
  <2>. QED  BY <1>2, <2>4, <2>5, <2>6, <2>7, <2>8 DEF WorkerStep, Work
<1>3. CASE UNCHANGED vars
  BY <1>3 DEF vars, Untouched, Flying
<1>. QED  BY <1>1, <1>2, <1>3, NextSplit

LEMMA NextDelivery ==
    ASSUME TypeOK, DeliveryInv, [Next]_vars
    PROVE  DeliveryInv'
<1> SUFFICES ASSUME NEW m \in Message
             PROVE  /\ IsFiniteSet(Flying(m)')
                    /\ queue'[m] = "unsent" => attempts'[m] = 0 /\ failures'[m] = 0
                    /\ queue'[m] = "dead-lettered" =>
                          attempts'[m] = MaxDeliveries /\ Flying(m)' = {}
  BY DEF DeliveryInv
<1>1. /\ IsFiniteSet(Flying(m))
      /\ queue[m] = "unsent" => attempts[m] = 0 /\ failures[m] = 0
      /\ queue[m] = "dead-lettered" => attempts[m] = MaxDeliveries /\ Flying(m) = {}
  BY DEF DeliveryInv
<1>2. queue[m] = "unsent" => Flying(m) = {}
  BY ApprovalAssumption DEF TypeOK, Flying
<1>3. Counting(m)
  BY StepCounting
<1>4. IsFiniteSet(Flying(m)')
  BY <1>1, <1>3, FS_EmptySet, FS_AddElement, FS_RemoveElement
     DEF Counting, Untouched, Sent, Buried, Delivered, Fails, Given
<1>. QED
  BY <1>1, <1>2, <1>3, <1>4 DEF Counting, Untouched, Sent, Buried, Delivered, Fails, Given

(* A count goes on unless a callback gives up the message. *)
LEMMA CountGoesOn ==
    ASSUME TypeOK, DeliveryInv, [Next]_vars, NEW m \in Message,
           Counted(m) \/ queue[m] = "unsent", queue'[m] # "unsent",
           ~\E w \in Flying(m) : GivesUp(w)
    PROVE  Counted(m)'
<1>1. /\ IsFiniteSet(Flying(m)) /\ Cardinality(Flying(m)) \in Nat
      /\ queue[m] = "unsent" => attempts[m] = 0 /\ failures[m] = 0
      /\ attempts[m] \in Nat /\ failures[m] \in Nat
  BY FS_CardinalityType DEF DeliveryInv, TypeOK
<1>2. Counting(m)
  BY StepCounting
<1>3. CASE Untouched(m)
  <2>1. Cardinality(Flying(m))' = Cardinality(Flying(m))
    BY <1>3 DEF Untouched
  <2>. QED  BY <1>3, <2>1 DEF Untouched, Counted
<1>4. CASE Sent(m) \/ Buried(m)
  <2>1. Cardinality(Flying(m)) = 0 /\ Cardinality(Flying(m)') = 0
    BY <1>4, FS_EmptySet DEF Sent, Buried
  <2>. QED  BY <1>1, <1>4, <2>1 DEF Sent, Buried, Counted
<1>5. CASE Delivered(m)
  <2>1. Cardinality(Flying(m)') = Cardinality(Flying(m)) + 1
    BY <1>1, <1>5, FS_AddElement DEF Delivered
  <2>. QED  BY <1>1, <1>5, <2>1 DEF Delivered, Counted
<1>6. CASE Fails(m)
  <2>1. Cardinality(Flying(m)') = Cardinality(Flying(m)) - 1
    BY <1>1, <1>6, FS_RemoveElement DEF Fails
  <2>2. queue[m] # "unsent"
    <3>1. PICK w \in Flying(m) : TRUE
      BY <1>6 DEF Fails
    <3>. QED  BY <3>1, ApprovalAssumption DEF Flying, TypeOK
  <2>. QED  BY <1>1, <1>6, <2>1, <2>2 DEF Fails, Counted
<1>. QED  BY <1>2, <1>3, <1>4, <1>5, <1>6 DEF Counting, Given

-----------------------------------------------------------------------------
(* What an envelope that is in order comes to                              *)

(* An approval id names one envelope: the message that first carried it.   *)
NamedInv ==
    \A m \in Message : envelope[m] # NoEnvelope =>
        envelope[envelope[m].approval] = envelope[m]

(* No reviewer's clock is further ahead than the agent allows. *)
IssuedInv ==
    \A m \in Message : envelope[m] # NoEnvelope => envelope[m].issued <= clock + MaxSkew

(* The document of a request is there until it expires. *)
RequestedInv ==
    \A r \in Request : \A b \in requested[r] :
        b <= clock \/ (document[r].status # "absent" /\ document[r].expires = b)

(* The request was resolved by another envelope, or e's decision is out. *)
Answered(e) ==
    /\ Resolved(e.request)
    /\ \/ document[e.request].resolution.approval # e.approval
       \/ document[e.request].resolution \in published

(* Until it expires, an envelope that is in order is answered, or only     *)
(* failures use up its deliveries.                                         *)
KeptInv ==
    \A m \in Message :
        /\ envelope[m] # NoEnvelope
        /\ Valid(envelope[m])
        /\ envelope[m].expires > clock
        => Answered(envelope[m]) \/ Counted(m)

(* A stored resolution is on its way, or a delivery of its envelope failed. *)
Carries(m, d) == envelope[m] # NoEnvelope /\ envelope[m].approval = d.approval
Reported(d) == Out(d) \/ \E m \in Message : Carries(m, d) /\ failures[m] > 0
ReportedInv == \A r \in Request : Resolved(r) => Reported(document[r].resolution)

(* What a step does to the envelopes. *)
Written(m) ==
    /\ clock' = clock
    /\ \A n \in Message \ {m} : envelope'[n] = envelope[n]
    /\ \/ /\ envelope'[m].approval = m
          /\ envelope'[m].issued <= clock + ReviewerSkew
       \/ \E n \in Message : envelope[n] # NoEnvelope /\ envelope'[m] = envelope[n]

LEMMA EnvelopeFrame ==
    ASSUME TypeOK, [Next]_vars
    PROVE  envelope' = envelope \/ \E m \in Message : envelope[m] = NoEnvelope /\ Written(m)
<1>1. ASSUME NEW m \in Message, Review(m) PROVE envelope[m] = NoEnvelope /\ Written(m)
  <2>1. PICK e \in Signed(m) : envelope' = [envelope EXCEPT ![m] = e]
    BY <1>1, ReviewEffect
  <2>2. envelope[m] = NoEnvelope /\ clock' = clock
    BY <1>1 DEF Review, TypeOK
  <2>. QED  BY <2>1, <2>2 DEF Signed, Written, TypeOK
<1>2. ASSUME NEW m \in Message, Republish(m) PROVE envelope[m] = NoEnvelope /\ Written(m)
  BY <1>2 DEF Republish, Written, TypeOK
<1>3. CASE Environment
  BY <1>1, <1>2, <1>3 DEF Environment, Tick, CreateRequest, ExpireDocument, DeadLetter,
                          queueVars
<1>4. CASE \E w \in Worker : WorkerStep(w)
  BY <1>4, StepFrame DEF Frame
<1>5. CASE UNCHANGED vars
  BY <1>5 DEF vars, queueVars
<1>. QED  BY <1>3, <1>4, <1>5, NextSplit

LEMMA NextNamed ==
    ASSUME TypeOK, NamedInv, [Next]_vars
    PROVE  NamedInv'
<1>1. Grows
  BY StepGrows
<1>2. ASSUME NEW n \in Message, envelope[n] # NoEnvelope
      PROVE  envelope'[envelope'[n].approval] = envelope'[n] /\ envelope'[n] = envelope[n]
             /\ envelope'[envelope[n].approval] = envelope[n]
  <2>1. envelope[n].approval \in Message /\ envelope[envelope[n].approval] = envelope[n]
    BY <1>2 DEF NamedInv, TypeOK, EnvelopeType
  <2>. QED  BY <1>1, <1>2, <2>1 DEF Grows
<1>3. CASE envelope' = envelope
  BY <1>3 DEF NamedInv
<1>4. ASSUME NEW m \in Message, Written(m), envelope[m] = NoEnvelope PROVE NamedInv'
  <2>1. envelope'[m] # NoEnvelope => envelope'[envelope'[m].approval] = envelope'[m]
    BY <1>2, <1>4 DEF Written
  <2>. QED  BY <1>2, <1>4, <2>1 DEF NamedInv, Written
<1>. QED  BY <1>3, <1>4, EnvelopeFrame

LEMMA NextIssued ==
    ASSUME TypeOK, IssuedInv, [Next]_vars, ReviewerSkew <= MaxSkew
    PROVE  IssuedInv'
<1>1. Grows /\ TypeOK'
  BY StepGrows, NextTypeOK
<1>2. clock \in Nat /\ clock' \in Nat /\ MaxSkew \in Nat /\ ReviewerSkew \in Nat
  BY <1>1, ApprovalAssumption DEF TypeOK
<1>3. ASSUME NEW n \in Message, envelope[n] # NoEnvelope
      PROVE  envelope[n].issued <= clock' + MaxSkew /\ envelope'[n] = envelope[n]
  <2>1. envelope[n].issued \in Nat
    BY <1>3 DEF TypeOK, EnvelopeType
  <2>. QED  BY <1>1, <1>2, <1>3, <2>1 DEF Grows, IssuedInv
<1>4. CASE envelope' = envelope
  BY <1>3, <1>4 DEF IssuedInv
<1>5. ASSUME NEW m \in Message, Written(m), envelope[m] = NoEnvelope PROVE IssuedInv'
  <2>1. ASSUME envelope'[m] # NoEnvelope PROVE envelope'[m].issued <= clock' + MaxSkew
    <3>1. envelope'[m].issued \in Nat
      BY <1>1, <2>1 DEF TypeOK, EnvelopeType
    <3>. QED  BY <1>2, <1>3, <1>5, <3>1 DEF Written
  <2>. QED  BY <1>3, <1>5, <2>1 DEF IssuedInv, Written
<1>. QED  BY <1>4, <1>5, EnvelopeFrame

LEMMA NextRequested ==
    ASSUME TypeOK, RequestedInv, [Next]_vars
    PROVE  RequestedInv'
<1> SUFFICES ASSUME NEW r \in Request, NEW b \in requested'[r], ~(b <= clock')
             PROVE  document'[r].status # "absent" /\ document'[r].expires = b
  BY DEF RequestedInv
<1>1. Grows /\ clock \in Nat /\ b \in Nat
  BY StepGrows, NextTypeOK DEF TypeOK
<1>2. CASE CreateRequest(r) /\ b = clock + ApprovalTTL
  BY <1>2 DEF CreateRequest, TypeOK
<1>3. CASE b \in requested[r]
  <2>1. document[r].status # "absent" /\ document[r].expires = b /\ b > clock
    BY <1>1, <1>3 DEF RequestedInv, Grows
  <2>2. CASE document'[r] = document[r]
    BY <2>1, <2>2
  <2>3. ASSUME NEW w \in Worker, Stores(w), EnvelopeOf(w).request = r
        PROVE  document'[r].status # "absent" /\ document'[r].expires = document[r].expires
    BY <2>3, StoreEffect
  <2>4. ~Created(r) /\ ~Deleted(r)
    BY <1>1, <2>1 DEF Created, Deleted
  <2>. QED  BY <2>1, <2>2, <2>3, <2>4, DocumentFrame
<1>4. CASE b \notin requested[r]
  <2>1. requested' # requested
    BY <1>4
  <2>2. PICK q \in Request : CreateRequest(q)
    <3>1. CASE Environment
      BY <2>1, <3>1 DEF Environment, Tick, ExpireDocument, Review, Republish, DeadLetter,
                        requestVars
    <3>2. CASE \E w \in Worker : WorkerStep(w)
      BY <2>1, <3>2, StepFrame DEF Frame
    <3>3. CASE UNCHANGED vars
      BY <2>1, <3>3 DEF vars, requestVars
    <3>. QED  BY <3>1, <3>2, <3>3, NextSplit
  <2>3. q = r /\ b = clock + ApprovalTTL
    BY <1>4, <2>2 DEF CreateRequest, TypeOK
  <2>. QED  BY <1>2, <2>2, <2>3
<1>. QED  BY <1>3, <1>4

(* The document of an envelope in order stays until the envelope expires,  *)
(* and an answer with it.                                                  *)
LEMMA AnsweredStays ==
    ASSUME TypeOK, RequestedInv, EnvelopeInv, [Next]_vars, NEW m \in Message,
           envelope[m] # NoEnvelope, Valid(envelope[m]), envelope[m].expires > clock',
           Answered(envelope[m])
    PROVE  Answered(envelope[m])'
<1>. DEFINE e == envelope[m]
            r == envelope[m].request
<1>1. Grows /\ clock \in Nat /\ clock' \in Nat /\ e \in EnvelopeType /\ envelope'[m] = e
  BY StepGrows DEF TypeOK, Grows
<1>2. /\ r \in Request /\ e.binding \in requested[r]
      /\ e.binding \in Nat /\ e.expires \in Nat
  BY <1>1 DEF EnvelopeInv, EnvelopeType
<1>3. e.binding > clock
  BY <1>1, <1>2 DEF Valid, Grows
<1>4. document[r].expires = e.binding /\ Resolved(r)
  BY <1>1, <1>2, <1>3 DEF RequestedInv, Answered
<1>5. ~Created(r) /\ ~Deleted(r)
  BY <1>1, <1>2, <1>3, <1>4 DEF Created, Deleted, Resolved
<1>6. ~\E w \in Worker : Stores(w) /\ EnvelopeOf(w).request = r
  BY <1>4, StoreEffect DEF Resolved
<1>7. document'[r] = document[r]
  BY <1>2, <1>5, <1>6, DocumentFrame
<1>. QED  BY <1>1, <1>7 DEF Answered, Resolved, Grows

(* A callback gives up an envelope that is in order only once the request  *)
(* has an answer.                                                          *)
LEMMA GivesUpAnswered ==
    ASSUME TypeOK, \A w \in Worker : WorkerInv(w), EnvelopeInv, LiveInv, NamedInv,
           RequestedInv, IssuedInv, NEW w \in Worker, pc[w] # "idle", GivesUp(w),
           Valid(EnvelopeOf(w)), EnvelopeOf(w).expires > clock
    PROVE  Answered(EnvelopeOf(w))
<1>. DEFINE e == EnvelopeOf(w)
<1>1. /\ e \in EnvelopeType /\ e.request \in Request /\ clock \in Nat
      /\ msg[w] \in Message /\ envelope[msg[w]] = e /\ e # NoEnvelope
  BY EnvelopeTyped, ApprovalAssumption DEF TypeOK, EnvelopeOf
<1>2. e.binding \in Nat /\ e.expires \in Nat /\ e.issued \in Nat
  BY <1>1 DEF EnvelopeType
<1>3. e.binding > clock /\ e.binding \in requested[e.request]
  BY <1>1, <1>2 DEF Valid, EnvelopeInv
<1>4. document[e.request].status # "absent" /\ document[e.request].expires = e.binding
  BY <1>1, <1>2, <1>3 DEF RequestedInv
<1>5. CASE Refuse(w)
  <2>1. InWindow(e) /\ e.signed
    BY <1>1, <1>2 DEF InWindow, Valid, IssuedInv
  <2>2. ~CheckFails(w)
    BY <1>1, <1>2, <1>3, <1>4, <2>1 DEF CheckFails, DocumentOf, Valid
  <2>. QED  BY <1>5, <2>2 DEF Refuse
<1>6. CASE CommitRefused(w)
  <2>1. Resolved(e.request)
    BY <1>1, <1>4, <1>6 DEF CommitRefused, DocumentOf, Resolved, TypeOK, DocumentType
  <2>. QED  BY <1>6, <2>1 DEF CommitRefused, ResolvedByThis, DocumentOf, Answered
<1>7. CASE Ack(w)
  <2>1. PICK d \in DecisionType : d = result[w] /\ d # NoDecision
    BY <1>7, ResultTyped DEF Ack, Reporting
  <2>2. /\ d \in published /\ d.request = e.request /\ d.approval = e.approval
        /\ Out(d) /\ Reviewed(d)
    BY <1>7, <2>1 DEF Ack, WorkerInv, Reporting, Out
  <2>3. PICK m \in Message : Grounds(d, m)
    BY <2>2 DEF Reviewed
  <2>4. d.binding = e.binding
    BY <1>1, <2>2, <2>3 DEF Grounds, NamedInv
  <2>5. document[e.request].resolution = d
    BY <1>3, <2>2, <2>4 DEF LiveInv
  <2>. QED  BY <1>1, <2>1, <2>2, <2>5 DEF Answered, TypeOK
<1>. QED  BY <1>5, <1>6, <1>7 DEF GivesUp

LEMMA NextKept ==
    ASSUME IInv, DeliveryInv, NamedInv, RequestedInv, IssuedInv, KeptInv, [Next]_vars
    PROVE  KeptInv'
<1>. USE DEF IInv
<1>1. Grows /\ TypeOK'
  BY StepGrows, NextTypeOK
<1> SUFFICES ASSUME NEW m \in Message, envelope'[m] # NoEnvelope, Valid(envelope'[m]),
                    envelope'[m].expires > clock'
             PROVE  Answered(envelope[m])' \/ Counted(m)'
  BY DEF KeptInv, Valid
<1>2. queue'[m] # "unsent"
  BY <1>1 DEF TypeOK
<1>3. CASE envelope[m] = NoEnvelope
  <2>1. queue[m] = "unsent" /\ ~\E w \in Flying(m) : GivesUp(w)
    BY <1>3, ApprovalAssumption DEF TypeOK, Flying
  <2>. QED  BY <1>2, <2>1, CountGoesOn
<1>4. CASE envelope[m] # NoEnvelope
  <2>1. envelope'[m] = envelope[m] /\ envelope[m] \in EnvelopeType
    BY <1>1, <1>4 DEF Grows, TypeOK
  <2>2. envelope[m].expires > clock
    BY <1>1, <2>1 DEF Grows, EnvelopeType, TypeOK
  <2>3. CASE Answered(envelope[m])
    BY <1>4, <2>1, <2>3, AnsweredStays
  <2>4. ASSUME Counted(m), ~\E w \in Flying(m) : GivesUp(w) PROVE Counted(m)'
    BY <1>2, <2>4, CountGoesOn
  <2>5. ASSUME NEW w \in Flying(m), GivesUp(w) PROVE Answered(envelope[m])'
    <3>1. w \in Worker /\ msg[w] = m /\ pc[w] # "idle" /\ EnvelopeOf(w) = envelope[m]
      BY ApprovalAssumption DEF Flying, TypeOK, EnvelopeOf
    <3>2. Answered(envelope[m])
      BY <2>1, <2>2, <2>5, <3>1, GivesUpAnswered
    <3>. QED  BY <1>4, <2>1, <3>2, AnsweredStays
  <2>. QED  BY <1>4, <2>1, <2>2, <2>3, <2>4, <2>5 DEF KeptInv
<1>. QED  BY <1>3, <1>4

(* A report is made, or its callback leaves a failure behind. *)
LEMMA ReportGoesOn ==
    ASSUME TypeOK, \A w \in Worker : WorkerInv(w), [Next]_vars,
           NEW d \in DecisionType, Reported(d)
    PROVE  Reported(d)'
<1>0. Grows /\ TypeOK'
  BY StepGrows, NextTypeOK
<1>1. ASSUME NEW m \in Message, Carries(m, d), failures[m] > 0 PROVE Reported(d)'
  <2>1. failures'[m] \in {failures[m], failures[m] + 1}
    BY StepCounting DEF Counting, Untouched, Sent, Buried, Delivered, Fails, Given
  <2>2. Carries(m, d)' /\ failures'[m] > 0
    BY <1>0, <1>1, <2>1 DEF Carries, Grows, TypeOK
  <2>. QED  BY <2>2 DEF Reported
<1>2. CASE d \in published
  BY <1>0, <1>2 DEF Grows, Reported, Out
<1>3. ASSUME NEW w \in Worker, pc[w] \in Reporting, result[w] = d PROVE Reported(d)'
  <2>1. /\ msg[w] \in Message /\ pc[w] # "idle" /\ Carries(msg[w], d)
        /\ pc[w] = "acking" => d \in published
    BY <1>3, EnvelopeTyped DEF TypeOK, WorkerInv, Carries, Reporting, EnvelopeOf
  <2>2. CASE pc'[w] \in Reporting /\ result'[w] = result[w]
    BY <1>3, <2>2 DEF Reported, Out
  <2>3. CASE WorkerStep(w) /\ CountFailure(w)
    <3>1. PICK m \in Message : m = msg[w]
      BY <2>1
    <3>2. failures'[m] > 0
      BY <2>3, <3>1 DEF CountFailure, TypeOK
    <3>3. Carries(m, d)'
      BY <1>0, <2>1, <3>1 DEF Carries, Grows
    <3>. QED  BY <3>2, <3>3 DEF Reported
  <2>4. CASE Ack(w)
    BY <1>2, <2>1, <2>4 DEF Ack
  <2>5. CASE WorkerStep(w)
    <3>1. CASE Report(w)
      BY <1>3, <2>2, <2>3, <2>4, <2>5, <3>1
         DEF Report, PublishAudit, AuditError, Publish, PublishError, Goto, TypeOK,
             Reporting
    <3>2. CASE Crash(w)
      BY <2>3, <2>5, <3>2 DEF Crash
    <3>. QED
      BY <1>3, <2>5, <3>1, <3>2
         DEF WorkerStep, Work, Check, Verify, ReadRequest, BuildDecision, Refuse,
             CheckFails, Commit, CommitFirst, CommitAgain, CommitRefused, CommitError,
             Deliver, Reporting
  <2>6. ASSUME NEW v \in Worker \ {w}, WorkerStep(v) PROVE Reported(d)'
    BY <1>3, <2>2, <2>6, StepFrame DEF Frame
  <2>7. CASE Environment \/ UNCHANGED vars
    BY <1>3, <2>2, <2>7, EnvironmentFrame
  <2>. QED  BY <2>5, <2>6, <2>7, NextSplit
<1>. QED  BY <1>1, <1>2, <1>3 DEF Reported, Out

LEMMA NextReported ==
    ASSUME IInv, ReportedInv, [Next]_vars
    PROVE  ReportedInv'
<1>. USE DEF IInv
<1>1. Grows /\ TypeOK'
  BY StepGrows, NextTypeOK
<1> SUFFICES ASSUME NEW r \in Request, Resolved(r)'
             PROVE  Reported(document[r].resolution)'
  BY DEF ReportedInv
<1>2. PICK d \in DecisionType : d = document'[r].resolution
  BY <1>1 DEF TypeOK, DocumentType
<1>3. CASE document'[r] = document[r]
  <2>1. Reported(d)
    BY <1>2, <1>3 DEF Resolved, ReportedInv
  <2>2. Reported(d)'
    BY <2>1, ReportGoesOn
  <2>. QED  BY <1>2, <2>2 DEF Reported, Out, Carries
<1>4. CASE Created(r) \/ Deleted(r)
  BY <1>4 DEF Created, Deleted, Resolved, Absent
<1>5. ASSUME NEW w \in Worker, WorkerStep(w), document'[r] # document[r]
      PROVE  Reported(document[r].resolution)'
  <2>1. Stores(w) /\ EnvelopeOf(w).request = r
    BY <1>5, StepFrame, StoreEffect DEF Frame
  <2>2. PICK m \in Message : m = msg[w]
    BY <2>1, EnvelopeTyped DEF Stores
  <2>3. d = result[w] /\ Grounds(d, m)
    BY <1>2, <2>1, <2>2, StoreEffect DEF Stores, WorkerInv
  <2>4. CASE CommitFirst(w)
    <3>1. pc'[w] \in Reporting /\ result'[w] = d
      BY <2>3, <2>4 DEF CommitFirst, Goto, Reporting, TypeOK
    <3>. QED  BY <1>2, <3>1 DEF Reported, Out
  <2>5. CASE CommitError(w)
    <3>1. failures'[m] > 0
      BY <2>2, <2>5 DEF CommitError, CountFailure, TypeOK
    <3>2. Carries(m, d)'
      BY <1>1, <2>3 DEF Grounds, Carries, Grows
    <3>. QED  BY <1>2, <3>1, <3>2 DEF Reported, Carries
  <2>6. CommitFirst(w) \/ CommitError(w)
    BY <1>5, <2>1 DEF Stores, WorkerStep, Work, Check, Verify, ReadRequest, BuildDecision,
          Refuse, CheckFails, Commit, CommitAgain, CommitRefused, Report, PublishAudit,
          AuditError, Publish, PublishError, Ack, Crash, Deliver, requestVars
  <2>. QED  BY <2>4, <2>5, <2>6
<1>6. CASE Environment \/ UNCHANGED vars
  BY <1>3, <1>4, <1>6, EnvironmentFrame
<1>. QED  BY <1>3, <1>5, <1>6, NextSplit

(* What the loss of a resolution follows from, when no reviewer's clock is *)
(* ahead by more than the agent allows.                                    *)
LossInv ==
    /\ IInv
    /\ DeliveryInv
    /\ NamedInv
    /\ IssuedInv
    /\ RequestedInv
    /\ KeptInv
    /\ ReportedInv

THEOREM LossInvariance ==
    ASSUME ReviewerSkew <= MaxSkew
    PROVE  Spec => []LossInv
<1>1. Init => LossInv
  <2> SUFFICES ASSUME Init PROVE LossInv
    OBVIOUS
  <2>1. \A m \in Message : Flying(m) = {}
    BY ApprovalAssumption DEF Init, Flying
  <2>2. DeliveryInv
    BY <2>1, FS_EmptySet DEF Init, DeliveryInv
  <2>3. NamedInv /\ IssuedInv /\ RequestedInv /\ KeptInv
    BY DEF Init, NamedInv, IssuedInv, RequestedInv, KeptInv
  <2>4. ReportedInv
    BY DEF Init, ReportedInv, Resolved, Absent
  <2>. QED  BY <2>2, <2>3, <2>4, InitIInv DEF LossInv
<1>2. LossInv /\ [Next]_vars => LossInv'
  <2> SUFFICES ASSUME LossInv, [Next]_vars PROVE LossInv'
    OBVIOUS
  <2>1. IInv' /\ TypeOK
    BY NextIInv DEF LossInv, IInv
  <2>. QED
    BY <2>1, NextDelivery, NextNamed, NextIssued, NextRequested, NextKept, NextReported
       DEF LossInv
<1>. QED  BY <1>1, <1>2, PTL DEF Spec

(* commit_resolution 206-237, process 248-256: a stored resolution whose   *)
(* envelope is out of circulation is on the topic, or a delivery failed    *)
(* and then the envelope or the request expired, or every delivery failed: *)
(* no callback gives up an envelope that is in order and still in force.   *)
THEOREM LostOnlyByExpiryHolds ==
    ASSUME ReviewerSkew <= MaxSkew
    PROVE  Spec => []LostOnlyByExpiry
<1>1. LossInv => LostOnlyByExpiry
  <2> SUFFICES ASSUME LossInv, NEW r \in Request, Resolved(r),
                      Settled(document[r].resolution.approval),
                      document[r].resolution \notin published
               PROVE  \E m \in Carrying(document[r].resolution.approval) :
                         /\ failures[m] > 0
                         /\ \/ envelope[m].expires <= clock
                            \/ document[r].expires <= clock
                            \/ failures[m] = MaxDeliveries
    BY DEF LostOnlyByExpiry
  <2>. USE DEF LossInv, IInv
  <2>1. PICK d \in DecisionType : d = document[r].resolution
    BY DEF TypeOK, DocumentType
  <2>2. ~Out(d)
    BY <2>1, EnvelopeTyped
       DEF Out, Settled, Carrying, WorkerInv, Reporting, TypeOK, EnvelopeOf
  <2>3. PICK m \in Message : Carries(m, d) /\ failures[m] > 0
    BY <2>1, <2>2 DEF ReportedInv, Reported
  <2>4. m \in Carrying(d.approval) /\ queue[m] # "pending"
    BY <2>1, <2>3 DEF Carries, Carrying, Settled
  <2>5. PICK n \in Message : Grounds(d, n)
    BY <2>1 DEF ResolutionInv, Reviewed
  <2>6. envelope[n] = envelope[m] /\ envelope[m] \in EnvelopeType
    BY <2>3, <2>5 DEF NamedInv, Grounds, Carries, TypeOK
  <2>7. ASSUME envelope[m].expires > clock, document[r].expires > clock
        PROVE  failures[m] = MaxDeliveries
    <3>1. ~Answered(envelope[m])
      BY <2>1, <2>5, <2>6 DEF Answered, Grounds, ResolutionInv
    <3>2. Counted(m)
      BY <2>3, <2>5, <2>6, <2>7, <3>1 DEF KeptInv, Carries, Grounds
    <3>3. attempts[m] = MaxDeliveries /\ Flying(m) = {}
      BY <2>4, <3>2 DEF Counted, DeliveryInv
    <3>. QED  BY <3>2, <3>3, FS_EmptySet DEF Counted, TypeOK
  <2>8. envelope[m].expires \in Nat /\ document[r].expires \in Nat /\ clock \in Nat
    BY <2>6 DEF EnvelopeType, TypeOK, DocumentType
  <2>. QED  BY <2>1, <2>3, <2>4, <2>7, <2>8
<1>. QED  BY <1>1, LossInvariance, PTL
=============================================================================
