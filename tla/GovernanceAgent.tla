---------------------------- MODULE GovernanceAgent ----------------------------
(***************************************************************************)
(* The governance agent, python/governance_agent.py, run by                *)
(* python/agent_runtime.py.  A worker has OPA evaluate an analysed         *)
(* incident (RemediationPolicy is that policy), builds the decision, and   *)
(* where the policy asks for approval stores an approval request in        *)
(* Firestore and publishes it; it then publishes an audit event and the    *)
(* decision.                                                               *)
(*                                                                         *)
(* The approval agent resolves stored requests, and Firestore's TTL        *)
(* deletes them at any time after they expire.                             *)
(***************************************************************************)
EXTENDS Integers, FiniteSets

CONSTANTS
    Analysis,       \* values of analysis_id
    Content,        \* recommended action and target, as far as a request binds them
    Message,        \* messages on analyzed-incidents
    NoMessage, NoRequest,
    Worker,         \* callbacks in flight (MAX_CONCURRENT_MESSAGES, all pods)
    Payloads,       \* what a message may carry, a subset of PayloadType
    ApprovalTTL,    \* APPROVAL_TTL_SECONDS
    MaxDeliveries,  \* max_delivery_attempts of the subscription
    MaxClock        \* bound on clock, for model checking

Verdict == {"PERMIT", "DENY", "REQUIRE_APPROVAL", "NO_ACTION"}

(* AnalyzedIncident with the decision OPA takes for it.  The IR analyst     *)
(* may publish two analyses of one incident revision, with one analysis_id. *)
PayloadType == [analysis : Analysis, content : Content, verdict : Verdict]

(* An approval request.  The decision id is a hash of the analysis id, the *)
(* policy and the verdict, and the request id a hash of the decision id,   *)
(* so there is one request id per analysis id.  request_hash is a hash of  *)
(* all three fields.                                                       *)
RequestType == [analysis : Analysis, content : Content, expires : Nat]

ASSUME GovernanceAssumption ==
    /\ NoMessage \notin Message
    /\ NoRequest \notin RequestType
    /\ Payloads \subseteq PayloadType
    /\ ApprovalTTL \in Nat
    /\ MaxDeliveries \in Nat
    /\ MaxClock \in Nat

VARIABLES
    clock,      \* utc_now() everywhere
    payload,    \* payload[m]: what message m carries
    document,   \* document[a]: the entry of approval_requests
    queue,      \* queue[m]: "pending", "acked" or "dead-lettered"
    attempts,   \* attempts[m]: deliveries of m so far
    pc,         \* pc[w]: where worker w is in process()
    msg,        \* msg[w]: the message it handles
    request,    \* request[w]: the approval request it has built
    requests,   \* requests on approval-requests
    audited,    \* decisions with an audit event on governance-audit
    published,  \* decisions on governance-decisions
    failures    \* history: failures[m], deliveries of m lost to a failure

queueVars  == <<payload, queue, attempts>>
workerVars == <<pc, msg, request>>
topicVars  == <<requests, audited, published>>
vars == <<clock, document, queueVars, workerVars, topicVars, failures>>

Location == { "idle", "received", "persisting", "asking",
              "auditing", "publishing", "acking" }

DocumentType ==
    [ status  : {"absent", "pending", "approved", "denied"},
      request : RequestType \cup {NoRequest} ]
Absent == [status |-> "absent", request |-> NoRequest]

TypeOK ==
    /\ clock \in Nat
    /\ payload \in [Message -> Payloads]
    /\ document \in [Analysis -> DocumentType]
    /\ queue \in [Message -> {"pending", "acked", "dead-lettered"}]
    /\ attempts \in [Message -> Nat]
    /\ pc \in [Worker -> Location]
    /\ msg \in [Worker -> Message \cup {NoMessage}]
    /\ request \in [Worker -> RequestType \cup {NoRequest}]
    /\ requests \in SUBSET RequestType
    /\ audited \in SUBSET PayloadType
    /\ published \in SUBSET PayloadType
    /\ failures \in [Message -> Nat]
    /\ \A a \in Analysis :
          /\ document[a].status = "absent" <=> document[a].request = NoRequest
          /\ document[a].request # NoRequest => document[a].request.analysis = a
    /\ \A w \in Worker :
          /\ pc[w] = "idle" <=> msg[w] = NoMessage
          /\ pc[w] \in {"persisting", "asking"} => request[w] # NoRequest

Init ==
    /\ clock = 0
    /\ payload \in [Message -> Payloads]
    /\ document = [a \in Analysis |-> Absent]
    /\ queue = [m \in Message |-> "pending"]
    /\ attempts = [m \in Message |-> 0]
    /\ pc = [w \in Worker |-> "idle"]
    /\ msg = [w \in Worker |-> NoMessage]
    /\ request = [w \in Worker |-> NoRequest]
    /\ requests = {}
    /\ audited = {}
    /\ published = {}
    /\ failures = [m \in Message |-> 0]

-----------------------------------------------------------------------------
(* Helpers *)

PayloadOf(w) == payload[msg[w]]
DocumentOf(w) == document[PayloadOf(w).analysis]

Goto(w, l) == pc' = [pc EXCEPT ![w] = l]

(* The callback returns or raises: w takes no further part. *)
Release(w) ==
    /\ pc' = [pc EXCEPT ![w] = "idle"]
    /\ msg' = [msg EXCEPT ![w] = NoMessage]
    /\ request' = [request EXCEPT ![w] = NoRequest]

(* An exception reaches AgentRuntime._callback: message.nack(). *)
Nack(w) == Release(w) /\ UNCHANGED queueVars

CountFailure(w) == failures' = [failures EXCEPT ![msg[w]] = @ + 1]

(* create_approval_request, at the present time. *)
NewRequest(w) ==
    [ analysis |-> PayloadOf(w).analysis, content |-> PayloadOf(w).content,
      expires  |-> clock + ApprovalTTL ]

SameHash(w) == DocumentOf(w).request = request[w]

-----------------------------------------------------------------------------
(* Time, the approval agent, Firestore's TTL and Pub/Sub *)

Tick ==
    /\ clock < MaxClock
    /\ clock' = clock + 1
    /\ UNCHANGED <<document, queueVars, workerVars, topicVars, failures>>

(* A reviewer has read a request and answers it.  Hash and expiry are      *)
(* checked before the transaction, which looks at the status alone: it may *)
(* come late, or meet a request that was made again under the same id.     *)
Resolve(a) ==
    /\ document[a].status = "pending"
    /\ \E q \in requests : q.analysis = a
    /\ \E s \in {"approved", "denied"} :
          document' = [document EXCEPT ![a].status = s]
    /\ UNCHANGED <<clock, queueVars, workerVars, topicVars, failures>>

ExpireDocument(a) ==
    /\ document[a].status # "absent"
    /\ document[a].request.expires <= clock
    /\ document' = [document EXCEPT ![a] = Absent]
    /\ UNCHANGED <<clock, queueVars, workerVars, topicVars, failures>>

(* At least once: a pending message may reach a second worker while the    *)
(* first still has it.                                                     *)
Deliver(w, m) ==
    /\ pc[w] = "idle"
    /\ queue[m] = "pending"
    /\ attempts[m] < MaxDeliveries
    /\ attempts' = [attempts EXCEPT ![m] = @ + 1]
    /\ msg' = [msg EXCEPT ![w] = m]
    /\ Goto(w, "received")
    /\ UNCHANGED <<clock, document, payload, queue, request, topicVars, failures>>

DeadLetter(m) ==
    /\ queue[m] = "pending"
    /\ attempts[m] = MaxDeliveries
    /\ \A w \in Worker : msg[w] # m
    /\ queue' = [queue EXCEPT ![m] = "dead-lettered"]
    /\ UNCHANGED <<clock, document, payload, attempts, workerVars, topicVars,
                   failures>>

-----------------------------------------------------------------------------
(* process(): the policy *)

(* OPA decides; only a decision that requires approval makes a request.    *)
Evaluate(w) ==
    /\ pc[w] = "received"
    /\ IF PayloadOf(w).verdict = "REQUIRE_APPROVAL"
       THEN request' = [request EXCEPT ![w] = NewRequest(w)] /\ Goto(w, "persisting")
       ELSE Goto(w, "auditing") /\ UNCHANGED request
    /\ UNCHANGED <<clock, document, queueVars, msg, topicVars, failures>>

(* OPA does not answer, or not with a decision. *)
EvaluateError(w) ==
    /\ pc[w] = "received"
    /\ Nack(w)
    /\ CountFailure(w)
    /\ UNCHANGED <<clock, document, topicVars>>

-----------------------------------------------------------------------------
(* persist_approval_request *)

(* The write of the transaction. *)
StoreRequest(w) ==
    document' = [document EXCEPT ![PayloadOf(w).analysis] =
                   [status |-> "pending", request |-> request[w]]]

(* Mistake: the document is written whatever is there. *)
PersistCreatedOver(w) ==
    /\ pc[w] = "persisting"
    /\ StoreRequest(w)
    /\ Goto(w, "asking")
    /\ UNCHANGED <<clock, queueVars, msg, request, topicVars, failures>>

PersistCreated(w) ==
    /\ pc[w] = "persisting"
    /\ DocumentOf(w).status = "absent"
    /\ StoreRequest(w)
    /\ Goto(w, "asking")
    /\ UNCHANGED <<clock, queueVars, msg, request, topicVars, failures>>

(* Mistake: any pending request under this id is taken for the same one. *)
PersistFoundAny(w) ==
    /\ pc[w] = "persisting"
    /\ DocumentOf(w).status # "absent"
    /\ IF DocumentOf(w).status = "pending" THEN Goto(w, "asking")
                                           ELSE Goto(w, "auditing")
    /\ UNCHANGED <<clock, document, queueVars, msg, request, topicVars, failures>>

(* The same request is there already; it is published again while it is    *)
(* pending.                                                                *)
PersistFound(w) ==
    /\ pc[w] = "persisting"
    /\ DocumentOf(w).status # "absent"
    /\ SameHash(w)
    /\ IF DocumentOf(w).status = "pending" THEN Goto(w, "asking")
                                           ELSE Goto(w, "auditing")
    /\ UNCHANGED <<clock, document, queueVars, msg, request, topicVars, failures>>

(* "approval request ID collision detected" *)
PersistCollision(w) ==
    /\ pc[w] = "persisting"
    /\ DocumentOf(w).status # "absent"
    /\ ~SameHash(w)
    /\ Nack(w)
    /\ UNCHANGED <<clock, document, topicVars, failures>>

(* Mistake: an error of the transaction does not keep the request from     *)
(* being published.                                                        *)
PersistErrorIgnored(w) ==
    /\ pc[w] = "persisting"
    /\ Goto(w, "asking")
    /\ UNCHANGED <<clock, document, queueVars, msg, request, topicVars, failures>>

(* The transaction raises; its commit may have reached Firestore. *)
PersistError(w) ==
    /\ pc[w] = "persisting"
    /\ \/ UNCHANGED document
       \/ DocumentOf(w).status = "absent" /\ StoreRequest(w)
    /\ Nack(w)
    /\ CountFailure(w)
    /\ UNCHANGED <<clock, topicVars>>

-----------------------------------------------------------------------------
(* The request, the audit event and the decision, in this order *)

PublishRequest(w) ==
    /\ pc[w] = "asking"
    /\ requests' = requests \cup {request[w]}
    /\ Goto(w, "auditing")
    /\ UNCHANGED <<clock, document, queueVars, msg, request, audited, published,
                   failures>>

(* Mistake: a request that cannot be published does not stop the decision. *)
RequestErrorSwallowed(w) ==
    /\ pc[w] = "asking"
    /\ Goto(w, "auditing")
    /\ UNCHANGED <<clock, document, queueVars, msg, request, topicVars, failures>>

RequestError(w) ==
    /\ pc[w] = "asking"
    /\ \/ requests' = requests \cup {request[w]}
       \/ UNCHANGED requests
    /\ Nack(w)
    /\ CountFailure(w)
    /\ UNCHANGED <<clock, document, audited, published>>

PublishAudit(w) ==
    /\ pc[w] = "auditing"
    /\ audited' = audited \cup {PayloadOf(w)}
    /\ Goto(w, "publishing")
    /\ UNCHANGED <<clock, document, queueVars, msg, request, requests, published,
                   failures>>

AuditError(w) ==
    /\ pc[w] = "auditing"
    /\ \/ audited' = audited \cup {PayloadOf(w)}
       \/ UNCHANGED audited
    /\ Nack(w)
    /\ CountFailure(w)
    /\ UNCHANGED <<clock, document, requests, published>>

Publish(w) ==
    /\ pc[w] = "publishing"
    /\ published' = published \cup {PayloadOf(w)}
    /\ Goto(w, "acking")
    /\ UNCHANGED <<clock, document, queueVars, msg, request, requests, audited,
                   failures>>

PublishError(w) ==
    /\ pc[w] = "publishing"
    /\ \/ published' = published \cup {PayloadOf(w)}
       \/ UNCHANGED published
    /\ Nack(w)
    /\ CountFailure(w)
    /\ UNCHANGED <<clock, document, requests, audited>>

Ack(w) ==
    /\ pc[w] = "acking"
    /\ queue' = [queue EXCEPT ![msg[w]] = IF @ = "pending" THEN "acked" ELSE @]
    /\ Release(w)
    /\ UNCHANGED <<clock, document, payload, attempts, topicVars, failures>>

(* The process dies at any point of the callback. *)
Crash(w) ==
    /\ pc[w] # "idle"
    /\ Nack(w)
    /\ CountFailure(w)
    /\ UNCHANGED <<clock, document, topicVars>>

-----------------------------------------------------------------------------
Decide(w) == Evaluate(w) \/ EvaluateError(w)

Persist(w) ==
    \/ PersistCreated(w) \/ PersistFound(w) \/ PersistCollision(w)
    \/ PersistError(w)

Report(w) ==
    \/ PublishRequest(w) \/ RequestError(w) \/ PublishAudit(w) \/ AuditError(w)
    \/ Publish(w) \/ PublishError(w) \/ Ack(w)

(* What the thread of a callback does. *)
Work(w) == Decide(w) \/ Persist(w) \/ Report(w)

Next ==
    \/ Tick
    \/ \E a \in Analysis : Resolve(a) \/ ExpireDocument(a)
    \/ \E m \in Message : DeadLetter(m)
    \/ \E w \in Worker : Work(w) \/ Crash(w) \/ \E m \in Message : Deliver(w, m)

Spec == Init /\ [][Next]_vars

-----------------------------------------------------------------------------
(* Properties *)

(* persist_approval_request 181-202: a reviewer who answers a request in   *)
(* time answers the one that is stored.  No request is on the topic before *)
(* it is in Firestore, and none is replaced or withdrawn while it can      *)
(* still be answered, whatever duplicates, retries and other analyses      *)
(* under the same id do.                                                   *)
LiveRequestIsStored ==
    \A q \in requests : q.expires > clock =>
        document[q.analysis].request = q

(* process 325-330: a decision follows its audit event, and when it        *)
(* requires approval both follow the publication of a request.             *)
EvidenceFirst ==
    /\ published \subseteq audited
    /\ \A p \in audited : p.verdict = "REQUIRE_APPROVAL" =>
          \E q \in requests : q.analysis = p.analysis

(* agent_runtime 166-167: an incident is acknowledged only after its       *)
(* decision was published.                                                 *)
AckedIsDecided ==
    \A m \in Message : queue[m] = "acked" => payload[m] \in published

(* persist_approval_request 182-186: once a reviewer has resolved a        *)
(* request no retry reopens it; it goes when it has expired.               *)
ResolvedIsNotReopened ==
    [][ \A a \in Analysis : document[a].status \in {"approved", "denied"} =>
          \/ document'[a] = document[a]
          \/ document'[a] = Absent /\ document[a].request.expires <= clock ]_vars

(* docs/concepts/deterministic-governance.md 71-75 says that incidents     *)
(* requiring approval are published to approval-requests: an incident that *)
(* met one failure at most should not end without its request.             *)
RequiredApprovalIsRequested ==
    \A m \in Message :
        /\ queue[m] = "dead-lettered"
        /\ payload[m].verdict = "REQUIRE_APPROVAL"
        /\ failures[m] <= 1
        => \E q \in requests : q.analysis = payload[m].analysis
=============================================================================
