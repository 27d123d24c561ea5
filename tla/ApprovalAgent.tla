----------------------------- MODULE ApprovalAgent -----------------------------
(***************************************************************************)
(* The approval agent, python/approval_agent.py, run by                    *)
(* python/agent_runtime.py.  Reviewers answer approval requests with       *)
(* signed envelopes (scripts/11-review-approval.sh).  A worker checks an   *)
(* envelope's time window and signature, checks it against the Firestore   *)
(* document of the request, builds the resolved decision, stores it in a   *)
(* transaction, and publishes an audit event and then the decision.        *)
(*                                                                         *)
(* The request documents are created by the governance agent and deleted   *)
(* by Firestore's TTL (terraform/23-firestore-ttl.tf) at any time after    *)
(* they expire.                                                            *)
(***************************************************************************)
EXTENDS Integers, FiniteSets

CONSTANTS
    Request,        \* values of approval_request_id
    Message,        \* messages on approval-decisions
    Worker,         \* callbacks in flight (MAX_CONCURRENT_MESSAGES, all pods)
    NoMessage, NoEnvelope, NoDecision,
    Signature,      \* verdicts of verify_signature, a subset of BOOLEAN
    ApprovalTTL,    \* APPROVAL_TTL_SECONDS of the governance agent
    EnvelopeTTL,    \* APPROVAL_TTL_SECONDS of the review script
    ReviewerSkew,   \* how far a reviewer's clock may be ahead
    MaxSkew,        \* MAX_CLOCK_SKEW_SECONDS
    PermitTTL,      \* PERMIT_TTL_SECONDS
    MaxDeliveries,  \* max_delivery_attempts of the subscription
    MaxClock        \* bound on clock, for model checking

(* ApprovalDecisionEnvelope.  The request hash commits to the expiry of    *)
(* the request, which tells the successive documents of one request id     *)
(* apart, so binding stands for request_hash.  approval_id is a fresh UUID *)
(* for each envelope a reviewer signs: the message that first carries it.  *)
(* signed folds the checks that look at the envelope alone: KMS key        *)
(* version, signature, reviewer and reason.                                *)
EnvelopeType ==
    [ approval : Message,
      request  : Request,
      binding  : Nat,
      decision : {"APPROVE", "DENY"},
      issued   : Nat,
      expires  : Nat,
      signed   : BOOLEAN ]

(* The resolved GovernanceDecision; binding and approval say which         *)
(* envelope it was made from.                                              *)
DecisionType ==
    [ approval : Message,
      request  : Request,
      binding  : Nat,
      value    : {"PERMIT", "DENY"},
      expires  : Nat ]

ASSUME ApprovalAssumption ==
    /\ NoMessage \notin Message
    /\ NoEnvelope \notin EnvelopeType
    /\ NoDecision \notin DecisionType
    /\ Signature \subseteq BOOLEAN
    /\ ApprovalTTL \in Nat
    /\ EnvelopeTTL \in Nat
    /\ ReviewerSkew \in Nat
    /\ MaxSkew \in Nat
    /\ PermitTTL \in Nat
    /\ MaxDeliveries \in Nat
    /\ MaxClock \in Nat

VARIABLES
    clock,      \* utc_now() everywhere
    document,   \* document[r]: the entry of approval_requests
    requested,  \* requested[r]: expiries of the requests published so far
    envelope,   \* envelope[m]: what message m carries
    queue,      \* queue[m]: "unsent", "pending", "acked", "dead-lettered"
    attempts,   \* attempts[m]: deliveries of m so far
    pc,         \* pc[w]: where worker w is in process()
    msg,        \* msg[w]: the message it handles
    result,     \* result[w]: the decision it has built or read back
    audited,    \* approval ids with an audit event on governance-audit
    published,  \* resolved decisions on governance-decisions
    failures    \* history: failures[m], deliveries of m lost to a failure

requestVars == <<document, requested>>
queueVars   == <<envelope, queue, attempts>>
workerVars  == <<pc, msg, result>>
topicVars   == <<audited, published>>
vars == <<clock, requestVars, queueVars, workerVars, topicVars, failures>>

Location == { "idle", "received", "verified", "read", "built",
              "auditing", "publishing", "acking" }
(* Where a worker holds the decision that is in the document. *)
Reporting == {"auditing", "publishing", "acking"}

DocumentType ==
    [ status     : {"absent", "pending", "approved", "denied"},
      expires    : Nat,
      resolution : DecisionType \cup {NoDecision} ]
Absent == [status |-> "absent", expires |-> 0, resolution |-> NoDecision]
Resolved(r) == document[r].status \in {"approved", "denied"}

TypeOK ==
    /\ clock \in Nat
    /\ document \in [Request -> DocumentType]
    /\ requested \in [Request -> SUBSET Nat]
    /\ envelope \in [Message -> EnvelopeType \cup {NoEnvelope}]
    /\ queue \in [Message -> {"unsent", "pending", "acked", "dead-lettered"}]
    /\ attempts \in [Message -> Nat]
    /\ pc \in [Worker -> Location]
    /\ msg \in [Worker -> Message \cup {NoMessage}]
    /\ result \in [Worker -> DecisionType \cup {NoDecision}]
    /\ audited \in SUBSET Message
    /\ published \in SUBSET DecisionType
    /\ failures \in [Message -> Nat]
    /\ \A r \in Request :
          document[r].resolution # NoDecision <=> Resolved(r)
    /\ \A m \in Message : queue[m] = "unsent" <=> envelope[m] = NoEnvelope
    /\ \A w \in Worker :
          /\ pc[w] = "idle" <=> msg[w] = NoMessage
          /\ pc[w] # "idle" => envelope[msg[w]] # NoEnvelope
          /\ result[w] # NoDecision <=> pc[w] \in Reporting \cup {"built"}

Init ==
    /\ clock = 0
    /\ document = [r \in Request |-> Absent]
    /\ requested = [r \in Request |-> {}]
    /\ envelope = [m \in Message |-> NoEnvelope]
    /\ queue = [m \in Message |-> "unsent"]
    /\ attempts = [m \in Message |-> 0]
    /\ pc = [w \in Worker |-> "idle"]
    /\ msg = [w \in Worker |-> NoMessage]
    /\ result = [w \in Worker |-> NoDecision]
    /\ audited = {}
    /\ published = {}
    /\ failures = [m \in Message |-> 0]

-----------------------------------------------------------------------------
(* Helpers *)

EnvelopeOf(w) == envelope[msg[w]]
DocumentOf(w) == document[EnvelopeOf(w).request]

Earlier(s, t) == IF s <= t THEN s ELSE t

Goto(w, l) == pc' = [pc EXCEPT ![w] = l]

(* Mistake: the worker keeps the decision of the message it has given back. *)
ReleaseKeepsResult(w) ==
    /\ pc' = [pc EXCEPT ![w] = "idle"]
    /\ msg' = [msg EXCEPT ![w] = NoMessage]
    /\ UNCHANGED result

(* The callback returns or raises: w takes no further part. *)
Release(w) ==
    /\ pc' = [pc EXCEPT ![w] = "idle"]
    /\ msg' = [msg EXCEPT ![w] = NoMessage]
    /\ result' = [result EXCEPT ![w] = NoDecision]

CountFailure(w) == failures' = [failures EXCEPT ![msg[w]] = @ + 1]

(* An exception reaches AgentRuntime._callback: message.nack(). *)
Nack(w) == Release(w) /\ UNCHANGED queueVars

(* validate_time_window. *)
InWindow(e) ==
    /\ e.issued <= clock + MaxSkew
    /\ e.expires > clock
    /\ e.expires > e.issued

(* Mistake: the permit may outlast the envelope. *)
ResolvedDecisionUncapped(e) ==
    [ approval |-> e.approval, request |-> e.request, binding |-> e.binding,
      value    |-> IF e.decision = "APPROVE" THEN "PERMIT" ELSE "DENY",
      expires  |-> clock + PermitTTL ]

(* resolved_decision: the permit ends with the envelope or after PermitTTL. *)
ResolvedDecision(e) ==
    [ approval |-> e.approval, request |-> e.request, binding |-> e.binding,
      value    |-> IF e.decision = "APPROVE" THEN "PERMIT" ELSE "DENY",
      expires  |-> Earlier(e.expires, clock + PermitTTL) ]

-----------------------------------------------------------------------------
(* Time, the governance agent, Firestore's TTL and the reviewers *)

Tick ==
    /\ clock < MaxClock
    /\ clock' = clock + 1
    /\ UNCHANGED <<requestVars, queueVars, workerVars, topicVars, failures>>

(* The governance agent writes the document and publishes the request. *)
CreateRequest(r) ==
    /\ document[r].status = "absent"
    /\ document' = [document EXCEPT ![r] =
                      [status     |-> "pending",
                       expires    |-> clock + ApprovalTTL,
                       resolution |-> NoDecision]]
    /\ requested' = [requested EXCEPT ![r] = @ \cup {clock + ApprovalTTL}]
    /\ UNCHANGED <<clock, queueVars, workerVars, topicVars, failures>>

ExpireDocument(r) ==
    /\ document[r].status # "absent"
    /\ document[r].expires <= clock
    /\ document' = [document EXCEPT ![r] = Absent]
    /\ UNCHANGED <<clock, requested, queueVars, workerVars, topicVars, failures>>

(* A reviewer answers a request.  The script caps the envelope's expiry at *)
(* the request's; another tool may not.                                    *)
Review(m) ==
    /\ queue[m] = "unsent"
    /\ \E r \in Request : \E b \in requested[r] :
       \E t \in clock .. clock + ReviewerSkew :
       \E x \in {t + EnvelopeTTL, Earlier(b, t + EnvelopeTTL)} :
       \E choice \in {"APPROVE", "DENY"} : \E s \in Signature :
          envelope' = [envelope EXCEPT ![m] =
                         [approval |-> m, request |-> r, binding |-> b,
                          decision |-> choice, issued |-> t,
                          expires |-> x, signed |-> s]]
    /\ queue' = [queue EXCEPT ![m] = "pending"]
    /\ UNCHANGED <<clock, requestVars, attempts, workerVars, topicVars,
                   failures>>

(* The same envelope is published once more. *)
Republish(m) ==
    /\ queue[m] = "unsent"
    /\ \E n \in Message :
          /\ queue[n] # "unsent"
          /\ envelope' = [envelope EXCEPT ![m] = envelope[n]]
    /\ queue' = [queue EXCEPT ![m] = "pending"]
    /\ UNCHANGED <<clock, requestVars, attempts, workerVars, topicVars, failures>>

-----------------------------------------------------------------------------
(* Pub/Sub *)

(* At least once: a pending message may reach a second worker while the    *)
(* first still has it.                                                     *)
Deliver(w, m) ==
    /\ pc[w] = "idle"
    /\ queue[m] = "pending"
    /\ attempts[m] < MaxDeliveries
    /\ attempts' = [attempts EXCEPT ![m] = @ + 1]
    /\ msg' = [msg EXCEPT ![w] = m]
    /\ Goto(w, "received")
    /\ UNCHANGED <<clock, requestVars, envelope, queue, result, topicVars, failures>>

DeadLetter(m) ==
    /\ queue[m] = "pending"
    /\ attempts[m] = MaxDeliveries
    /\ \A w \in Worker : msg[w] # m
    /\ queue' = [queue EXCEPT ![m] = "dead-lettered"]
    /\ UNCHANGED <<clock, requestVars, envelope, attempts, workerVars, topicVars,
                   failures>>

-----------------------------------------------------------------------------
(* process(): the checks before the transaction *)

(* Mistake: the signature is not looked at. *)
VerifyWindowOnly(w) ==
    /\ pc[w] = "received"
    /\ InWindow(EnvelopeOf(w))
    /\ Goto(w, "verified")
    /\ UNCHANGED <<clock, requestVars, queueVars, msg, result, topicVars, failures>>

(* validate_time_window and verify_signature pass. *)
Verify(w) ==
    /\ pc[w] = "received"
    /\ InWindow(EnvelopeOf(w))
    /\ EnvelopeOf(w).signed
    /\ Goto(w, "verified")
    /\ UNCHANGED <<clock, requestVars, queueVars, msg, result, topicVars, failures>>

(* resolve_approval reads the document outside its transaction: it exists  *)
(* and has the envelope's request hash, hence the expiry that is bound.    *)
ReadRequest(w) ==
    /\ pc[w] = "verified"
    /\ DocumentOf(w).status # "absent"
    /\ DocumentOf(w).expires = EnvelopeOf(w).binding
    /\ Goto(w, "read")
    /\ UNCHANGED <<clock, requestVars, queueVars, msg, result, topicVars, failures>>

(* The request has not expired, the envelope ends with it or earlier, and  *)
(* the decision is built.                                                  *)
BuildDecision(w) ==
    /\ pc[w] = "read"
    /\ EnvelopeOf(w).binding > clock
    /\ EnvelopeOf(w).expires <= EnvelopeOf(w).binding
    /\ result' = [result EXCEPT ![w] = ResolvedDecision(EnvelopeOf(w))]
    /\ Goto(w, "built")
    /\ UNCHANGED <<clock, requestVars, queueVars, msg, topicVars, failures>>

(* One of the checks fails. *)
CheckFails(w) ==
    /\ \/ pc[w] = "received" /\ ~(InWindow(EnvelopeOf(w)) /\ EnvelopeOf(w).signed)
       \/ /\ pc[w] = "verified"
          /\ \/ DocumentOf(w).status = "absent"
             \/ DocumentOf(w).expires # EnvelopeOf(w).binding
       \/ /\ pc[w] = "read"
          /\ \/ EnvelopeOf(w).binding <= clock
             \/ EnvelopeOf(w).expires > EnvelopeOf(w).binding

Refuse(w) ==
    /\ CheckFails(w)
    /\ Nack(w)
    /\ UNCHANGED <<clock, requestVars, topicVars, failures>>

-----------------------------------------------------------------------------
(* commit_resolution *)

(* The write of the transaction. *)
StoreResolution(w) ==
    document' = [document EXCEPT ![EnvelopeOf(w).request] =
                   [status     |-> IF EnvelopeOf(w).decision = "APPROVE"
                                   THEN "approved" ELSE "denied",
                    expires    |-> @.expires,
                    resolution |-> result[w]]]

ResolvedByThis(w) ==
    /\ Resolved(EnvelopeOf(w).request)
    /\ DocumentOf(w).resolution.approval = EnvelopeOf(w).approval

CommitFirst(w) ==
    /\ pc[w] = "built"
    /\ DocumentOf(w).status = "pending"
    /\ StoreResolution(w)
    /\ Goto(w, "auditing")
    /\ UNCHANGED <<clock, requested, queueVars, msg, result, topicVars, failures>>

(* Mistake: the decision just built is reported instead of the stored one. *)
CommitAgainRebuilt(w) ==
    /\ pc[w] = "built"
    /\ ResolvedByThis(w)
    /\ Goto(w, "auditing")
    /\ UNCHANGED <<clock, requestVars, queueVars, msg, result, topicVars, failures>>

(* The request was resolved by this very envelope: its decision is read    *)
(* back.                                                                   *)
CommitAgain(w) ==
    /\ pc[w] = "built"
    /\ ResolvedByThis(w)
    /\ result' = [result EXCEPT ![w] = DocumentOf(w).resolution]
    /\ Goto(w, "auditing")
    /\ UNCHANGED <<clock, requestVars, queueVars, msg, topicVars, failures>>

(* The request has gone or was resolved by another envelope. *)
CommitRefused(w) ==
    /\ pc[w] = "built"
    /\ DocumentOf(w).status # "pending"
    /\ ~ResolvedByThis(w)
    /\ Nack(w)
    /\ UNCHANGED <<clock, requestVars, topicVars, failures>>

(* The transaction raises; its commit may have reached Firestore. *)
CommitError(w) ==
    /\ pc[w] = "built"
    /\ \/ UNCHANGED document
       \/ DocumentOf(w).status = "pending" /\ StoreResolution(w)
    /\ Nack(w)
    /\ CountFailure(w)
    /\ UNCHANGED <<clock, requested, topicVars>>

-----------------------------------------------------------------------------
(* The audit event, then the decision, then the acknowledgement *)

PublishAudit(w) ==
    /\ pc[w] = "auditing"
    /\ audited' = audited \cup {EnvelopeOf(w).approval}
    /\ Goto(w, "publishing")
    /\ UNCHANGED <<clock, requestVars, queueVars, msg, result, published, failures>>

AuditError(w) ==
    /\ pc[w] = "auditing"
    /\ \/ audited' = audited \cup {EnvelopeOf(w).approval}
       \/ UNCHANGED audited
    /\ Nack(w)
    /\ CountFailure(w)
    /\ UNCHANGED <<clock, requestVars, published>>

Publish(w) ==
    /\ pc[w] = "publishing"
    /\ published' = published \cup {result[w]}
    /\ Goto(w, "acking")
    /\ UNCHANGED <<clock, requestVars, queueVars, msg, result, audited, failures>>

(* Mistake: a failed publish is swallowed and the message acknowledged. *)
PublishErrorSwallowed(w) ==
    /\ pc[w] = "publishing"
    /\ Goto(w, "acking")
    /\ UNCHANGED <<clock, requestVars, queueVars, msg, result, topicVars, failures>>

PublishError(w) ==
    /\ pc[w] = "publishing"
    /\ \/ published' = published \cup {result[w]}
       \/ UNCHANGED published
    /\ Nack(w)
    /\ CountFailure(w)
    /\ UNCHANGED <<clock, requestVars, audited>>

Ack(w) ==
    /\ pc[w] = "acking"
    /\ queue' = [queue EXCEPT ![msg[w]] = IF @ = "pending" THEN "acked" ELSE @]
    /\ Release(w)
    /\ UNCHANGED <<clock, requestVars, envelope, attempts, topicVars, failures>>

(* The process dies at any point of the callback. *)
Crash(w) ==
    /\ pc[w] # "idle"
    /\ Nack(w)
    /\ CountFailure(w)
    /\ UNCHANGED <<clock, requestVars, topicVars>>

-----------------------------------------------------------------------------
Check(w) == Verify(w) \/ ReadRequest(w) \/ BuildDecision(w) \/ Refuse(w)

Commit(w) ==
    CommitFirst(w) \/ CommitAgain(w) \/ CommitRefused(w) \/ CommitError(w)

Report(w) ==
    \/ PublishAudit(w) \/ AuditError(w)
    \/ Publish(w) \/ PublishError(w) \/ Ack(w)

(* What the thread of a callback does. *)
Work(w) == Check(w) \/ Commit(w) \/ Report(w)

Next ==
    \/ Tick
    \/ \E r \in Request : CreateRequest(r) \/ ExpireDocument(r)
    \/ \E m \in Message : Review(m) \/ Republish(m) \/ DeadLetter(m)
    \/ \E w \in Worker : Work(w) \/ Crash(w) \/ \E m \in Message : Deliver(w, m)

Spec == Init /\ [][Next]_vars

-----------------------------------------------------------------------------
(* Properties *)

(* commit_resolution 206-237: at most one authorisation is in force for a  *)
(* request.  Whatever envelopes reviewers send, however often they are     *)
(* redelivered, and although a request may come back under the same id,    *)
(* two unexpired decisions published for it are one and the same.          *)
LiveDecisionsAgree ==
    \A x, y \in published :
        x.request = y.request /\ x.expires > clock /\ y.expires > clock => x = y

(* process 248-251: a decision is published only on the strength of a      *)
(* verified envelope for a request that was made, with the reviewer's      *)
(* choice, does not outlast the envelope or the request, and follows its   *)
(* audit event.                                                            *)
DecisionIsReviewed ==
    \A x \in published : \E m \in Message :
        /\ envelope[m] # NoEnvelope
        /\ envelope[m].approval = x.approval
        /\ envelope[m].signed
        /\ envelope[m].request = x.request
        /\ envelope[m].binding \in requested[x.request]
        /\ envelope[m].decision = "APPROVE" <=> x.value = "PERMIT"
        /\ x.expires <= envelope[m].expires
        /\ x.expires <= envelope[m].binding
        /\ x.approval \in audited

(* resolve_approval 182-223: the hash and the expiry are checked before the *)
(* transaction, which checks the status alone, so a late worker may store  *)
(* its decision in a newer document of the same id.  Such a decision has   *)
(* expired already.                                                        *)
StaleResolutionHasExpired ==
    \A r \in Request :
        Resolved(r) /\ document[r].resolution.binding # document[r].expires
            => document[r].resolution.expires <= clock

(* The messages that carry the envelope of approval a, all of them done.   *)
Carrying(a) ==
    {m \in Message : envelope[m] # NoEnvelope /\ envelope[m].approval = a}
Settled(a) ==
    /\ \A m \in Carrying(a) : queue[m] # "pending"
    /\ \A w \in Worker : pc[w] # "idle" => msg[w] \notin Carrying(a)

(* A stored resolution whose envelope is out of circulation was published, *)
(* unless a delivery failed and the envelope or the request then expired,  *)
(* or every delivery failed.  (For reviewers whose clocks are not ahead.)  *)
LostOnlyByExpiry ==
    \A r \in Request :
        Resolved(r) /\ Settled(document[r].resolution.approval) =>
            \/ document[r].resolution \in published
            \/ \E m \in Carrying(document[r].resolution.approval) :
                  /\ failures[m] > 0
                  /\ \/ envelope[m].expires <= clock
                     \/ document[r].expires <= clock
                     \/ failures[m] = MaxDeliveries
=============================================================================
