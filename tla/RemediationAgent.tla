---------------------------- MODULE RemediationAgent ----------------------------
(***************************************************************************)
(* The remediation executor, python/remediation_agent.py, run by           *)
(* python/agent_runtime.py.  Governance decisions arrive on a Pub/Sub      *)
(* subscription (at least once, dead-lettered after MaxDeliveries          *)
(* attempts); a worker is one callback in flight.  A worker validates the  *)
(* decision, claims its entry of the Firestore execution ledger under a    *)
(* lease, calls the MCP gateway to restart the deployment, writes the      *)
(* outcome to the ledger, publishes it, and acknowledges the message.      *)
(*                                                                         *)
(* Any step can be delayed, workers crash, Firestore writes and publishes  *)
(* fail with or without effect, and a gateway call that times out may still *)
(* restart the deployment, then or later.                                  *)
(***************************************************************************)
EXTENDS Integers, FiniteSets

CONSTANTS
    Message,        \* messages published on governance-decisions
    NoMessage,      \* the message of an idle worker
    Worker,         \* callbacks in flight (MAX_CONCURRENT_MESSAGES, all pods)
    DecisionId,     \* values of governance_decision_id
    Events,         \* the payloads a message may carry, a subset of EventType
    ExecutionMode,  \* EXECUTION_MODE
    Lease,          \* EXECUTION_LEASE_SECONDS, in ticks of clock
    MaxDeliveries,  \* max_delivery_attempts of the subscription
    MaxClock        \* bound on clock, for model checking

DecisionValue == {"PERMIT", "DENY", "REQUIRE_APPROVAL", "NO_ACTION"}
DecisionSource == {"dgc-opa", "kms-human-approval"}

(* GovernanceDecision, with the checks of validate_governance_decision      *)
(* that look at one attribute only folded into a Boolean:                  *)
(*   policyTrusted    - policy id allowlisted and policy SHA-256 the local one *)
(*   policyApproved   - embedded policy says PERMIT and approved           *)
(*   targetAllowed    - restart_deployment of an allowlisted target        *)
(*   approvalComplete - approved, verified signature, reviewer, key version *)
EventType ==
    [ id               : DecisionId,
      decision         : DecisionValue,
      source           : DecisionSource,
      policyTrusted    : BOOLEAN,
      policyApproved   : BOOLEAN,
      targetAllowed    : BOOLEAN,
      approvalRequired : BOOLEAN,
      approvalComplete : BOOLEAN,
      expires          : Nat ]

ASSUME RemediationAssumption ==
    /\ NoMessage \notin Message
    /\ Events \subseteq EventType
    /\ Lease \in Nat
    /\ MaxDeliveries \in Nat
    /\ MaxClock \in Nat

(* The "status" of a remediation result. *)
Outcome == { "executed", "rejected-by-gateway", "execution-blocked",
             "denied-by-governance", "no-action", "awaiting-human-approval" }
NoOutcome == "none"

VARIABLES
    clock,      \* utc_now() everywhere
    event,      \* event[m]: the payload of message m
    queue,      \* queue[m]: "pending", "acked" or "dead-lettered"
    attempts,   \* attempts[m]: deliveries of m so far
    pc,         \* pc[w]: where worker w is in process()
    msg,        \* msg[w]: the message it handles
    leaseFrom,  \* leaseFrom[w]: the "now" its claim has read
    out,        \* out[w]: the outcome it is about to store or publish
    ledger,     \* ledger[d]: the document of remediation_executions
    restarts,   \* restarts[d]: rollouts of the deployment on behalf of d
    late,       \* late[d]: abandoned gateway calls that may still take effect
    published,  \* published[d]: outcomes on remediation-results
    faults      \* faults[d]: history, what has gone wrong in executing d

queueVars  == <<event, queue, attempts>>
workerVars == <<pc, msg, leaseFrom, out>>
effectVars == <<restarts, late>>
vars == <<clock, queueVars, workerVars, ledger, effectVars, published, faults>>

Location == { "idle", "received", "validated", "claiming", "calling",
              "completing", "failing", "publishing", "acking" }
(* Where a worker has an outcome to store or to publish. *)
Reporting == {"completing", "publishing", "acking"}
Fault == {"overrun", "lost-response", "ledger-error", "crash"}

LedgerEntry ==
    [ status : {"absent", "executing", "completed", "failed"},
      result : Outcome \cup {NoOutcome},
      lease  : Nat ]

TypeOK ==
    /\ clock \in Nat
    /\ event \in [Message -> Events]
    /\ queue \in [Message -> {"pending", "acked", "dead-lettered"}]
    /\ attempts \in [Message -> Nat]
    /\ pc \in [Worker -> Location]
    /\ msg \in [Worker -> Message \cup {NoMessage}]
    /\ \A w \in Worker : pc[w] = "idle" <=> msg[w] = NoMessage
    /\ leaseFrom \in [Worker -> Nat]
    /\ out \in [Worker -> Outcome \cup {NoOutcome}]
    /\ \A w \in Worker : pc[w] \in Reporting => out[w] # NoOutcome
    /\ ledger \in [DecisionId -> LedgerEntry]
    /\ restarts \in [DecisionId -> Nat]
    /\ late \in [DecisionId -> Nat]
    /\ published \in [DecisionId -> SUBSET Outcome]
    /\ faults \in [DecisionId -> SUBSET Fault]

Init ==
    /\ clock = 0
    /\ event \in [Message -> Events]
    /\ queue = [m \in Message |-> "pending"]
    /\ attempts = [m \in Message |-> 0]
    /\ pc = [w \in Worker |-> "idle"]
    /\ msg = [w \in Worker |-> NoMessage]
    /\ leaseFrom = [w \in Worker |-> 0]
    /\ out = [w \in Worker |-> NoOutcome]
    /\ ledger = [d \in DecisionId |->
                    [status |-> "absent", result |-> NoOutcome, lease |-> 0]]
    /\ restarts = [d \in DecisionId |-> 0]
    /\ late = [d \in DecisionId |-> 0]
    /\ published = [d \in DecisionId |-> {}]
    /\ faults = [d \in DecisionId |-> {}]

-----------------------------------------------------------------------------
(* Helpers *)

EventOf(w) == event[msg[w]]
IdOf(w) == EventOf(w).id

(* Between the claim and the end of the attempt. *)
Executing(w) == pc[w] \in {"calling", "completing", "failing"}

LeaseLapsed(w, now) == leaseFrom[w] + Lease <= now

(* Worker w goes on to location l. *)
Goto(w, l) == pc' = [pc EXCEPT ![w] = l]

(* The callback returns or raises: w takes no further part. *)
Release(w) ==
    /\ pc' = [pc EXCEPT ![w] = "idle"]
    /\ msg' = [msg EXCEPT ![w] = NoMessage]
    /\ leaseFrom' = [leaseFrom EXCEPT ![w] = 0]
    /\ out' = [out EXCEPT ![w] = NoOutcome]

(* An exception reaches AgentRuntime._callback: message.nack(), and the    *)
(* message stays on the subscription.                                      *)
Nack(w) == Release(w) /\ UNCHANGED queueVars

Blame(d, f) == faults' = [faults EXCEPT ![d] = @ \cup {f}]

(* EXECUTION_MODE against the source of the decision. *)
ModeAllows(e) ==
    \/ ExecutionMode = "controlled"
    \/ ExecutionMode = "approval-only" /\ e.source = "kms-human-approval"

(* Mistake: the human approval is taken on the word of the source. *)
ExecutableUnsigned(e, now) ==
    /\ e.decision = "PERMIT"
    /\ ModeAllows(e)
    /\ e.policyTrusted
    /\ e.policyApproved
    /\ e.expires > now
    /\ e.targetAllowed
    /\ ~(e.source = "dgc-opa" /\ e.approvalRequired)

(* validate_governance_decision returns no reason. *)
Executable(e, now) ==
    /\ e.decision = "PERMIT"
    /\ ModeAllows(e)
    /\ e.policyTrusted
    /\ e.policyApproved
    /\ e.expires > now
    /\ e.targetAllowed
    /\ (e.approvalRequired \/ e.source = "kms-human-approval")
          => e.approvalComplete
    /\ ~(e.source = "dgc-opa" /\ e.approvalRequired)

(* The outcome of a decision that asks for no execution. *)
TerminalOutcome(value) ==
    CASE value = "DENY"      -> "denied-by-governance"
      [] value = "NO_ACTION" -> "no-action"
      [] OTHER               -> "awaiting-human-approval"

-----------------------------------------------------------------------------
(* The ledger document and its writes.  Every write merges into the        *)
(* document, so a result, once stored, stays beside a later status.        *)

(* Mistake: a completed entry is not looked at. *)
HasResultNever(entry) == FALSE

HasResult(entry) == entry.status = "completed" /\ entry.result # NoOutcome

(* Mistake: only the completed status stops a claim. *)
LeaseHeldNever(entry, now) == FALSE

LeaseHeld(entry, now) == entry.status = "executing" /\ entry.lease > now

SetExecuting(w) ==
    ledger' = [ledger EXCEPT ![IdOf(w)] =
                  [status |-> "executing", result |-> @.result,
                   lease |-> leaseFrom[w] + Lease]]

SetCompleted(w) ==
    ledger' = [ledger EXCEPT ![IdOf(w)] =
                  [status |-> "completed", result |-> out[w], lease |-> clock]]

SetFailed(w) ==
    ledger' = [ledger EXCEPT ![IdOf(w)] =
                  [status |-> "failed", result |-> @.result, lease |-> clock]]

-----------------------------------------------------------------------------
(* Time and Pub/Sub *)

(* A lease that lapses while its holder still executes is an overrun. *)
Tick ==
    /\ clock < MaxClock
    /\ clock' = clock + 1
    /\ faults' = [d \in DecisionId |->
                    IF \E w \in Worker : /\ Executing(w)
                                         /\ IdOf(w) = d
                                         /\ LeaseLapsed(w, clock')
                    THEN faults[d] \cup {"overrun"}
                    ELSE faults[d]]
    /\ UNCHANGED <<queueVars, workerVars, ledger, effectVars, published>>

(* At least once: a pending message may reach a second worker while the    *)
(* first still has it.                                                     *)
Deliver(w, m) ==
    /\ pc[w] = "idle"
    /\ queue[m] = "pending"
    /\ attempts[m] < MaxDeliveries
    /\ attempts' = [attempts EXCEPT ![m] = @ + 1]
    /\ msg' = [msg EXCEPT ![w] = m]
    /\ Goto(w, "received")
    /\ UNCHANGED <<clock, event, queue, leaseFrom, out, ledger, effectVars,
                   published, faults>>

DeadLetter(m) ==
    /\ queue[m] = "pending"
    /\ attempts[m] = MaxDeliveries
    /\ \A w \in Worker : msg[w] # m
    /\ queue' = [queue EXCEPT ![m] = "dead-lettered"]
    /\ UNCHANGED <<clock, event, attempts, workerVars, ledger, effectVars,
                   published, faults>>

-----------------------------------------------------------------------------
(* process(): before the claim *)

(* A decision that is not PERMIT is reported and nothing else. *)
ReportTerminal(w) ==
    /\ pc[w] = "received"
    /\ EventOf(w).decision # "PERMIT"
    /\ out' = [out EXCEPT ![w] = TerminalOutcome(EventOf(w).decision)]
    /\ Goto(w, "publishing")
    /\ UNCHANGED <<clock, queueVars, msg, leaseFrom, ledger, effectVars,
                   published, faults>>

(* A PERMIT that fails validation is reported as blocked; the ledger is    *)
(* not consulted.                                                          *)
Block(w) ==
    /\ pc[w] = "received"
    /\ EventOf(w).decision = "PERMIT"
    /\ ~Executable(EventOf(w), clock)
    /\ out' = [out EXCEPT ![w] = "execution-blocked"]
    /\ Goto(w, "publishing")
    /\ UNCHANGED <<clock, queueVars, msg, leaseFrom, ledger, effectVars,
                   published, faults>>

Validate(w) ==
    /\ pc[w] = "received"
    /\ Executable(EventOf(w), clock)
    /\ Goto(w, "validated")
    /\ UNCHANGED <<clock, queueVars, msg, leaseFrom, out, ledger, effectVars,
                   published, faults>>

(* claim_execution reads the time once, before its transaction. *)
ReadTime(w) ==
    /\ pc[w] = "validated"
    /\ leaseFrom' = [leaseFrom EXCEPT ![w] = clock]
    /\ Goto(w, "claiming")
    /\ UNCHANGED <<clock, queueVars, msg, out, ledger, effectVars, published,
                   faults>>

-----------------------------------------------------------------------------
(* The claim transaction *)

(* The stored outcome is published again. *)
ClaimCompleted(w) ==
    /\ pc[w] = "claiming"
    /\ HasResult(ledger[IdOf(w)])
    /\ out' = [out EXCEPT ![w] = ledger[IdOf(w)].result]
    /\ Goto(w, "publishing")
    /\ UNCHANGED <<clock, queueVars, msg, leaseFrom, ledger, effectVars,
                   published, faults>>

ClaimInProgress(w) ==
    /\ pc[w] = "claiming"
    /\ LeaseHeld(ledger[IdOf(w)], leaseFrom[w])
    /\ Nack(w)
    /\ UNCHANGED <<clock, ledger, effectVars, published, faults>>

(* Mistake: a claim takes over any entry that is not held. *)
ClaimLeaseOverResult(w) ==
    /\ pc[w] = "claiming"
    /\ ~LeaseHeld(ledger[IdOf(w)], leaseFrom[w])
    /\ SetExecuting(w)
    /\ Goto(w, "calling")
    /\ IF LeaseLapsed(w, clock) THEN Blame(IdOf(w), "overrun")
                                ELSE UNCHANGED faults
    /\ UNCHANGED <<clock, queueVars, msg, leaseFrom, out, effectVars, published>>

(* The lease runs from the time read before the transaction, so a slow     *)
(* claim may start with a lapsed lease.                                    *)
ClaimLease(w) ==
    /\ pc[w] = "claiming"
    /\ ~HasResult(ledger[IdOf(w)])
    /\ ~LeaseHeld(ledger[IdOf(w)], leaseFrom[w])
    /\ SetExecuting(w)
    /\ Goto(w, "calling")
    /\ IF LeaseLapsed(w, clock) THEN Blame(IdOf(w), "overrun")
                                ELSE UNCHANGED faults
    /\ UNCHANGED <<clock, queueVars, msg, leaseFrom, out, effectVars, published>>

(* The transaction raises; its commit may have reached Firestore. *)
ClaimError(w) ==
    /\ pc[w] = "claiming"
    /\ \/ UNCHANGED ledger
       \/ /\ ~HasResult(ledger[IdOf(w)])
          /\ ~LeaseHeld(ledger[IdOf(w)], leaseFrom[w])
          /\ SetExecuting(w)
    /\ Nack(w)
    /\ UNCHANGED <<clock, effectVars, published, faults>>

-----------------------------------------------------------------------------
(* call_mcp_restart: the outcomes of one HTTP call *)

(* Mistake: every status below 500 counts as accepted. *)
McpRejectedAsExecuted(w) ==
    /\ pc[w] = "calling"
    /\ out' = [out EXCEPT ![w] = "executed"]
    /\ Goto(w, "completing")
    /\ UNCHANGED <<clock, queueVars, msg, leaseFrom, ledger, effectVars,
                   published, faults>>

(* 4xx: the gateway or the MCP server refuses. *)
McpRejected(w) ==
    /\ pc[w] = "calling"
    /\ out' = [out EXCEPT ![w] = "rejected-by-gateway"]
    /\ Goto(w, "completing")
    /\ UNCHANGED <<clock, queueVars, msg, leaseFrom, ledger, effectVars,
                   published, faults>>

(* 200: the deployment was restarted. *)
McpAccepted(w) ==
    /\ pc[w] = "calling"
    /\ restarts' = [restarts EXCEPT ![IdOf(w)] = @ + 1]
    /\ out' = [out EXCEPT ![w] = "executed"]
    /\ Goto(w, "completing")
    /\ UNCHANGED <<clock, queueVars, msg, leaseFrom, ledger, late, published,
                   faults>>

(* Refused connection, or 5xx without effect: kubectl failed. *)
McpUnavailable(w) ==
    /\ pc[w] = "calling"
    /\ Goto(w, "failing")
    /\ UNCHANGED <<clock, queueVars, msg, leaseFrom, out, ledger, effectVars,
                   published, faults>>

(* Timeout, broken connection or 504: the request may still be executed.   *)
McpTimeout(w) ==
    /\ pc[w] = "calling"
    /\ late' = [late EXCEPT ![IdOf(w)] = @ + 1]
    /\ Blame(IdOf(w), "lost-response")
    /\ Goto(w, "failing")
    /\ UNCHANGED <<clock, queueVars, msg, leaseFrom, out, ledger, restarts,
                   published>>

(* The MCP server executes a call whose caller has given up. *)
LateRestart(d) ==
    /\ late[d] > 0
    /\ late' = [late EXCEPT ![d] = @ - 1]
    /\ restarts' = [restarts EXCEPT ![d] = @ + 1]
    /\ UNCHANGED <<clock, queueVars, workerVars, ledger, published, faults>>

-----------------------------------------------------------------------------
(* After the call *)

CompleteExecution(w) ==
    /\ pc[w] = "completing"
    /\ SetCompleted(w)
    /\ Goto(w, "publishing")
    /\ UNCHANGED <<clock, queueVars, msg, leaseFrom, out, effectVars,
                   published, faults>>

(* The write raises, with or without effect; the except branch follows. *)
CompleteError(w) ==
    /\ pc[w] = "completing"
    /\ SetCompleted(w) \/ UNCHANGED ledger
    /\ Blame(IdOf(w), "ledger-error")
    /\ out' = [out EXCEPT ![w] = NoOutcome]
    /\ Goto(w, "failing")
    /\ UNCHANGED <<clock, queueVars, msg, leaseFrom, effectVars, published>>

(* fail_execution, unconditionally, then raise; the write may itself fail. *)
FailExecution(w) ==
    /\ pc[w] = "failing"
    /\ SetFailed(w) \/ UNCHANGED ledger
    /\ Nack(w)
    /\ UNCHANGED <<clock, effectVars, published, faults>>

-----------------------------------------------------------------------------
(* AgentRuntime._callback: publish the result, then acknowledge *)

Publish(w) ==
    /\ pc[w] = "publishing"
    /\ published' = [published EXCEPT ![IdOf(w)] = @ \cup {out[w]}]
    /\ Goto(w, "acking")
    /\ UNCHANGED <<clock, queueVars, msg, leaseFrom, out, ledger, effectVars,
                   faults>>

(* Mistake: a failed publish is swallowed and the message acknowledged. *)
PublishErrorSwallowed(w) ==
    /\ pc[w] = "publishing"
    /\ Goto(w, "acking")
    /\ UNCHANGED <<clock, queueVars, msg, leaseFrom, out, ledger, effectVars,
                   published, faults>>

(* The publish future raises or times out, with or without effect. *)
PublishError(w) ==
    /\ pc[w] = "publishing"
    /\ \/ published' = [published EXCEPT ![IdOf(w)] = @ \cup {out[w]}]
       \/ UNCHANGED published
    /\ Nack(w)
    /\ UNCHANGED <<clock, ledger, effectVars, faults>>

(* An acknowledgement settles the message unless it was dead-lettered; one *)
(* that is lost leaves it pending, like a crash at this point.             *)
Ack(w) ==
    /\ pc[w] = "acking"
    /\ queue' = [queue EXCEPT ![msg[w]] = IF @ = "pending" THEN "acked" ELSE @]
    /\ Release(w)
    /\ UNCHANGED <<clock, event, attempts, ledger, effectVars, published, faults>>

(* The process dies at any point of the callback.  A gateway call it was   *)
(* waiting for may still be executed.                                      *)
Crash(w) ==
    /\ pc[w] # "idle"
    /\ IF pc[w] = "calling"
       THEN \/ late' = [late EXCEPT ![IdOf(w)] = @ + 1]
            \/ UNCHANGED late
       ELSE UNCHANGED late
    /\ IF Executing(w) THEN Blame(IdOf(w), "crash") ELSE UNCHANGED faults
    /\ Nack(w)
    /\ UNCHANGED <<clock, ledger, restarts, published>>

-----------------------------------------------------------------------------
BeforeClaim(w) == ReportTerminal(w) \/ Block(w) \/ Validate(w) \/ ReadTime(w)

Claim(w) ==
    ClaimCompleted(w) \/ ClaimInProgress(w) \/ ClaimLease(w) \/ ClaimError(w)

McpCall(w) ==
    McpAccepted(w) \/ McpRejected(w) \/ McpUnavailable(w) \/ McpTimeout(w)

Finish(w) ==
    \/ CompleteExecution(w) \/ CompleteError(w) \/ FailExecution(w)
    \/ Publish(w) \/ PublishError(w) \/ Ack(w)

(* What the thread of a callback does. *)
Work(w) == BeforeClaim(w) \/ Claim(w) \/ McpCall(w) \/ Finish(w)

Next ==
    \/ Tick
    \/ \E m \in Message : DeadLetter(m)
    \/ \E d \in DecisionId : LateRestart(d)
    \/ \E w \in Worker : Work(w) \/ Crash(w) \/ \E m \in Message : Deliver(w, m)

Spec == Init /\ [][Next]_vars

-----------------------------------------------------------------------------
(* Properties *)

(* claim_execution 191-228: as long as no attempt at d outlives its lease, *)
(* two workers never execute d at the same time, whatever the messages,    *)
(* crashes, errors and stale clock reads.                                  *)
MutualExclusion ==
    \A d \in DecisionId : "overrun" \notin faults[d] =>
        \A v, w \in Worker :
            Executing(v) /\ Executing(w) /\ IdOf(v) = d /\ IdOf(w) = d => v = w

(* Redelivery, duplicate messages, failed publishes, refused calls and a   *)
(* failing claim alone never restart a deployment twice for one decision:  *)
(* that takes an overrun, a lost response, a ledger error after the call,  *)
(* or a crash during it.                                                   *)
RedeliveryAloneIsSafe ==
    \A d \in DecisionId : faults[d] = {} => restarts[d] + late[d] <= 1

(* validate_governance_decision 84-138: nothing is restarted, or about to  *)
(* be, unless some message for that decision carries a PERMIT for an       *)
(* allowlisted target under the local policy, either automatic in          *)
(* controlled mode or with a complete human approval in a mode that        *)
(* executes at all.                                                        *)
Authorized(e) ==
    /\ e.decision = "PERMIT" /\ e.targetAllowed
    /\ e.policyTrusted /\ e.policyApproved
    /\ \/ e.source = "kms-human-approval" /\ e.approvalComplete
       \/ e.source = "dgc-opa" /\ ~e.approvalRequired /\ ExecutionMode = "controlled"
    /\ ExecutionMode \in {"approval-only", "controlled"}

RestartAuthorized ==
    \A d \in DecisionId : restarts[d] + late[d] > 0 =>
        \E m \in Message : event[m].id = d /\ Authorized(event[m])

(* An outcome "executed", in the ledger or on remediation-results, is      *)
(* never reported for a decision whose deployment was not restarted.       *)
ReportIsTruthful ==
    \A d \in DecisionId :
        "executed" \in published[d] \cup {ledger[d].result} => restarts[d] > 0

(* agent_runtime 166-167: a message is acknowledged only after an outcome  *)
(* of its decision was published.                                          *)
AckedIsReported ==
    \A m \in Message : queue[m] = "acked" => published[event[m].id] # {}

(* When every message for an executed decision has been acknowledged, yet  *)
(* no "executed" was published, the publish failed and the decision had    *)
(* expired by the time its message came back.                              *)
Settled(d) ==
    /\ \A m \in Message : event[m].id = d => queue[m] = "acked"
    /\ \A w \in Worker : pc[w] # "idle" => IdOf(w) # d

ReportLostOnlyByExpiry ==
    \A d \in DecisionId :
        Settled(d) /\ faults[d] = {} /\ restarts[d] > 0 =>
            \/ "executed" \in published[d]
            \/ /\ "execution-blocked" \in published[d]
               /\ \E m \in Message : event[m].id = d /\ event[m].expires <= clock

(* No step changes a completed entry of a decision that has met no fault:  *)
(* neither a late worker nor a redelivery takes the stored outcome away.   *)
CompletedIsFinal ==
    [][ \A d \in DecisionId :
          faults'[d] = {} /\ HasResult(ledger[d]) => ledger'[d] = ledger[d] ]_vars

(* terraform/21-governance-iam.tf 89-90 says of the ledger that "a Pub/Sub *)
(* redelivery cannot trigger the same Kubernetes rollout twice".           *)
RolloutAtMostOnce == \A d \in DecisionId : restarts[d] <= 1
=============================================================================
