------------------------- MODULE RemediationAgentProofs -------------------------
(***************************************************************************)
(* Theorems about RemediationAgent, for any set of messages, workers and   *)
(* decisions, any lease, any number of deliveries and any clock bound.     *)
(***************************************************************************)
EXTENDS RemediationAgent, TLAPS

(* The payload of every message, and of every busy worker, is typed. *)
LEMMA EventTyped ==
    ASSUME TypeOK
    PROVE  /\ \A m \in Message : event[m] \in EventType
           /\ \A w \in Worker : pc[w] # "idle" =>
                 msg[w] \in Message /\ EventOf(w) \in EventType /\ IdOf(w) \in DecisionId
<1>1. \A m \in Message : event[m] \in EventType
  BY RemediationAssumption DEF TypeOK
<1>2. \A w \in Worker : pc[w] # "idle" => msg[w] \in Message
  BY DEF TypeOK
<1>. QED  BY <1>1, <1>2 DEF EventOf, IdOf, EventType

(* The initial state is typed. *)
LEMMA InitTypeOK == Init => TypeOK
BY RemediationAssumption
   DEF Init, TypeOK, Location, LedgerEntry, Reporting, NoOutcome

(* What the callback of a worker leaves behind is typed. *)
LEMMA ReleaseTyped ==
    ASSUME TypeOK, NEW w \in Worker, Release(w)
    PROVE  /\ pc' \in [Worker -> Location]
           /\ msg' \in [Worker -> Message \cup {NoMessage}]
           /\ leaseFrom' \in [Worker -> Nat]
           /\ out' \in [Worker -> Outcome \cup {NoOutcome}]
           /\ \A v \in Worker : pc'[v] = "idle" <=> msg'[v] = NoMessage
           /\ \A v \in Worker : pc'[v] \in Reporting => out'[v] # NoOutcome
BY DEF TypeOK, Release, Location, Reporting, NoOutcome

(* A step to another location of a busy worker keeps the link between      *)
(* being idle and having no message.                                       *)
LEMMA GotoTyped ==
    ASSUME TypeOK, NEW w \in Worker, NEW l \in Location \ {"idle"},
           pc[w] # "idle", Goto(w, l), UNCHANGED msg
    PROVE  /\ pc' \in [Worker -> Location]
           /\ \A v \in Worker : pc'[v] = "idle" <=> msg'[v] = NoMessage
BY DEF TypeOK, Goto

(* A worker reaches a reporting location with an outcome. *)
LEMMA GotoReporting ==
    ASSUME TypeOK, NEW w \in Worker, NEW l \in Location, Goto(w, l),
           \/ UNCHANGED out /\ (l \notin Reporting \/ pc[w] \in Reporting)
           \/ \E o \in Outcome : out' = [out EXCEPT ![w] = o]
           \/ l \notin Reporting /\ out' = [out EXCEPT ![w] = NoOutcome]
    PROVE  /\ out' \in [Worker -> Outcome \cup {NoOutcome}]
           /\ \A v \in Worker : pc'[v] \in Reporting => out'[v] # NoOutcome
BY DEF TypeOK, Goto, Outcome, NoOutcome

(* The three writes to the ledger are typed. *)
LEMMA LedgerTyped ==
    ASSUME TypeOK, NEW w \in Worker, pc[w] # "idle",
           SetExecuting(w) \/ SetCompleted(w) \/ SetFailed(w)
    PROVE  ledger' \in [DecisionId -> LedgerEntry]
<1>1. IdOf(w) \in DecisionId
  BY EventTyped
<1>2. /\ leaseFrom[w] + Lease \in Nat
      /\ clock \in Nat
      /\ out[w] \in Outcome \cup {NoOutcome}
  BY RemediationAssumption DEF TypeOK
<1>3. CASE SetExecuting(w)
  BY <1>1, <1>2, <1>3 DEF TypeOK, SetExecuting, LedgerEntry
<1>4. CASE SetCompleted(w)
  BY <1>1, <1>2, <1>4 DEF TypeOK, SetCompleted, LedgerEntry
<1>5. CASE SetFailed(w)
  BY <1>1, <1>2, <1>5 DEF TypeOK, SetFailed, LedgerEntry
<1>. QED  BY <1>3, <1>4, <1>5

(* Every step keeps the types. *)
LEMMA NextTypeOK == TypeOK /\ [Next]_vars => TypeOK'
<1>. SUFFICES ASSUME TypeOK, [Next]_vars
              PROVE  TypeOK'
  OBVIOUS
<1>. USE DEF queueVars, workerVars, effectVars
<1>1. CASE Tick
  BY <1>1, RemediationAssumption DEF Tick, TypeOK, Fault
<1>2. ASSUME NEW m \in Message, DeadLetter(m)
      PROVE  TypeOK'
  BY <1>2 DEF DeadLetter, TypeOK
<1>3. ASSUME NEW d \in DecisionId, LateRestart(d)
      PROVE  TypeOK'
  BY <1>3 DEF LateRestart, TypeOK
<1>4. ASSUME NEW w \in Worker, NEW m \in Message, Deliver(w, m)
      PROVE  TypeOK'
  BY <1>4, RemediationAssumption DEF Deliver, Goto, TypeOK, Location, Reporting
<1>5. ASSUME NEW w \in Worker, BeforeClaim(w)
      PROVE  TypeOK'
  <2>. pc[w] # "idle"
    BY <1>5 DEF BeforeClaim, ReportTerminal, Block, Validate, ReadTime
  <2>1. CASE ReportTerminal(w)
    <3>1. TerminalOutcome(EventOf(w).decision) \in Outcome
      BY DEF TerminalOutcome, Outcome
    <3>. QED  BY <2>1, <3>1, GotoTyped, GotoReporting
                 DEF ReportTerminal, TypeOK, Location, Reporting
  <2>2. CASE Block(w)
    BY <2>2, GotoTyped, GotoReporting
       DEF Block, TypeOK, Location, Outcome, Reporting
  <2>3. CASE Validate(w)
    BY <2>3, GotoTyped, GotoReporting DEF Validate, TypeOK, Location, Reporting
  <2>4. CASE ReadTime(w)
    BY <2>4, GotoTyped, GotoReporting DEF ReadTime, TypeOK, Location, Reporting
  <2>. QED  BY <1>5, <2>1, <2>2, <2>3, <2>4 DEF BeforeClaim
<1>6. ASSUME NEW w \in Worker, Claim(w)
      PROVE  TypeOK'
  <2>. pc[w] # "idle"
    BY <1>6 DEF Claim, ClaimCompleted, ClaimInProgress, ClaimLease, ClaimError
  <2>0. IdOf(w) \in DecisionId
    BY EventTyped
  <2>1. CASE ClaimCompleted(w)
    <3>1. ledger[IdOf(w)].result \in Outcome
      BY <2>0, <2>1 DEF ClaimCompleted, HasResult, TypeOK, LedgerEntry
    <3>. QED  BY <2>1, <3>1, GotoTyped, GotoReporting
                 DEF ClaimCompleted, TypeOK, Location, Reporting
  <2>2. CASE ClaimInProgress(w)
    BY <2>2, ReleaseTyped DEF ClaimInProgress, Nack, TypeOK
  <2>3. CASE ClaimLease(w)
    <3>1. faults' \in [DecisionId -> SUBSET Fault]
      BY <2>0, <2>3 DEF ClaimLease, Blame, TypeOK, Fault
    <3>. QED  BY <2>3, <3>1, GotoTyped, GotoReporting, LedgerTyped
                 DEF ClaimLease, TypeOK, Location, Reporting
  <2>4. CASE ClaimError(w)
    <3>1. ledger' \in [DecisionId -> LedgerEntry]
      BY <2>4, LedgerTyped DEF ClaimError, TypeOK
    <3>. QED  BY <2>4, <3>1, ReleaseTyped DEF ClaimError, Nack, TypeOK
  <2>. QED  BY <1>6, <2>1, <2>2, <2>3, <2>4 DEF Claim
<1>7. ASSUME NEW w \in Worker, McpCall(w)
      PROVE  TypeOK'
  <2>. pc[w] # "idle"
    BY <1>7 DEF McpCall, McpAccepted, McpRejected, McpUnavailable, McpTimeout
  <2>0. IdOf(w) \in DecisionId
    BY EventTyped
  <2>1. CASE McpAccepted(w)
    <3>1. restarts' \in [DecisionId -> Nat]
      BY <2>0, <2>1 DEF McpAccepted, TypeOK
    <3>2. out' = [out EXCEPT ![w] = "executed"] /\ "executed" \in Outcome
      BY <2>1 DEF McpAccepted, Outcome
    <3>. QED
      BY <2>1, <3>1, <3>2, GotoTyped, GotoReporting
         DEF McpAccepted, TypeOK, Location, Reporting
  <2>2. CASE McpRejected(w)
    BY <2>2, GotoTyped, GotoReporting
       DEF McpRejected, TypeOK, Location, Outcome, Reporting
  <2>3. CASE McpUnavailable(w)
    BY <2>3, GotoTyped, GotoReporting
       DEF McpUnavailable, TypeOK, Location, Reporting
  <2>4. CASE McpTimeout(w)
    BY <2>0, <2>4, GotoTyped, GotoReporting
       DEF McpTimeout, Blame, TypeOK, Location, Fault, Reporting
  <2>. QED  BY <1>7, <2>1, <2>2, <2>3, <2>4 DEF McpCall
<1>8. ASSUME NEW w \in Worker, Finish(w)
      PROVE  TypeOK'
  <2>. pc[w] # "idle"
    BY <1>8 DEF Finish, CompleteExecution, CompleteError, FailExecution,
                Publish, PublishError, Ack
  <2>0. IdOf(w) \in DecisionId /\ msg[w] \in Message
    BY EventTyped
  <2>1. CASE CompleteExecution(w)
    BY <2>1, GotoTyped, GotoReporting, LedgerTyped
       DEF CompleteExecution, TypeOK, Location, Reporting
  <2>2. CASE CompleteError(w)
    <3>1. ledger' \in [DecisionId -> LedgerEntry]
      BY <2>2, LedgerTyped DEF CompleteError, TypeOK
    <3>2. faults' \in [DecisionId -> SUBSET Fault]
      BY <2>2 DEF CompleteError, Blame, TypeOK, Fault
    <3>. QED  BY <2>2, <3>1, <3>2, GotoTyped, GotoReporting
                 DEF CompleteError, TypeOK, Location, Reporting
  <2>3. CASE FailExecution(w)
    <3>1. ledger' \in [DecisionId -> LedgerEntry]
      BY <2>3, LedgerTyped DEF FailExecution, TypeOK
    <3>. QED  BY <2>3, <3>1, ReleaseTyped DEF FailExecution, Nack, TypeOK
  <2>4. CASE Publish(w)
    BY <2>4, GotoTyped, GotoReporting DEF Publish, TypeOK, Location, Reporting
  <2>5. CASE PublishError(w)
    <3>1. published' \in [DecisionId -> SUBSET Outcome]
      BY <2>0, <2>5 DEF PublishError, TypeOK, Reporting
    <3>. QED  BY <2>5, <3>1, ReleaseTyped DEF PublishError, Nack, TypeOK
  <2>6. CASE Ack(w)
    BY <2>6, ReleaseTyped DEF Ack, TypeOK
  <2>. QED  BY <1>8, <2>1, <2>2, <2>3, <2>4, <2>5, <2>6 DEF Finish
<1>9. ASSUME NEW w \in Worker, Crash(w)
      PROVE  TypeOK'
  <2>1. IdOf(w) \in DecisionId
    BY <1>9, EventTyped DEF Crash
  <2>2. late' \in [DecisionId -> Nat] /\ faults' \in [DecisionId -> SUBSET Fault]
    BY <1>9, <2>1 DEF Crash, Blame, TypeOK, Fault
  <2>. QED  BY <1>9, <2>2, ReleaseTyped DEF Crash, Nack, TypeOK
<1>10. CASE UNCHANGED vars
  BY <1>10 DEF vars, TypeOK
<1>. QED
  BY <1>1, <1>2, <1>3, <1>4, <1>5, <1>6, <1>7, <1>8, <1>9, <1>10 DEF Next, Work

(* RemediationAgent is type-correct. *)
THEOREM TypeCorrect == Spec => []TypeOK
<1>. QED  BY InitTypeOK, NextTypeOK, PTL DEF Spec

-----------------------------------------------------------------------------
(* The inductive invariant *)

(* A claim never reads a time ahead of the clock. *)
ClockInv == \A w \in Worker : leaseFrom[w] <= clock

(* The ledger entry belongs to w: it carries the lease w has taken, or the *)
(* result that w has written before its write raised.                      *)
Holds(w) ==
    \/ /\ ledger[IdOf(w)].status = "executing"
       /\ ledger[IdOf(w)].lease = leaseFrom[w] + Lease
    \/ /\ pc[w] = "failing"
       /\ HasResult(ledger[IdOf(w)])
       /\ "ledger-error" \in faults[IdOf(w)]

HolderInv ==
    \A w \in Worker : Executing(w) /\ "overrun" \notin faults[IdOf(w)] =>
        ~LeaseLapsed(w, clock) /\ Holds(w)

(* Without a fault there is at most one restart, and it is on record or    *)
(* about to be recorded.                                                   *)
OnceInv ==
    \A d \in DecisionId : faults[d] = {} =>
        /\ late[d] = 0
        /\ restarts[d] <= 1
        /\ restarts[d] = 1 =>
              \/ HasResult(ledger[d])
              \/ \E w \in Worker : pc[w] = "completing" /\ IdOf(w) = d

(* Who has passed validation carries an authorized decision. *)
AuthInv ==
    /\ RestartAuthorized
    /\ \A w \in Worker :
          Executing(w) \/ pc[w] \in {"validated", "claiming"} => Authorized(EventOf(w))

(* Who is about to store or publish "executed" has restarted something. *)
TruthInv ==
    /\ ReportIsTruthful
    /\ \A w \in Worker : out[w] = "executed" =>
          pc[w] # "idle" /\ restarts[IdOf(w)] > 0

(* Who is about to acknowledge has published. *)
AckInv ==
    /\ AckedIsReported
    /\ \A w \in Worker : pc[w] = "acking" => published[IdOf(w)] # {}

Stored(d, o) == HasResult(ledger[d]) /\ ledger[d].result = o

(* A restart without faults is in the ledger as "executed", or its worker  *)
(* is about to store it.                                                   *)
RecordedInv ==
    \A d \in DecisionId : faults[d] = {} /\ restarts[d] > 0 =>
        \/ Stored(d, "executed")
        \/ \E w \in Worker :
              pc[w] = "completing" /\ IdOf(w) = d /\ out[w] = "executed"

(* A PERMIT e is reported as blocked if it may not be executed, and as the *)
(* ledger has it otherwise.                                                *)
Justified(e, o) ==
    \/ o = "execution-blocked" /\ ~Executable(e, clock)
    \/ Stored(e.id, o)

Reports(w) ==
    /\ EventOf(w).decision = "PERMIT" /\ faults[IdOf(w)] = {} =>
          Justified(EventOf(w), out[w])
    /\ pc[w] = "acking" => out[w] \in published[IdOf(w)]
AckedWell(m) ==
    event[m].decision = "PERMIT" /\ faults[event[m].id] = {} =>
        \E o \in published[event[m].id] : Justified(event[m], o)
ReportInv ==
    /\ \A w \in Worker : pc[w] \in {"publishing", "acking"} => Reports(w)
    /\ \A m \in Message : queue[m] = "acked" => AckedWell(m)

IInv ==
    /\ TypeOK
    /\ ClockInv
    /\ HolderInv
    /\ MutualExclusion
    /\ OnceInv
    /\ AuthInv
    /\ TruthInv
    /\ AckInv
    /\ RecordedInv
    /\ ReportInv

-----------------------------------------------------------------------------
(* What a step leaves alone *)

(* The steps of worker w. *)
WorkerStep(w) == Work(w) \/ Crash(w) \/ \E m \in Message : Deliver(w, m)

(* A step of w changes neither the clock nor the payloads nor any other    *)
(* worker, and history only grows.                                         *)
Frame(w) ==
    /\ clock' = clock /\ event' = event
    /\ \A d \in DecisionId : faults[d] \subseteq faults'[d]
    /\ \A v \in Worker \ {w} : /\ pc'[v] = pc[v] /\ msg'[v] = msg[v]
                               /\ leaseFrom'[v] = leaseFrom[v] /\ out'[v] = out[v]

LEMMA StepFrame ==
    ASSUME TypeOK, NEW w \in Worker, WorkerStep(w)
    PROVE  Frame(w)
<1>. USE DEF queueVars, workerVars, effectVars
<1>1. CASE BeforeClaim(w)
  BY <1>1 DEF Frame, BeforeClaim, ReportTerminal, Block, Validate, ReadTime, Goto, TypeOK
<1>2. CASE Claim(w)
  <2>1. CASE ClaimCompleted(w)
    BY <2>1 DEF Frame, ClaimCompleted, Goto, TypeOK
  <2>2. CASE ClaimInProgress(w)
    BY <2>2 DEF Frame, ClaimInProgress, Nack, Release, TypeOK
  <2>3. CASE ClaimLease(w)
    BY <2>3 DEF Frame, ClaimLease, Goto, Blame, TypeOK
  <2>4. CASE ClaimError(w)
    BY <2>4 DEF Frame, ClaimError, Nack, Release, TypeOK
  <2>. QED  BY <1>2, <2>1, <2>2, <2>3, <2>4 DEF Claim
<1>3. CASE McpCall(w)
  BY <1>3 DEF Frame, McpCall, McpAccepted, McpRejected, McpUnavailable, McpTimeout,
              Goto, Blame, TypeOK
<1>4. CASE Finish(w)
  <2>1. CASE CompleteExecution(w) \/ CompleteError(w)
    BY <2>1 DEF Frame, CompleteExecution, CompleteError, Goto, Blame, TypeOK
  <2>2. CASE FailExecution(w)
    BY <2>2 DEF Frame, FailExecution, Nack, Release, TypeOK
  <2>3. CASE Publish(w) \/ PublishError(w) \/ Ack(w)
    BY <2>3 DEF Frame, Publish, PublishError, Ack, Goto, Nack, Release, TypeOK
  <2>. QED  BY <1>4, <2>1, <2>2, <2>3 DEF Finish
<1>5. CASE Crash(w)
  BY <1>5 DEF Frame, Crash, Nack, Release, Blame, TypeOK
<1>6. CASE \E m \in Message : Deliver(w, m)
  BY <1>6 DEF Frame, Deliver, Goto, TypeOK
<1>. QED  BY <1>1, <1>2, <1>3, <1>4, <1>5, <1>6 DEF WorkerStep, Work

(* How a step of w may touch the ledger and its own claim. *)
Quiet(w) ==         \* w does not execute afterwards, the ledger is the same
    ~Executing(w)' /\ ledger' = ledger
Claims(w) ==        \* w takes, or has just lost, a lease on its entry
    /\ pc[w] = "claiming" /\ pc'[w] \in {"calling", "idle"}
    /\ ~HasResult(ledger[IdOf(w)]) /\ ~LeaseHeld(ledger[IdOf(w)], leaseFrom[w])
    /\ SetExecuting(w)
    /\ pc'[w] = "calling" =>
          /\ msg'[w] = msg[w] /\ leaseFrom'[w] = leaseFrom[w]
          /\ LeaseLapsed(w, clock) => "overrun" \in faults'[IdOf(w)]
Continues(w) ==     \* w goes on executing, the ledger is the same
    /\ Executing(w) /\ pc[w] # "failing" /\ Executing(w)'
    /\ msg'[w] = msg[w] /\ leaseFrom'[w] = leaseFrom[w]
    /\ ledger' = ledger
Completes(w) ==     \* w writes its result, and may have to fail afterwards
    /\ pc[w] = "completing" /\ SetCompleted(w)
    /\ pc'[w] = "failing" =>
          /\ msg'[w] = msg[w] /\ leaseFrom'[w] = leaseFrom[w]
          /\ "ledger-error" \in faults'[IdOf(w)]
    /\ pc'[w] \in {"publishing", "failing"}
Fails(w) ==         \* w writes a failure and is done
    pc[w] = "failing" /\ pc'[w] = "idle" /\ SetFailed(w)

LEMMA StepKinds ==
    ASSUME TypeOK, NEW w \in Worker, WorkerStep(w)
    PROVE  Quiet(w) \/ Claims(w) \/ Continues(w) \/ Completes(w) \/ Fails(w)
<1>. USE DEF queueVars, workerVars, effectVars
<1>0. pc[w] # "idle" => IdOf(w) \in DecisionId
  BY EventTyped
<1>1. CASE BeforeClaim(w)
  <2>1. Quiet(w)
    BY <1>1 DEF BeforeClaim, ReportTerminal, Block, Validate, ReadTime, Goto, TypeOK,
                Quiet, Executing
  <2>. QED  BY <2>1
<1>2. CASE Claim(w)
  <2>1. CASE ClaimCompleted(w)
    BY <2>1 DEF ClaimCompleted, Goto, TypeOK, Quiet, Executing
  <2>2. CASE ClaimInProgress(w)
    BY <2>2 DEF ClaimInProgress, Nack, Release, TypeOK, Quiet, Executing
  <2>3. CASE ClaimLease(w)
    <3>1. Claims(w)
      BY <1>0, <2>3 DEF ClaimLease, Goto, Blame, TypeOK, Claims, Executing
    <3>. QED  BY <3>1
  <2>4. CASE ClaimError(w)
    BY <2>4 DEF ClaimError, Nack, Release, TypeOK, Quiet, Claims, Executing
  <2>. QED  BY <1>2, <2>1, <2>2, <2>3, <2>4 DEF Claim
<1>3. CASE McpCall(w)
  <2>1. Continues(w)
    BY <1>3 DEF McpCall, McpAccepted, McpRejected, McpUnavailable, McpTimeout,
                Goto, TypeOK, Continues, Executing
  <2>. QED  BY <2>1
<1>4. CASE Finish(w)
  <2>1. CASE CompleteExecution(w)
    BY <2>1 DEF CompleteExecution, Goto, TypeOK, Completes
  <2>2. CASE CompleteError(w)
    <3>1. CASE SetCompleted(w)
      BY <1>0, <2>2, <3>1 DEF CompleteError, Goto, Blame, TypeOK, Completes
    <3>2. CASE UNCHANGED ledger
      \* The write had no effect: w goes on to fail_execution.
      BY <2>2, <3>2 DEF CompleteError, Goto, TypeOK, Continues, Executing
    <3>. QED  BY <2>2, <3>1, <3>2 DEF CompleteError
  <2>3. CASE FailExecution(w)
    BY <2>3 DEF FailExecution, Nack, Release, TypeOK, Quiet, Fails, Executing
  <2>4. CASE Publish(w) \/ PublishError(w) \/ Ack(w)
    BY <2>4 DEF Publish, PublishError, Ack, Goto, Nack, Release, TypeOK, Quiet, Executing
  <2>. QED  BY <1>4, <2>1, <2>2, <2>3, <2>4 DEF Finish
<1>5. CASE Crash(w)
  BY <1>5 DEF Crash, Nack, Release, TypeOK, Quiet, Executing
<1>6. CASE \E m \in Message : Deliver(w, m)
  BY <1>6 DEF Deliver, Goto, TypeOK, Quiet, Executing
<1>. QED  BY <1>1, <1>2, <1>3, <1>4, <1>5, <1>6 DEF WorkerStep, Work

-----------------------------------------------------------------------------
(* Mutual exclusion *)

(* Steps that no worker takes. *)
Environment ==
    \/ Tick
    \/ \E m \in Message : DeadLetter(m)
    \/ \E d \in DecisionId : LateRestart(d)

LEMMA NextSplit ==
    ASSUME [Next]_vars
    PROVE  Environment \/ (\E w \in Worker : WorkerStep(w)) \/ UNCHANGED vars
BY DEF Next, Environment, WorkerStep

(* An environment step changes no worker, no payload and no ledger entry;  *)
(* it blames an overrun on whoever lets a lease lapse.                     *)
LEMMA EnvironmentFrame ==
    ASSUME TypeOK, Environment \/ UNCHANGED vars
    PROVE  /\ UNCHANGED <<pc, msg, leaseFrom, out, event, ledger, published>>
           /\ clock' \in Nat /\ clock <= clock'
           /\ \A d \in DecisionId : faults[d] \subseteq faults'[d]
           /\ clock' # clock =>
                \A w \in Worker : Executing(w) /\ IdOf(w) \in DecisionId
                                  /\ LeaseLapsed(w, clock')
                                 => "overrun" \in faults'[IdOf(w)]
<1>. USE DEF queueVars, workerVars, effectVars
<1>1. CASE Tick
  BY <1>1 DEF Tick, TypeOK
<1>2. CASE \E m \in Message : DeadLetter(m)
  BY <1>2 DEF DeadLetter, TypeOK
<1>3. CASE \E d \in DecisionId : LateRestart(d)
  BY <1>3 DEF LateRestart, TypeOK
<1>4. CASE UNCHANGED vars
  BY <1>4 DEF vars, TypeOK
<1>. QED  BY <1>1, <1>2, <1>3, <1>4 DEF Environment

(* Times read by claims stay in the past. *)
LEMMA NextClock ==
    ASSUME TypeOK, ClockInv, [Next]_vars
    PROVE  ClockInv'
<1>. USE DEF queueVars, workerVars, effectVars
<1>1. CASE Environment \/ UNCHANGED vars
  BY <1>1, EnvironmentFrame DEF ClockInv, TypeOK
<1>2. ASSUME NEW w \in Worker, WorkerStep(w)
      PROVE  ClockInv'
  <2>1. Frame(w)
    BY <1>2, StepFrame
  <2>2. leaseFrom'[w] \in {leaseFrom[w], clock, 0}
    BY <1>2 DEF WorkerStep, Work, BeforeClaim, ReportTerminal, Block, Validate, ReadTime,
                Claim, ClaimCompleted, ClaimInProgress, ClaimLease, ClaimError,
                McpCall, McpAccepted, McpRejected, McpUnavailable, McpTimeout,
                Finish, CompleteExecution, CompleteError, FailExecution,
                Publish, PublishError, Ack, Crash, Deliver, Nack, Release, TypeOK
  <2>. QED  BY <2>1, <2>2 DEF Frame, ClockInv, TypeOK
<1>. QED  BY <1>1, <1>2, NextSplit

(* A worker that has a lease on d keeps every other worker from claiming d: *)
(* a claim that reads the entry sees a lease beyond its own clock, or a    *)
(* stored result.                                                          *)
LEMMA ClaimExcludesHolder ==
    ASSUME TypeOK, ClockInv, HolderInv,
           NEW v \in Worker, NEW w \in Worker, pc[w] # "idle",
           Executing(v), IdOf(v) = IdOf(w), "overrun" \notin faults[IdOf(v)],
           ~HasResult(ledger[IdOf(w)]),
           ~LeaseHeld(ledger[IdOf(w)], leaseFrom[w])
    PROVE  FALSE
<1>1. ~LeaseLapsed(v, clock) /\ Holds(v)
  BY DEF HolderInv
<1>2. ledger[IdOf(w)].status = "executing" /\ ledger[IdOf(w)].lease = leaseFrom[v] + Lease
  BY <1>1 DEF Holds
<1>3. leaseFrom[v] \in Nat /\ leaseFrom[w] \in Nat /\ clock \in Nat /\ Lease \in Nat
  BY RemediationAssumption DEF TypeOK
<1>4. leaseFrom[w] < leaseFrom[v] + Lease
  BY <1>1, <1>3 DEF LeaseLapsed, ClockInv
<1>. QED  BY <1>2, <1>4 DEF LeaseHeld

(* The heart of the matter: holders keep their entries, and there is at    *)
(* most one of them.                                                       *)
LEMMA NextHolder ==
    ASSUME TypeOK, TypeOK', ClockInv, HolderInv, MutualExclusion, [Next]_vars
    PROVE  HolderInv' /\ MutualExclusion'
<1>1. CASE Environment \/ UNCHANGED vars
  <2>1. /\ UNCHANGED <<pc, msg, leaseFrom, event, ledger>>
        /\ clock \in Nat /\ clock' \in Nat /\ clock <= clock'
        /\ \A d \in DecisionId : faults[d] \subseteq faults'[d]
    BY <1>1, EnvironmentFrame DEF TypeOK
  <2>2. ASSUME NEW v \in Worker
        PROVE  /\ Executing(v)' <=> Executing(v)
               /\ IdOf(v)' = IdOf(v)
               /\ Executing(v) => IdOf(v) \in DecisionId
    BY <2>1, EventTyped DEF Executing, IdOf, EventOf
  <2>3. MutualExclusion'
    BY <2>1, <2>2 DEF MutualExclusion
  <2>4. ASSUME NEW v \in Worker, Executing(v)', "overrun" \notin faults'[IdOf(v)']
        PROVE  ~LeaseLapsed(v, clock)' /\ Holds(v)'
    <3>1. Executing(v) /\ IdOf(v) \in DecisionId /\ "overrun" \notin faults[IdOf(v)]
      BY <2>1, <2>2, <2>4
    <3>2. ~LeaseLapsed(v, clock) /\ Holds(v)
      BY <3>1 DEF HolderInv
    <3>3. ~LeaseLapsed(v, clock')
      BY <1>1, <2>2, <2>4, <3>1, <3>2, EnvironmentFrame
    <3>4. Holds(v)'
      BY <2>1, <2>2, <3>1, <3>2 DEF Holds, HasResult
    <3>. QED  BY <2>1, <3>3, <3>4 DEF LeaseLapsed
  <2>. QED  BY <2>3, <2>4 DEF HolderInv
<1>2. ASSUME NEW w \in Worker, WorkerStep(w)
      PROVE  HolderInv' /\ MutualExclusion'
  <2>1. /\ clock' = clock /\ event' = event /\ clock \in Nat
        /\ \A d \in DecisionId : faults[d] \subseteq faults'[d]
        /\ \A v \in Worker \ {w} : /\ pc'[v] = pc[v] /\ msg'[v] = msg[v]
                                   /\ leaseFrom'[v] = leaseFrom[v]
    BY <1>2, StepFrame DEF Frame, TypeOK
  <2>2. ASSUME NEW v \in Worker, v # w \/ msg'[w] = msg[w]
        PROVE  IdOf(v)' = IdOf(v)
    BY <2>1, <2>2 DEF IdOf, EventOf
  <2>3. ASSUME NEW v \in Worker, v # w
        PROVE  Executing(v)' <=> Executing(v)
    BY <2>1, <2>3 DEF Executing
  <2>4. ASSUME NEW v \in Worker, Executing(v)
        PROVE  IdOf(v) \in DecisionId
    BY <2>4, EventTyped DEF Executing
  \* A holder other than w keeps its entry if the step leaves it alone.
  <2>5. ASSUME NEW v \in Worker, v # w, Executing(v)', "overrun" \notin faults'[IdOf(v)'],
               ledger'[IdOf(v)] = ledger[IdOf(v)]
        PROVE  ~LeaseLapsed(v, clock)' /\ Holds(v)'
    <3>1. Executing(v) /\ IdOf(v)' = IdOf(v) /\ "overrun" \notin faults[IdOf(v)]
      BY <2>1, <2>2, <2>3, <2>4, <2>5
    <3>2. ~LeaseLapsed(v, clock) /\ Holds(v)
      BY <3>1 DEF HolderInv
    <3>3. IdOf(v) \in DecisionId
      BY <2>4, <3>1
    <3>. QED  BY <2>1, <2>5, <3>1, <3>2, <3>3 DEF Holds, HasResult, LeaseLapsed
  <2>6. CASE Quiet(w)
    <3>1. HolderInv'
      BY <2>5, <2>6 DEF Quiet, HolderInv
    <3>2. MutualExclusion'
      BY <2>1, <2>2, <2>3, <2>4, <2>6 DEF Quiet, MutualExclusion
    <3>. QED  BY <3>1, <3>2
  <2>7. CASE Continues(w)
    <3>1. /\ Executing(w) /\ pc[w] # "failing" /\ Executing(w)' /\ IdOf(w)' = IdOf(w)
          /\ leaseFrom'[w] = leaseFrom[w] /\ ledger' = ledger /\ IdOf(w) \in DecisionId
      BY <2>2, <2>4, <2>7 DEF Continues
    <3>2. ASSUME "overrun" \notin faults'[IdOf(w)']
          PROVE  ~LeaseLapsed(w, clock)' /\ Holds(w)'
      <4>1. ~LeaseLapsed(w, clock) /\ Holds(w)
        BY <2>1, <3>1, <3>2 DEF HolderInv
      <4>. QED  BY <2>1, <3>1, <4>1 DEF Holds, LeaseLapsed
    <3>3. HolderInv'
      BY <2>5, <3>1, <3>2 DEF HolderInv
    <3>4. MutualExclusion'
      BY <2>1, <2>2, <2>3, <2>4, <3>1 DEF MutualExclusion
    <3>. QED  BY <3>3, <3>4
  <2>8. CASE Claims(w)
    <3>1. /\ ~Executing(w) /\ pc[w] # "idle" /\ SetExecuting(w)
          /\ ~HasResult(ledger[IdOf(w)]) /\ ~LeaseHeld(ledger[IdOf(w)], leaseFrom[w])
      BY <2>8 DEF Claims, Executing
    <3>2. IdOf(w) \in DecisionId
      BY <3>1, EventTyped
    <3>3. ASSUME NEW v \in Worker, Executing(v), IdOf(v) = IdOf(w)
          PROVE  "overrun" \in faults'[IdOf(w)]
      BY <2>1, <3>1, <3>2, <3>3, ClaimExcludesHolder
    <3>4. \A d \in DecisionId \ {IdOf(w)} : ledger'[d] = ledger[d]
      BY <3>1 DEF SetExecuting, TypeOK
    <3>5. /\ ledger'[IdOf(w)].status = "executing"
          /\ ledger'[IdOf(w)].lease = leaseFrom[w] + Lease
      BY <3>1, <3>2 DEF SetExecuting, TypeOK
    <3>6. ASSUME NEW v \in Worker, Executing(v)', "overrun" \notin faults'[IdOf(v)']
          PROVE  ~LeaseLapsed(v, clock)' /\ Holds(v)'
      <4>1. CASE v = w
        <5>1. /\ msg'[w] = msg[w] /\ leaseFrom'[w] = leaseFrom[w]
              /\ LeaseLapsed(w, clock) => "overrun" \in faults'[IdOf(w)]
          BY <2>8, <3>6, <4>1 DEF Claims, Executing
        <5>. QED  BY <2>1, <2>2, <3>5, <3>6, <4>1, <5>1 DEF Holds, LeaseLapsed
      <4>2. CASE v # w
        <5>1. Executing(v) /\ IdOf(v)' = IdOf(v) /\ IdOf(v) \in DecisionId
          BY <2>2, <2>3, <2>4, <3>6, <4>2
        <5>2. IdOf(v) # IdOf(w)
          BY <3>3, <3>6, <5>1
        <5>. QED  BY <2>5, <3>4, <3>6, <4>2, <5>1, <5>2
      <4>. QED  BY <4>1, <4>2
    <3>7. HolderInv'
      BY <3>6 DEF HolderInv
    <3>8. ASSUME NEW u \in Worker, NEW v \in Worker, u # v,
                 Executing(u)', Executing(v)', IdOf(u)' = IdOf(v)'
          PROVE  "overrun" \in faults'[IdOf(u)']
      <4>1. CASE u # w /\ v # w
        BY <2>1, <2>2, <2>3, <2>4, <3>8, <4>1 DEF MutualExclusion
      <4>2. CASE u = w \/ v = w
        <5>1. msg'[w] = msg[w]
          BY <2>8, <3>8, <4>2 DEF Claims, Executing
        <5>. QED  BY <2>2, <2>3, <3>3, <3>8, <4>2, <5>1
      <4>. QED  BY <4>1, <4>2
    <3>9. MutualExclusion'
      BY <3>8 DEF MutualExclusion
    <3>. QED  BY <3>7, <3>9
  <2>9. CASE Completes(w) \/ Fails(w)
    <3>1. Executing(w) /\ IdOf(w) \in DecisionId /\ (SetCompleted(w) \/ SetFailed(w))
      BY <2>4, <2>9 DEF Completes, Fails, Executing
    <3>2. \A d \in DecisionId \ {IdOf(w)} : ledger'[d] = ledger[d]
      BY <3>1 DEF SetCompleted, SetFailed, TypeOK
    <3>3. Executing(w)' => /\ pc'[w] = "failing" /\ msg'[w] = msg[w]
                           /\ leaseFrom'[w] = leaseFrom[w]
                           /\ "ledger-error" \in faults'[IdOf(w)]
                           /\ HasResult(ledger'[IdOf(w)])
      <4>1. CASE Fails(w)
        BY <4>1 DEF Fails, Executing
      <4>2. CASE Completes(w)
        <5>1. out[w] # NoOutcome
          BY <4>2 DEF Completes, TypeOK, Reporting
        <5>2. HasResult(ledger'[IdOf(w)])
          BY <3>1, <4>2, <5>1 DEF Completes, SetCompleted, HasResult, TypeOK
        <5>. QED  BY <4>2, <5>2 DEF Completes, Executing
      <4>. QED  BY <2>9, <4>1, <4>2
    <3>4. ASSUME NEW v \in Worker, Executing(v)', "overrun" \notin faults'[IdOf(v)']
          PROVE  ~LeaseLapsed(v, clock)' /\ Holds(v)'
      <4>1. CASE v = w
        <5>1. IdOf(w)' = IdOf(w) /\ "overrun" \notin faults[IdOf(w)]
          BY <2>1, <2>2, <3>1, <3>3, <3>4, <4>1
        <5>2. ~LeaseLapsed(w, clock)
          BY <3>1, <5>1 DEF HolderInv
        <5>. QED  BY <2>1, <3>3, <3>4, <4>1, <5>1, <5>2 DEF Holds, LeaseLapsed, HasResult
      <4>2. CASE v # w
        <5>1. Executing(v) /\ IdOf(v)' = IdOf(v) /\ IdOf(v) \in DecisionId
          BY <2>2, <2>3, <2>4, <3>4, <4>2
        <5>2. IdOf(v) # IdOf(w)
          BY <2>1, <3>1, <3>4, <4>2, <5>1 DEF MutualExclusion
        <5>. QED  BY <2>5, <3>2, <3>4, <4>2, <5>1, <5>2
      <4>. QED  BY <4>1, <4>2
    <3>5. HolderInv'
      BY <3>4 DEF HolderInv
    <3>6. MutualExclusion'
      BY <2>1, <2>2, <2>3, <2>4, <3>1, <3>3 DEF MutualExclusion
    <3>. QED  BY <3>5, <3>6
  <2>. QED  BY <1>2, <2>6, <2>7, <2>8, <2>9, StepKinds
<1>. QED  BY <1>1, <1>2, NextSplit

-----------------------------------------------------------------------------
(* Redelivery alone is safe *)

(* Nobody executes a decision that has a result and has met no fault.      *)
LEMMA ResultEndsExecution ==
    ASSUME HolderInv, NEW w \in Worker, faults[IdOf(w)] = {}, Executing(w)
    PROVE  ~HasResult(ledger[IdOf(w)])
<1>1. Holds(w)
  BY DEF HolderInv
<1>. QED  BY <1>1 DEF Holds, HasResult

(* Without a fault an entry keeps its result. *)
LEMMA ResultIsKept ==
    ASSUME TypeOK, HolderInv, [Next]_vars,
           NEW d \in DecisionId, faults'[d] = {}, HasResult(ledger[d])
    PROVE  ledger'[d] = ledger[d]
<1>1. CASE Environment \/ UNCHANGED vars
  BY <1>1, EnvironmentFrame
<1>2. ASSUME NEW w \in Worker, WorkerStep(w)
      PROVE  ledger'[d] = ledger[d]
  <2>1. faults[d] = {}
    BY <1>2, StepFrame DEF Frame
  <2>2. CASE Quiet(w) \/ Continues(w)
    BY <2>2 DEF Quiet, Continues
  <2>3. CASE Claims(w)
    BY <2>3 DEF Claims, SetExecuting, TypeOK
  <2>4. CASE Completes(w) \/ Fails(w)
    <3>1. Executing(w)
      BY <2>4 DEF Completes, Fails, Executing
    <3>2. IdOf(w) # d
      BY <2>1, <3>1, ResultEndsExecution
    <3>. QED  BY <2>4, <3>2 DEF Completes, Fails, SetCompleted, SetFailed, TypeOK
  <2>. QED  BY <1>2, <2>2, <2>3, <2>4, StepKinds
<1>. QED  BY <1>1, <1>2, NextSplit

(* A worker that has not yet completed a fault-free execution has not      *)
(* restarted anything, nor has anybody else.                               *)
LEMMA NoRestartBefore ==
    ASSUME TypeOK, HolderInv, MutualExclusion, OnceInv,
           NEW w \in Worker, faults[IdOf(w)] = {}, pc[w] \in {"calling", "failing"}
    PROVE  restarts[IdOf(w)] = 0 /\ late[IdOf(w)] = 0
<1>1. Executing(w) /\ IdOf(w) \in DecisionId
  BY EventTyped DEF Executing
<1>2. ~HasResult(ledger[IdOf(w)])
  BY <1>1, ResultEndsExecution
<1>3. ~\E v \in Worker : pc[v] = "completing" /\ IdOf(v) = IdOf(w)
  BY <1>1 DEF MutualExclusion, Executing
<1>4. restarts[IdOf(w)] \in Nat
  BY <1>1 DEF TypeOK
<1>. QED  BY <1>1, <1>2, <1>3, <1>4 DEF OnceInv

(* Which steps of a worker touch the restarts or end a completing worker.  *)
(* All the others are steps that keep OnceInv by keeping what it mentions. *)
Restarts(w) == McpAccepted(w)
Gambles(w) == McpTimeout(w) \/ CompleteError(w) \/ (Crash(w) /\ Executing(w))

LEMMA StepEffects ==
    ASSUME TypeOK, NEW w \in Worker, WorkerStep(w)
    PROVE  \/ Restarts(w)
           \/ Gambles(w)
           \/ CompleteExecution(w)
           \/ UNCHANGED <<restarts, late>> /\ pc[w] # "completing"
<1>. USE DEF queueVars, workerVars, effectVars
<1>1. CASE BeforeClaim(w)
  BY <1>1 DEF BeforeClaim, ReportTerminal, Block, Validate, ReadTime
<1>2. CASE Claim(w)
  BY <1>2 DEF Claim, ClaimCompleted, ClaimInProgress, ClaimLease, ClaimError
<1>3. CASE McpCall(w)
  BY <1>3 DEF McpCall, McpRejected, McpUnavailable, Restarts, Gambles
<1>4. CASE Finish(w)
  BY <1>4 DEF Finish, FailExecution, Publish, PublishError, Ack, Gambles
<1>5. CASE Crash(w)
  BY <1>5 DEF Crash, Gambles, Executing
<1>6. CASE \E m \in Message : Deliver(w, m)
  BY <1>6 DEF Deliver
<1>. QED  BY <1>1, <1>2, <1>3, <1>4, <1>5, <1>6 DEF WorkerStep, Work

LEMMA GamblesAreFaults ==
    ASSUME TypeOK, NEW w \in Worker, Gambles(w)
    PROVE  IdOf(w) \in DecisionId /\ faults'[IdOf(w)] # {}
<1>1. pc[w] # "idle"
  BY DEF Gambles, McpTimeout, CompleteError, Crash
<1>2. IdOf(w) \in DecisionId
  BY <1>1, EventTyped
<1>3. \E f \in Fault : Blame(IdOf(w), f)
  BY DEF Gambles, McpTimeout, CompleteError, Crash, Fault
<1>. QED  BY <1>2, <1>3 DEF Blame, TypeOK

(* One restart at most, as long as nothing has gone wrong. *)
LEMMA NextOnce ==
    ASSUME TypeOK, TypeOK', HolderInv, MutualExclusion, OnceInv, [Next]_vars
    PROVE  OnceInv'
<1>. SUFFICES ASSUME NEW d \in DecisionId, faults'[d] = {}
              PROVE  /\ late'[d] = 0
                     /\ restarts'[d] <= 1
                     /\ restarts'[d] = 1 =>
                           \/ HasResult(ledger'[d])
                           \/ \E v \in Worker : pc'[v] = "completing" /\ IdOf(v)' = d
  BY DEF OnceInv, HasResult
<1>. USE DEF queueVars, workerVars, effectVars
<1>1. CASE Environment \/ UNCHANGED vars
  <2>1. /\ UNCHANGED <<pc, msg, event, ledger>> /\ faults[d] = {}
    BY <1>1, EnvironmentFrame
  <2>2. late[d] = 0
    BY <2>1 DEF OnceInv
  <2>3. late'[d] = late[d] /\ restarts'[d] = restarts[d]
    BY <1>1, <2>2 DEF Environment, Tick, DeadLetter, LateRestart, vars, TypeOK
  <2>. QED  BY <2>1, <2>3 DEF OnceInv, HasResult, IdOf, EventOf
<1>2. ASSUME NEW w \in Worker, WorkerStep(w)
      PROVE  /\ late'[d] = 0
             /\ restarts'[d] <= 1
             /\ restarts'[d] = 1 =>
                   \/ HasResult(ledger'[d])
                   \/ \E v \in Worker : pc'[v] = "completing" /\ IdOf(v)' = d
  <2>1. /\ faults[d] = {} /\ event' = event
        /\ \A v \in Worker \ {w} : pc'[v] = pc[v] /\ msg'[v] = msg[v]
    BY <1>2, StepFrame DEF Frame
  <2>2. /\ late[d] = 0 /\ restarts[d] <= 1 /\ restarts[d] \in Nat
        /\ restarts[d] = 1 =>
              HasResult(ledger[d]) \/ \E v \in Worker : pc[v] = "completing" /\ IdOf(v) = d
    BY <2>1 DEF OnceInv, TypeOK
  <2>3. HasResult(ledger[d]) => HasResult(ledger'[d])
    BY ResultIsKept
  \* A completing worker other than w is still completing.
  <2>4. ASSUME NEW v \in Worker, v # w, pc[v] = "completing", IdOf(v) = d
        PROVE  pc'[v] = "completing" /\ IdOf(v)' = d
    BY <2>1, <2>4 DEF IdOf, EventOf
  <2>5. CASE Restarts(w)
    <3>1. pc[w] = "calling" /\ pc'[w] = "completing" /\ msg'[w] = msg[w]
      BY <2>5 DEF Restarts, McpAccepted, Goto, TypeOK
    <3>2. IdOf(w)' = IdOf(w) /\ IdOf(w) \in DecisionId
      BY <2>1, <3>1, EventTyped DEF IdOf, EventOf
    <3>3. late' = late /\ restarts' = [restarts EXCEPT ![IdOf(w)] = @ + 1]
      BY <2>5 DEF Restarts, McpAccepted
    <3>4. CASE IdOf(w) = d
      <4>1. restarts[d] = 0
        BY <2>1, <3>1, <3>4, NoRestartBefore
      <4>2. restarts'[d] = 1
        BY <3>3, <3>4, <4>1 DEF TypeOK
      <4>. QED  BY <2>2, <3>1, <3>2, <3>3, <3>4, <4>2
    <3>5. CASE IdOf(w) # d
      <4>1. restarts'[d] = restarts[d]
        BY <3>3, <3>5 DEF TypeOK
      <4>. QED  BY <2>2, <2>3, <2>4, <3>1, <3>3, <4>1
    <3>. QED  BY <3>4, <3>5
  <2>6. CASE Gambles(w)
    <3>1. IdOf(w) \in DecisionId /\ faults'[IdOf(w)] # {}
      BY <2>6, GamblesAreFaults
    <3>2. IdOf(w) # d
      BY <3>1
    <3>3. late'[d] = late[d] /\ restarts'[d] = restarts[d]
      BY <2>6, <3>2 DEF Gambles, McpTimeout, CompleteError, Crash, TypeOK
    <3>. QED  BY <2>2, <2>3, <2>4, <3>2, <3>3
  <2>7. CASE CompleteExecution(w)
    <3>1. UNCHANGED <<restarts, late>> /\ IdOf(w) \in DecisionId
      BY <2>7, EventTyped DEF CompleteExecution
    <3>2. HasResult(ledger'[IdOf(w)])
      BY <2>7, <3>1 DEF CompleteExecution, SetCompleted, HasResult, TypeOK, Reporting
    <3>. QED  BY <2>2, <2>3, <2>4, <3>1, <3>2
  <2>8. CASE UNCHANGED <<restarts, late>> /\ pc[w] # "completing"
    BY <2>2, <2>3, <2>4, <2>8
  <2>. QED  BY <1>2, <2>5, <2>6, <2>7, <2>8, StepEffects
<1>. QED  BY <1>1, <1>2, NextSplit

-----------------------------------------------------------------------------
(* What is executed and reported *)

(* An executable decision is an authorized one. *)
LEMMA ExecutableAuthorized ==
    ASSUME NEW e \in EventType, NEW now \in Nat, Executable(e, now)
    PROVE  Authorized(e)
BY DEF Executable, ModeAllows, Authorized, EventType, DecisionSource

(* Authorization reaches every restart. *)
LEMMA NextAuth ==
    ASSUME TypeOK, AuthInv, [Next]_vars
    PROVE  AuthInv'
<1>. USE DEF queueVars, workerVars, effectVars
<1>1. CASE Environment \/ UNCHANGED vars
  <2>1. UNCHANGED <<pc, msg, event>>
    BY <1>1, EnvironmentFrame
  <2>2. ASSUME NEW d \in DecisionId
        PROVE  restarts'[d] + late'[d] = restarts[d] + late[d]
    BY <1>1 DEF Environment, Tick, DeadLetter, LateRestart, vars, TypeOK
  <2>. QED
    BY <2>1, <2>2 DEF AuthInv, RestartAuthorized, Authorized, Executing, EventOf
<1>2. ASSUME NEW w \in Worker, WorkerStep(w)
      PROVE  AuthInv'
  <2>1. /\ event' = event /\ clock \in Nat
        /\ \A v \in Worker \ {w} : pc'[v] = pc[v] /\ msg'[v] = msg[v]
    BY <1>2, StepFrame DEF Frame, TypeOK
  <2>2. CASE Validate(w)
    <3>1. /\ pc' = [pc EXCEPT ![w] = "validated"] /\ UNCHANGED <<msg, restarts, late>>
          /\ pc[w] = "received" /\ Executable(EventOf(w), clock)
      BY <2>2 DEF Validate, Goto
    <3>2. Authorized(EventOf(w))
      BY <2>1, <3>1, EventTyped, ExecutableAuthorized
    <3>. QED
      BY <2>1, <3>1, <3>2
         DEF AuthInv, RestartAuthorized, Authorized, Executing, EventOf, TypeOK
  <2>3. CASE ~Validate(w)
    <3>1. Executing(w)' \/ pc'[w] \in {"validated", "claiming"} =>
            /\ Executing(w) \/ pc[w] \in {"validated", "claiming"}
            /\ msg'[w] = msg[w]
      BY <1>2, <2>3 DEF WorkerStep, Work, BeforeClaim, ReportTerminal, Block, ReadTime,
            Claim, ClaimCompleted, ClaimInProgress, ClaimLease, ClaimError,
            McpCall, McpAccepted, McpRejected, McpUnavailable, McpTimeout,
            Finish, CompleteExecution, CompleteError, FailExecution, Publish, PublishError,
            Ack, Crash, Deliver, Nack, Release, Goto, TypeOK, Executing
    <3>2. \A v \in Worker : Executing(v)' \/ pc'[v] \in {"validated", "claiming"} =>
              Authorized(EventOf(v))'
      BY <2>1, <3>1 DEF AuthInv, Authorized, Executing, EventOf
    <3>3. \/ UNCHANGED <<restarts, late>>
          \/ /\ pc[w] = "calling"
             /\ \A d \in DecisionId \ {IdOf(w)} :
                   restarts'[d] = restarts[d] /\ late'[d] = late[d]
      BY <1>2 DEF WorkerStep, Work, BeforeClaim, ReportTerminal, Block, Validate, ReadTime,
            Claim, ClaimCompleted, ClaimInProgress, ClaimLease, ClaimError,
            McpCall, McpAccepted, McpRejected, McpUnavailable, McpTimeout,
            Finish, CompleteExecution, CompleteError, FailExecution, Publish, PublishError,
            Ack, Crash, Deliver, TypeOK
    <3>4. ASSUME NEW d \in DecisionId, restarts'[d] + late'[d] > 0
          PROVE  \E m \in Message : event[m].id = d /\ Authorized(event[m])
      <4>1. CASE pc[w] = "calling" /\ IdOf(w) = d
        <5>1. msg[w] \in Message /\ Authorized(event[msg[w]]) /\ event[msg[w]].id = d
          BY <4>1, EventTyped DEF AuthInv, Executing, EventOf, IdOf
        <5>. QED  BY <5>1
      <4>2. CASE ~(pc[w] = "calling" /\ IdOf(w) = d)
        BY <3>3, <3>4, <4>2 DEF AuthInv, RestartAuthorized
      <4>. QED  BY <4>1, <4>2
    <3>. QED  BY <2>1, <3>2, <3>4 DEF AuthInv, RestartAuthorized, Authorized
  <2>. QED  BY <2>2, <2>3
<1>. QED  BY <1>1, <1>2, NextSplit

(* Restarts and publications are never taken back. *)
LEMMA Monotone ==
    ASSUME TypeOK, [Next]_vars, NEW d \in DecisionId
    PROVE  restarts'[d] >= restarts[d] /\ published[d] \subseteq published'[d]
<1>. USE DEF queueVars, workerVars, effectVars
<1>1. CASE Environment \/ UNCHANGED vars
  BY <1>1 DEF Environment, Tick, DeadLetter, LateRestart, vars, TypeOK
<1>2. ASSUME NEW w \in Worker, WorkerStep(w)
      PROVE  restarts'[d] >= restarts[d] /\ published[d] \subseteq published'[d]
  BY <1>2 DEF WorkerStep, Work, BeforeClaim, ReportTerminal, Block, Validate, ReadTime,
        Claim, ClaimCompleted, ClaimInProgress, ClaimLease, ClaimError,
        McpCall, McpAccepted, McpRejected, McpUnavailable, McpTimeout,
        Finish, CompleteExecution, CompleteError, FailExecution, Publish, PublishError,
        Ack, Crash, Deliver, TypeOK
<1>. QED  BY <1>1, <1>2, NextSplit

(* A worker that holds "executed" after a step held it before, restarted   *)
(* the deployment in that step, or read it from the ledger.                *)
LEMMA OutcomeOrigin ==
    ASSUME TypeOK, NEW w \in Worker, WorkerStep(w), out'[w] = "executed"
    PROVE  \/ /\ pc[w] # "idle" /\ pc'[w] # "idle" /\ msg'[w] = msg[w]
              /\ \/ out[w] = "executed"
                 \/ restarts' = [restarts EXCEPT ![IdOf(w)] = @ + 1]
                 \/ ledger[IdOf(w)].result = "executed"
           \/ pc[w] = "idle" /\ out[w] = "executed"
<1>. USE DEF queueVars, workerVars, effectVars
<1>1. CASE BeforeClaim(w)
  <2>1. TerminalOutcome(EventOf(w).decision) # "executed"
    BY DEF TerminalOutcome
  <2>. QED
    BY <1>1, <2>1 DEF BeforeClaim, ReportTerminal, Block, Validate, ReadTime, Goto, TypeOK
<1>2. CASE Claim(w)
  <2>1. CASE ClaimCompleted(w)
    BY <2>1 DEF ClaimCompleted, Goto, TypeOK
  <2>2. CASE ClaimInProgress(w) \/ ClaimError(w)
    BY <2>2 DEF ClaimInProgress, ClaimError, Nack, Release, NoOutcome, TypeOK
  <2>3. CASE ClaimLease(w)
    BY <2>3 DEF ClaimLease, Goto, TypeOK
  <2>. QED  BY <1>2, <2>1, <2>2, <2>3 DEF Claim
<1>3. CASE McpCall(w)
  BY <1>3 DEF McpCall, McpAccepted, McpRejected, McpUnavailable, McpTimeout, Goto, TypeOK
<1>4. CASE Finish(w)
  BY <1>4 DEF Finish, CompleteExecution, CompleteError, FailExecution, Publish,
              PublishError, Ack, Nack, Release, Goto, TypeOK, NoOutcome
<1>5. CASE Crash(w)
  BY <1>5 DEF Crash, Nack, Release, NoOutcome, TypeOK
<1>6. CASE \E m \in Message : Deliver(w, m)
  BY <1>6 DEF Deliver, Goto, TypeOK
<1>. QED  BY <1>1, <1>2, <1>3, <1>4, <1>5, <1>6 DEF WorkerStep, Work

(* Where an "executed" in the ledger or on the topic comes from. *)
LEMMA ReportOrigin ==
    ASSUME TypeOK, NEW w \in Worker, WorkerStep(w), NEW d \in DecisionId,
           "executed" \in published'[d] \cup {ledger'[d].result}
    PROVE  \/ "executed" \in published[d] \cup {ledger[d].result}
           \/ pc[w] # "idle" /\ IdOf(w) = d /\ out[w] = "executed"
<1>. USE DEF queueVars, workerVars, effectVars
<1>1. CASE BeforeClaim(w)
  BY <1>1 DEF BeforeClaim, ReportTerminal, Block, Validate, ReadTime
<1>2. CASE Claim(w)
  BY <1>2 DEF Claim, ClaimCompleted, ClaimInProgress, ClaimLease, ClaimError,
              SetExecuting, TypeOK
<1>3. CASE McpCall(w)
  BY <1>3 DEF McpCall, McpAccepted, McpRejected, McpUnavailable, McpTimeout
<1>4. CASE Finish(w)
  BY <1>4 DEF Finish, CompleteExecution, CompleteError, FailExecution, Publish,
              PublishError, Ack, SetCompleted, SetFailed, TypeOK
<1>5. CASE Crash(w)
  BY <1>5 DEF Crash
<1>6. CASE \E m \in Message : Deliver(w, m)
  BY <1>6 DEF Deliver
<1>. QED  BY <1>1, <1>2, <1>3, <1>4, <1>5, <1>6 DEF WorkerStep, Work

(* Reports stay truthful. *)
LEMMA NextTruth ==
    ASSUME TypeOK, TypeOK', TruthInv, [Next]_vars
    PROVE  TruthInv'
<1>0. \A d \in DecisionId : /\ restarts[d] \in Nat /\ restarts'[d] \in Nat
                            /\ restarts'[d] >= restarts[d]
  BY Monotone DEF TypeOK
<1>1. CASE Environment \/ UNCHANGED vars
  <2>1. UNCHANGED <<pc, msg, out, event, ledger, published>>
    BY <1>1, EnvironmentFrame
  <2>2. \A v \in Worker : pc[v] # "idle" => IdOf(v) \in DecisionId
    BY EventTyped
  <2>. QED  BY <1>0, <2>1, <2>2 DEF TruthInv, ReportIsTruthful, IdOf, EventOf
<1>2. ASSUME NEW w \in Worker, WorkerStep(w)
      PROVE  TruthInv'
  <2>1. /\ event' = event
        /\ \A v \in Worker \ {w} : /\ pc'[v] = pc[v] /\ msg'[v] = msg[v]
                                   /\ out'[v] = out[v]
    BY <1>2, StepFrame DEF Frame
  <2>2. \A v \in Worker : pc[v] # "idle" => IdOf(v) \in DecisionId
    BY EventTyped
  <2>3. ReportIsTruthful'
    BY <1>0, <1>2, ReportOrigin DEF ReportIsTruthful, TruthInv
  <2>4. ASSUME NEW v \in Worker, out'[v] = "executed"
        PROVE  pc'[v] # "idle" /\ restarts'[IdOf(v)'] > 0
    <3>1. CASE v # w
      BY <1>0, <2>1, <2>2, <2>4, <3>1 DEF TruthInv, IdOf, EventOf
    <3>2. CASE v = w
      <4>1. /\ pc[w] # "idle" /\ pc'[w] # "idle" /\ IdOf(w)' = IdOf(w)
            /\ \/ out[w] = "executed"
               \/ restarts' = [restarts EXCEPT ![IdOf(w)] = @ + 1]
               \/ ledger[IdOf(w)].result = "executed"
        BY <1>2, <2>1, <2>4, <3>2, OutcomeOrigin DEF TruthInv, IdOf, EventOf
      <4>2. CASE out[w] = "executed" \/ ledger[IdOf(w)].result = "executed"
        BY <1>0, <2>2, <3>2, <4>1, <4>2 DEF TruthInv, ReportIsTruthful
      <4>3. CASE restarts' = [restarts EXCEPT ![IdOf(w)] = @ + 1]
        BY <1>0, <2>2, <3>2, <4>1, <4>3 DEF TypeOK
      <4>. QED  BY <4>1, <4>2, <4>3
    <3>. QED  BY <3>1, <3>2
  <2>. QED  BY <2>3, <2>4 DEF TruthInv
<1>. QED  BY <1>1, <1>2, NextSplit

(* A message is acknowledged after its outcome was published. *)
LEMMA NextAck ==
    ASSUME TypeOK, AckInv, [Next]_vars
    PROVE  AckInv'
<1>0. \A d \in DecisionId : published[d] \subseteq published'[d]
  BY Monotone
<1>. USE DEF queueVars, workerVars, effectVars
<1>1. CASE Environment \/ UNCHANGED vars
  <2>1. UNCHANGED <<pc, msg, event, published>>
    BY <1>1, EnvironmentFrame
  <2>2. \A m \in Message : queue'[m] = "acked" => queue[m] = "acked"
    BY <1>1 DEF Environment, Tick, DeadLetter, LateRestart, vars, TypeOK
  <2>. QED  BY <2>1, <2>2 DEF AckInv, AckedIsReported, IdOf, EventOf
<1>2. ASSUME NEW w \in Worker, WorkerStep(w)
      PROVE  AckInv'
  <2>1. /\ event' = event
        /\ \A v \in Worker \ {w} : pc'[v] = pc[v] /\ msg'[v] = msg[v]
    BY <1>2, StepFrame DEF Frame
  <2>2. /\ \A v \in Worker : pc[v] # "idle" => IdOf(v) \in DecisionId /\ msg[v] \in Message
        /\ \A m \in Message : event[m].id \in DecisionId
    BY EventTyped DEF EventType
  <2>3. CASE Publish(w)
    <3>1. /\ UNCHANGED <<queue, msg>> /\ pc[w] # "idle"
          /\ published' = [published EXCEPT ![IdOf(w)] = @ \cup {out[w]}]
      BY <2>3 DEF Publish
    <3>2. published'[IdOf(w)] # {}
      BY <2>2, <3>1 DEF TypeOK
    <3>. QED
      BY <1>0, <2>1, <2>2, <3>1, <3>2 DEF AckInv, AckedIsReported, IdOf, EventOf
  <2>4. CASE Ack(w)
    <3>1. /\ pc[w] = "acking" /\ pc'[w] = "idle"
          /\ \A m \in Message \ {msg[w]} : queue'[m] = queue[m]
      BY <2>4 DEF Ack, Release, TypeOK
    <3>. QED
      BY <1>0, <2>1, <2>2, <3>1 DEF AckInv, AckedIsReported, IdOf, EventOf
  <2>5. CASE ~Publish(w) /\ ~Ack(w)
    <3>1. queue' = queue /\ pc'[w] # "acking"
      BY <1>2, <2>5 DEF WorkerStep, Work, BeforeClaim, ReportTerminal, Block, Validate,
            ReadTime, Claim, ClaimCompleted, ClaimInProgress, ClaimLease, ClaimError,
            McpCall, McpAccepted, McpRejected, McpUnavailable, McpTimeout,
            Finish, CompleteExecution, CompleteError, FailExecution, PublishError,
            Crash, Deliver, Nack, Release, Goto, TypeOK
    <3>. QED
      BY <1>0, <2>1, <2>2, <3>1 DEF AckInv, AckedIsReported, IdOf, EventOf
  <2>. QED  BY <2>3, <2>4, <2>5
<1>. QED  BY <1>1, <1>2, NextSplit

-----------------------------------------------------------------------------
(* What becomes of a report *)

LEMMA NextRecorded ==
    ASSUME TypeOK, HolderInv, OnceInv, RecordedInv, [Next]_vars
    PROVE  RecordedInv'
<1>. SUFFICES ASSUME NEW d \in DecisionId, faults'[d] = {}, restarts'[d] > 0
              PROVE  \/ Stored(d, "executed")'
                     \/ \E v \in Worker : /\ pc'[v] = "completing" /\ IdOf(v)' = d
                                         /\ out'[v] = "executed"
  BY DEF RecordedInv, Stored, HasResult
<1>. USE DEF queueVars, workerVars, effectVars
<1>1. CASE Environment \/ UNCHANGED vars
  <2>1. UNCHANGED <<pc, msg, out, event, ledger>> /\ faults[d] = {}
    BY <1>1, EnvironmentFrame
  <2>2. late[d] = 0
    BY <2>1 DEF OnceInv
  <2>3. restarts'[d] = restarts[d]
    BY <1>1, <2>2 DEF Environment, Tick, DeadLetter, LateRestart, vars, TypeOK
  <2>. QED  BY <2>1, <2>3 DEF RecordedInv, Stored, HasResult, IdOf, EventOf
<1>2. ASSUME NEW w \in Worker, WorkerStep(w)
      PROVE  \/ Stored(d, "executed")'
             \/ \E v \in Worker : /\ pc'[v] = "completing" /\ IdOf(v)' = d
                                 /\ out'[v] = "executed"
  <2>1. /\ faults[d] = {} /\ event' = event
        /\ \A v \in Worker \ {w} : pc'[v] = pc[v] /\ msg'[v] = msg[v] /\ out'[v] = out[v]
    BY <1>2, StepFrame DEF Frame
  <2>2. CASE Stored(d, "executed")
    BY <2>2, ResultIsKept DEF Stored, HasResult
  <2>3. ASSUME NEW v \in Worker \ {w}, pc[v] = "completing", IdOf(v) = d,
               out[v] = "executed"
        PROVE  pc'[v] = "completing" /\ IdOf(v)' = d /\ out'[v] = "executed"
    BY <2>1, <2>3 DEF IdOf, EventOf
  <2>4. CASE pc[w] = "completing" /\ IdOf(w) = d /\ out[w] = "executed"
    <3>1. ~Restarts(w)
      BY <2>4 DEF Restarts, McpAccepted
    <3>2. ~Gambles(w)
      BY <2>4, GamblesAreFaults
    <3>3. CompleteExecution(w)
      BY <1>2, <2>4, <3>1, <3>2, StepEffects
    <3>4. Stored(d, "executed")'
      BY <2>4, <3>3 DEF CompleteExecution, SetCompleted, Stored, HasResult, TypeOK, NoOutcome
    <3>. QED  BY <3>4
  <2>5. CASE restarts[d] = 0
    <3>1. Restarts(w)
      BY <1>2, <2>5, StepEffects
         DEF Gambles, McpTimeout, CompleteError, CompleteExecution, Crash
    <3>2. IdOf(w) = d
      BY <2>5, <3>1 DEF Restarts, McpAccepted, TypeOK
    <3>3. /\ pc'[w] = "completing" /\ out'[w] = "executed" /\ msg'[w] = msg[w]
      BY <3>1 DEF Restarts, McpAccepted, Goto, TypeOK
    <3>. QED  BY <2>1, <3>2, <3>3 DEF IdOf, EventOf
  <2>6. restarts[d] > 0 \/ restarts[d] = 0
    BY DEF TypeOK
  <2>. QED  BY <2>1, <2>2, <2>3, <2>4, <2>5, <2>6 DEF RecordedInv
<1>. QED  BY <1>1, <1>2, NextSplit

(* What is not executable does not become so with time, and a stored       *)
(* result stays.                                                           *)
LEMMA JustifiedStays ==
    ASSUME TypeOK, TypeOK', HolderInv, [Next]_vars, NEW e \in EventType, NEW o,
           faults'[e.id] = {}, Justified(e, o)
    PROVE  Justified(e, o)'
<1>1. /\ clock \in Nat /\ clock' \in Nat /\ clock <= clock'
      /\ e.id \in DecisionId /\ e.expires \in Nat
  BY EnvironmentFrame, StepFrame, NextSplit DEF TypeOK, Frame, EventType
<1>2. ASSUME ~Executable(e, clock) PROVE ~Executable(e, clock')
  BY <1>1, <1>2 DEF Executable
<1>3. ASSUME Stored(e.id, o) PROVE Stored(e.id, o)'
  BY <1>1, <1>3, ResultIsKept DEF Stored, HasResult
<1>. QED  BY <1>2, <1>3 DEF Justified, Executable, ModeAllows

(* How a worker comes to a report. *)
LEMMA PublishingOrigin ==
    ASSUME TypeOK, NEW w \in Worker, WorkerStep(w), pc'[w] \in {"publishing", "acking"}
    PROVE  /\ pc[w] # "idle" /\ msg'[w] = msg[w]
           /\ \/ pc[w] \in {"publishing", "acking"} /\ out'[w] = out[w]
              \/ EventOf(w).decision # "PERMIT"
              \/ out'[w] = "execution-blocked" /\ ~Executable(EventOf(w), clock)
              \/ HasResult(ledger'[IdOf(w)]) /\ ledger'[IdOf(w)].result = out'[w]
           /\ pc'[w] = "acking" => out'[w] \in published'[IdOf(w)]
<1>. USE DEF queueVars, workerVars, effectVars
<1>0. pc[w] # "idle" => IdOf(w) \in DecisionId
  BY EventTyped
<1>1. CASE BeforeClaim(w)
  BY <1>1 DEF BeforeClaim, ReportTerminal, Block, Validate, ReadTime, Goto, TypeOK
<1>2. CASE Claim(w)
  BY <1>2 DEF Claim, ClaimCompleted, ClaimInProgress, ClaimLease, ClaimError, Nack,
              Release, Goto, TypeOK
<1>3. CASE McpCall(w)
  BY <1>3 DEF McpCall, McpAccepted, McpRejected, McpUnavailable, McpTimeout, Goto, TypeOK
<1>4. CASE CompleteExecution(w)
  <2>1. HasResult(ledger'[IdOf(w)]) /\ ledger'[IdOf(w)].result = out[w]
    BY <1>0, <1>4 DEF CompleteExecution, SetCompleted, HasResult, TypeOK, Reporting
  <2>. QED  BY <1>4, <2>1 DEF CompleteExecution, Goto, TypeOK
<1>5. CASE Publish(w)
  BY <1>0, <1>5 DEF Publish, Goto, TypeOK
<1>6. CASE Finish(w) /\ ~CompleteExecution(w) /\ ~Publish(w)
  BY <1>6 DEF Finish, CompleteError, FailExecution, PublishError, Ack, Nack, Release, Goto,
              TypeOK
<1>7. CASE Crash(w)
  BY <1>7 DEF Crash, Nack, Release, TypeOK
<1>8. CASE \E m \in Message : Deliver(w, m)
  BY <1>8 DEF Deliver, Goto, TypeOK
<1>. QED
  BY <1>1, <1>2, <1>3, <1>4, <1>5, <1>6, <1>7, <1>8 DEF WorkerStep, Work

LEMMA NextReport ==
    ASSUME TypeOK, TypeOK', HolderInv, ReportInv, [Next]_vars
    PROVE  ReportInv'
<1>. USE DEF queueVars, workerVars, effectVars
<1>1. /\ \A d \in DecisionId : published[d] \subseteq published'[d]
      /\ \A d \in DecisionId : faults[d] \subseteq faults'[d]
      /\ event' = event
  BY Monotone, EnvironmentFrame, StepFrame, NextSplit DEF Frame
<1>2. /\ \A m \in Message : event[m] \in EventType /\ event[m].id \in DecisionId
      /\ \A w \in Worker : pc[w] # "idle" =>
            /\ msg[w] \in Message /\ EventOf(w) = event[msg[w]]
            /\ IdOf(w) = event[msg[w]].id
  BY EventTyped DEF EventType, IdOf, EventOf
<1>3. ASSUME NEW m \in Message, NEW o, faults'[event[m].id] = {}, Justified(event[m], o)
      PROVE  Justified(event[m], o)'
  <2>1. PICK e \in EventType : e = event[m]
    BY <1>2
  <2>2. Justified(e, o)'
    BY <1>3, <2>1, JustifiedStays
  <2>. QED  BY <1>1, <2>1, <2>2 DEF Justified, Executable, ModeAllows, Stored, HasResult
\* What was settled stays so.
<1>4. ASSUME NEW m \in Message, AckedWell(m) PROVE AckedWell(m)'
  <2>1. ASSUME event[m].decision = "PERMIT", faults'[event[m].id] = {}
        PROVE  \E o \in published'[event[m].id] : Justified(event[m], o)'
    <3>1. faults[event[m].id] = {}
      BY <1>1, <1>2, <2>1
    <3>2. PICK o \in published[event[m].id] : Justified(event[m], o)
      BY <1>4, <2>1, <3>1 DEF AckedWell
    <3>. QED  BY <1>1, <1>2, <1>3, <2>1, <3>2
  <2>. QED  BY <1>1, <2>1 DEF AckedWell, Justified, Executable, ModeAllows, Stored, HasResult
\* A worker that goes on with the outcome it had.
<1>5. ASSUME NEW w \in Worker, pc[w] \in {"publishing", "acking"}, Reports(w),
             msg'[w] = msg[w], out'[w] = out[w],
             pc'[w] = "acking" => pc[w] = "acking" \/ out[w] \in published'[IdOf(w)]
      PROVE  Reports(w)'
  <2>1. PICK m \in Message : m = msg[w]
    BY <1>2, <1>5
  <2>2. PICK o : o = out[w]
    OBVIOUS
  <2>3. EventOf(w) = event[m] /\ IdOf(w) = event[m].id
    BY <1>2, <1>5, <2>1
  <2>4. EventOf(w)' = event'[m] /\ IdOf(w)' = event[m].id /\ out'[w] = o
    BY <1>1, <1>5, <2>1, <2>2 DEF EventOf, IdOf
  <2>5. ASSUME event[m].decision = "PERMIT", faults'[event[m].id] = {}
        PROVE  Justified(event[m], o)'
    BY <1>1, <1>2, <1>3, <1>5, <2>2, <2>3, <2>5 DEF Reports
  <2>6. Justified(EventOf(w), out[w])' <=> Justified(event[m], o)'
    BY <2>4 DEF Justified, Executable, ModeAllows, Stored, HasResult
  <2>7. pc'[w] = "acking" => out'[w] \in published'[IdOf(w)']
    BY <1>1, <1>2, <1>5, <2>2, <2>3, <2>4 DEF Reports
  <2>. QED  BY <1>1, <2>4, <2>5, <2>6, <2>7 DEF Reports
<1>6. CASE Environment \/ UNCHANGED vars
  <2>1. UNCHANGED <<pc, msg, out, event>>
    BY <1>6, EnvironmentFrame
  <2>2. \A m \in Message : queue'[m] = "acked" => queue[m] = "acked"
    BY <1>6 DEF Environment, Tick, DeadLetter, LateRestart, vars, TypeOK
  <2>3. \A w \in Worker : pc'[w] \in {"publishing", "acking"} => Reports(w)'
    BY <1>5, <2>1 DEF ReportInv
  <2>4. \A m \in Message : queue'[m] = "acked" => AckedWell(m)'
    BY <1>4, <2>2 DEF ReportInv
  <2>. QED  BY <2>3, <2>4 DEF ReportInv
<1>7. ASSUME NEW w \in Worker, WorkerStep(w)
      PROVE  ReportInv'
  <2>1. \A v \in Worker \ {w} : pc'[v] = pc[v] /\ msg'[v] = msg[v] /\ out'[v] = out[v]
    BY <1>7, StepFrame DEF Frame
  <2>2. ASSUME NEW v \in Worker \ {w}, pc'[v] \in {"publishing", "acking"}
        PROVE  Reports(v)'
    BY <1>5, <2>1, <2>2 DEF ReportInv
  <2>3. ASSUME pc'[w] \in {"publishing", "acking"} PROVE Reports(w)'
    <3>1. /\ pc[w] # "idle" /\ msg'[w] = msg[w]
          /\ pc'[w] = "acking" => out'[w] \in published'[IdOf(w)]
      BY <1>7, <2>3, PublishingOrigin
    <3>2. CASE pc[w] \in {"publishing", "acking"} /\ out'[w] = out[w]
      BY <1>5, <3>1, <3>2 DEF ReportInv
    <3>3. CASE \/ EventOf(w).decision # "PERMIT"
               \/ out'[w] = "execution-blocked" /\ ~Executable(EventOf(w), clock)
               \/ HasResult(ledger'[IdOf(w)]) /\ ledger'[IdOf(w)].result = out'[w]
      <4>1. EventOf(w)' = EventOf(w) /\ IdOf(w)' = IdOf(w) /\ clock' = clock
        BY <1>1, <1>7, <3>1, StepFrame DEF EventOf, IdOf, Frame
      <4>. QED
        BY <3>1, <3>3, <4>1
           DEF Reports, Justified, Stored, HasResult, Executable, ModeAllows, IdOf
    <3>. QED  BY <1>7, <2>3, <3>2, <3>3, PublishingOrigin
  <2>4. ASSUME NEW m \in Message, queue'[m] = "acked" PROVE AckedWell(m)'
    <3>1. CASE queue[m] = "acked"
      BY <1>4, <3>1 DEF ReportInv
    <3>2. CASE queue[m] # "acked"
      <4>1. Ack(w) /\ msg[w] = m
        BY <1>7, <2>4, <3>2
           DEF WorkerStep, Work, BeforeClaim, ReportTerminal, Block, Validate, ReadTime,
               Claim, ClaimCompleted, ClaimInProgress, ClaimLease, ClaimError, McpCall,
               McpAccepted, McpRejected, McpUnavailable, McpTimeout, Finish,
               CompleteExecution, CompleteError, FailExecution, Publish, PublishError,
               Ack, Crash, Deliver, Nack, TypeOK
      <4>2. Reports(w) /\ EventOf(w) = event[m] /\ IdOf(w) = event[m].id
            /\ out[w] \in published[event[m].id]
        BY <1>2, <4>1 DEF Ack, ReportInv, Reports
      <4>3. AckedWell(m)
        BY <4>2 DEF AckedWell, Reports
      <4>. QED  BY <1>4, <4>3
    <3>. QED  BY <3>1, <3>2
  <2>. QED  BY <2>2, <2>3, <2>4 DEF ReportInv
<1>. QED  BY <1>6, <1>7, NextSplit

-----------------------------------------------------------------------------
(* The theorems *)

(* The initial states satisfy the invariant. *)
LEMMA InitIInv == Init => IInv
<1>. SUFFICES ASSUME Init
              PROVE  IInv
  OBVIOUS
<1>1. TypeOK
  BY InitTypeOK
<1>2. ClockInv /\ HolderInv /\ MutualExclusion
  BY DEF Init, ClockInv, HolderInv, MutualExclusion, Executing
<1>3. OnceInv
  BY DEF Init, OnceInv
<1>4. AuthInv
  BY DEF Init, AuthInv, RestartAuthorized, Executing
<1>5. TruthInv
  BY DEF Init, TruthInv, ReportIsTruthful, NoOutcome
<1>6. AckInv
  BY DEF Init, AckInv, AckedIsReported
<1>7. RecordedInv /\ ReportInv
  BY DEF Init, RecordedInv, ReportInv
<1>. QED  BY <1>1, <1>2, <1>3, <1>4, <1>5, <1>6, <1>7 DEF IInv

(* Every step keeps the invariant. *)
LEMMA NextIInv == IInv /\ [Next]_vars => IInv'
<1>. SUFFICES ASSUME IInv, [Next]_vars
              PROVE  IInv'
  OBVIOUS
<1>1. TypeOK'
  BY NextTypeOK DEF IInv
<1>2. ClockInv'
  BY NextClock DEF IInv
<1>3. HolderInv' /\ MutualExclusion'
  BY <1>1, NextHolder DEF IInv
<1>4. OnceInv'
  BY <1>1, NextOnce DEF IInv
<1>5. AuthInv'
  BY NextAuth DEF IInv
<1>6. TruthInv'
  BY <1>1, NextTruth DEF IInv
<1>7. AckInv'
  BY NextAck DEF IInv
<1>8. RecordedInv' /\ ReportInv'
  BY <1>1, NextRecorded, NextReport DEF IInv
<1>. QED  BY <1>1, <1>2, <1>3, <1>4, <1>5, <1>6, <1>7, <1>8 DEF IInv

(* IInv is an invariant of the remediation agent. *)
THEOREM Invariance == Spec => []IInv
<1>. QED  BY InitIInv, NextIInv, PTL DEF Spec

(* Within leases, at most one worker executes a decision: claim_execution. *)
THEOREM MutualExclusionHolds == Spec => []MutualExclusion
<1>1. IInv => MutualExclusion
  BY DEF IInv
<1>. QED  BY <1>1, Invariance, PTL

(* Redelivery, duplicates and clean failures never restart a deployment    *)
(* twice for one decision.                                                 *)
THEOREM RedeliveryAloneIsSafeHolds == Spec => []RedeliveryAloneIsSafe
<1>1. IInv => RedeliveryAloneIsSafe
  BY DEF IInv, OnceInv, TypeOK, RedeliveryAloneIsSafe
<1>. QED  BY <1>1, Invariance, PTL

(* Every restart was authorized: validate_governance_decision. *)
THEOREM RestartAuthorizedHolds == Spec => []RestartAuthorized
<1>1. IInv => RestartAuthorized
  BY DEF IInv, AuthInv
<1>. QED  BY <1>1, Invariance, PTL

(* What is reported as executed was executed. *)
THEOREM ReportIsTruthfulHolds == Spec => []ReportIsTruthful
<1>1. IInv => ReportIsTruthful
  BY DEF IInv, TruthInv
<1>. QED  BY <1>1, Invariance, PTL

(* No message is acknowledged before an outcome is published.              *)
THEOREM AckedIsReportedHolds == Spec => []AckedIsReported
<1>1. IInv => AckedIsReported
  BY DEF IInv, AckInv
<1>. QED  BY <1>1, Invariance, PTL

(* process 310-355, agent_runtime 166-167: what was executed without a     *)
(* fault, and all of whose messages are acknowledged, was reported as      *)
(* executed, or as blocked because the decision had expired by then.       *)
THEOREM ReportLostOnlyByExpiryHolds == Spec => []ReportLostOnlyByExpiry
<1>1. IInv => ReportLostOnlyByExpiry
  <2> SUFFICES ASSUME IInv, NEW d \in DecisionId, Settled(d), faults[d] = {},
                      restarts[d] > 0
               PROVE  \/ "executed" \in published[d]
                      \/ /\ "execution-blocked" \in published[d]
                         /\ \E m \in Message : event[m].id = d /\ event[m].expires <= clock
    BY DEF ReportLostOnlyByExpiry
  <2>. USE DEF IInv
  <2>1. PICK m \in Message : event[m].id = d /\ Authorized(event[m])
    BY DEF AuthInv, RestartAuthorized, TypeOK
  <2>2. Stored(d, "executed")
    BY DEF RecordedInv, Settled
  <2>3. PICK o \in published[d] : Justified(event[m], o)
    BY <2>1 DEF ReportInv, AckedWell, Authorized, Settled
  <2>4. CASE Stored(d, o)
    BY <2>2, <2>3, <2>4 DEF Stored
  <2>5. CASE o = "execution-blocked" /\ ~Executable(event[m], clock)
    <3>1. event[m] \in EventType /\ event[m].expires \in Nat /\ clock \in Nat
      BY EventTyped DEF EventType, TypeOK
    <3>2. event[m].expires <= clock
      BY <2>1, <2>5, <3>1 DEF Executable, ModeAllows, Authorized, EventType, DecisionSource
    <3>. QED  BY <2>1, <2>3, <2>5, <3>2
  <2>. QED  BY <2>1, <2>3, <2>4, <2>5 DEF Justified
<1>. QED  BY <1>1, Invariance, PTL

(* Without a fault, a stored result is never changed or taken away.        *)
THEOREM CompletedIsFinalHolds == Spec => CompletedIsFinal
<1>1. IInv /\ [Next]_vars =>
        [\A d \in DecisionId :
            faults'[d] = {} /\ HasResult(ledger[d]) => ledger'[d] = ledger[d]]_vars
  BY ResultIsKept DEF IInv
<1>. QED  BY <1>1, Invariance, PTL DEF Spec, CompletedIsFinal
=============================================================================
