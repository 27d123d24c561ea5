------------------------- MODULE ReportingAgentProofs -------------------------
(***************************************************************************)
(* AgentRuntime implements AtLeastOnce, for any messages, any number of    *)
(* outputs and callbacks and any bounds.  The reporting agent is a         *)
(* refinement of the runtime it runs in, so that what the runtime promises *)
(* holds of it; and a failed notification is on record whenever its        *)
(* message was acknowledged.                                               *)
(***************************************************************************)
EXTENDS ReportingAgent, FiniteSetTheorems, TLAPS

-----------------------------------------------------------------------------
(* Types of AgentRuntime *)

(* The flags are apart from the rest of TypeOK, for the provers' sake. *)
FlagsOK ==
    /\ stop \in BOOLEAN /\ early \in BOOLEAN
    /\ started \in BOOLEAN /\ ready \in BOOLEAN /\ stopped \in BOOLEAN

ThreadsOK ==
    /\ main \in MainLocation
    /\ stream \in {"none", "open", "cancelled", "failed", "closed"}
    /\ pc \in [Callback -> {"idle", "handling", "publishing", "failed", "leaving"}]
    /\ msg \in [Callback -> Message \cup {NoMessage}]
    /\ sent \in [Callback -> Nat]
    /\ status \in [Message -> {"pending", "acked", "dead-lettered"}]
    /\ attempts \in [Message -> Nat]
    /\ emitted \in [Message -> SUBSET Nat]
    /\ starts \in Nat /\ signals \in Nat /\ breaks \in Nat
    /\ \A c \in Callback : pc[c] = "idle" <=> msg[c] = NoMessage
    /\ main \in FutureUnset \ {"opening"} => stream = "none"

LEMMA TypeParts == TypeOK <=> FlagsOK /\ ThreadsOK
  BY DEF TypeOK, FlagsOK, ThreadsOK

LEMMA InitType == Init => TypeOK
<1>1. Init => FlagsOK
  BY DEF Init, FlagsOK
<1>2. Init => ThreadsOK
  BY RuntimeAssumption DEF Init, ThreadsOK, MainLocation, FutureUnset
<1>. QED  BY <1>1, <1>2, TypeParts

LEMMA MainType == TypeOK /\ Main => TypeOK'
<1> SUFFICES ASSUME TypeOK, Main PROVE TypeOK'
  OBVIOUS
<1>. USE DEF TypeOK, MainStep, MainLocation, FutureUnset, callbackVars, queueVars,
             boundVars
<1>1. CASE \/ InstallHandlers \/ StartHealthServer \/ Subscribe \/ SubscribeFails \/ AssignFuture
  BY <1>1 DEF InstallHandlers, StartHealthServer, Subscribe, SubscribeFails, AssignFuture
<1>2. CASE MarkStarted \/ MarkReady \/ ResultReturns \/ ResultRaises
  BY <1>2 DEF MarkStarted, MarkReady, ResultReturns, ResultRaises
<1>3. CASE Unmark \/ Unready \/ CloseSubscriber \/ StopPublisher
  BY <1>3 DEF Unmark, Unready, CloseSubscriber, StopPublisher
<1>. QED  BY <1>1, <1>2, <1>3 DEF Main

LEMMA ProcessType == TypeOK /\ (Signal \/ StreamBreaks \/ Exit \/ Kill) => TypeOK'
<1> SUFFICES ASSUME TypeOK, Signal \/ StreamBreaks \/ Exit \/ Kill PROVE TypeOK'
  OBVIOUS
<1>0. FlagsOK /\ ThreadsOK
  BY TypeParts
<1>1. CASE Signal
  <2>1. FlagsOK'
    BY <1>0, <1>1 DEF Signal, FlagsOK
  <2>2. ThreadsOK'
    BY <1>0, <1>1 DEF Signal, ThreadsOK, callbackVars, queueVars
  <2>. QED  BY <2>1, <2>2 DEF TypeOK, FlagsOK, ThreadsOK
<1>2. CASE StreamBreaks
  <2>1. FlagsOK'
    BY <1>0, <1>2 DEF StreamBreaks, FlagsOK
  <2>2. ThreadsOK'
    BY <1>0, <1>2 DEF StreamBreaks, ThreadsOK, callbackVars, queueVars
  <2>. QED  BY <2>1, <2>2 DEF TypeOK, FlagsOK, ThreadsOK
<1>3. CASE Exit \/ Kill
  <2>1. FlagsOK'
    BY <1>0, <1>3 DEF Exit, Kill, Boot, FlagsOK
  <2>2. ThreadsOK'
    BY <1>0, <1>3, RuntimeAssumption DEF Exit, Kill, Boot, ThreadsOK, MainLocation, FutureUnset, queueVars
  <2>. QED  BY <2>1, <2>2 DEF TypeOK, FlagsOK, ThreadsOK
<1>. QED  BY <1>1, <1>2, <1>3

LEMMA CallbackType ==
  ASSUME TypeOK, NEW c \in Callback, Work(c) \/ \E m \in Message : Deliver(c, m)
  PROVE  TypeOK'
<1>. USE RuntimeAssumption DEF TypeOK, CallbackStep, mainVars, queueVars, boundVars
<1>1. ASSUME NEW m \in Message, Deliver(c, m) PROVE TypeOK'
  BY <1>1 DEF Deliver
<1>2. CASE Process(c) \/ Nack(c) \/ Leave(c)
  BY <1>2 DEF Process, Nack, Leave
<1>3. CASE Publish(c)
  <2>1. msg[c] \in Message /\ sent[c] + 1 \in Nat
    BY <1>3 DEF Publish
  <2>. QED  BY <1>3, <2>1 DEF Publish
<1>4. CASE PublishError(c)
  <2>1. msg[c] \in Message /\ sent[c] + 1 \in Nat
    BY <1>4 DEF PublishError
  <2>. QED  BY <1>4, <2>1 DEF PublishError
<1>5. CASE Ack(c)
  BY <1>5 DEF Ack
<1>. QED  BY <1>1, <1>2, <1>3, <1>4, <1>5 DEF Work

LEMMA StepType == TypeOK /\ [Next]_vars => TypeOK'
<1> SUFFICES ASSUME TypeOK, [Next]_vars PROVE TypeOK'
  OBVIOUS
<1>1. CASE UNCHANGED vars
  BY <1>1 DEF vars, mainVars, callbackVars, queueVars, boundVars, TypeOK
<1>2. ASSUME NEW m \in Message, DeadLetter(m) PROVE TypeOK'
  BY <1>2 DEF DeadLetter, mainVars, callbackVars, boundVars, TypeOK
<1>. QED  BY <1>1, <1>2, MainType, ProcessType, CallbackType DEF Next

-----------------------------------------------------------------------------
(* The promise *)

(* What a callback has published of its message is on the topic. *)
PrefixInv ==
    /\ \A m \in Message : emitted[m] \subseteq 1 .. Outputs[m]
    /\ \A c \in Callback : pc[c] = "handling" => sent[c] = 0
    /\ \A c \in Callback : pc[c] = "publishing" =>
          sent[c] <= Outputs[msg[c]] /\ 1 .. sent[c] \subseteq emitted[msg[c]]

RInv == TypeOK /\ PrefixInv

LEMMA InitPrefix == Init => PrefixInv
  BY DEF Init, PrefixInv

(* The step that a callback takes is one of AtLeastOnce. *)
LEMMA StepPromise ==
  RInv /\ [Next]_vars => PrefixInv' /\ [Promise!Next]_<<status, emitted>>
<1> SUFFICES ASSUME RInv, [Next]_vars
             PROVE  PrefixInv' /\ [Promise!Next]_<<status, emitted>>
  OBVIOUS
<1>0. TypeOK /\ PrefixInv /\ TypeOK'
  BY StepType DEF RInv
<1>. USE RuntimeAssumption DEF CallbackStep, queueVars
<1>1. CASE UNCHANGED vars
  BY <1>0, <1>1 DEF vars, callbackVars, PrefixInv
<1>2. CASE Main \/ Signal \/ StreamBreaks
  BY <1>0, <1>2 DEF Main, InstallHandlers, StartHealthServer, Subscribe, SubscribeFails, AssignFuture,
     MarkStarted, MarkReady, ResultReturns, ResultRaises, Unmark, Unready,
     CloseSubscriber, StopPublisher, MainStep, Signal, StreamBreaks, callbackVars, PrefixInv
<1>3. CASE Exit \/ Kill
  BY <1>0, <1>3 DEF Exit, Kill, Boot, PrefixInv
<1>4. ASSUME NEW m \in Message, DeadLetter(m)
      PROVE  PrefixInv' /\ Promise!Next
  BY <1>0, <1>4 DEF DeadLetter, callbackVars, PrefixInv, TypeOK, Promise!Next, Promise!GiveUp
<1>5. ASSUME NEW c \in Callback,
             Process(c) \/ Nack(c) \/ Leave(c) \/ \E m \in Message : Deliver(c, m)
      PROVE  PrefixInv' /\ UNCHANGED <<status, emitted>>
  <2>0. /\ pc \in [Callback -> {"idle", "handling", "publishing", "failed", "leaving"}]
        /\ msg \in [Callback -> Message \cup {NoMessage}]
        /\ sent \in [Callback -> Nat]
    BY <1>0 DEF TypeOK
  <2>1. CASE Process(c)
    <3>1. PICK l \in {"publishing", "failed"} : pc' = [pc EXCEPT ![c] = l]
      BY <2>1 DEF Process
    <3>2. UNCHANGED <<msg, sent, status, emitted>> /\ sent[c] = 0
      BY <1>0, <2>1 DEF Process, PrefixInv
    <3>3. pc[c] = "handling" => msg[c] \in Message
      BY <1>0, <2>0 DEF TypeOK
    <3>4. 0 <= Outputs[msg[c]] /\ 1 .. 0 = {}
      BY <2>1, <3>3 DEF Process
    <3>5. /\ pc'[c] = l /\ msg'[c] = msg[c] /\ sent'[c] = 0
          /\ \A d \in Callback \ {c} :
                pc'[d] = pc[d] /\ msg'[d] = msg[d] /\ sent'[d] = sent[d]
      BY <2>0, <3>1, <3>2
    <3>. QED  BY <1>0, <3>2, <3>4, <3>5 DEF PrefixInv
  <2>2. CASE Nack(c) \/ Leave(c)
    <3>1. /\ UNCHANGED <<sent, status, emitted>> /\ pc'[c] \notin {"handling", "publishing"}
          /\ \A d \in Callback \ {c} : pc'[d] = pc[d] /\ msg'[d] = msg[d]
      BY <2>0, <2>2 DEF Nack, Leave
    <3>. QED  BY <1>0, <3>1 DEF PrefixInv
  <2>3. ASSUME NEW m \in Message, Deliver(c, m)
        PROVE  PrefixInv' /\ UNCHANGED <<status, emitted>>
    <3>1. /\ UNCHANGED <<status, emitted>>
          /\ pc'[c] = "handling" /\ msg'[c] = m /\ sent'[c] = 0
          /\ \A d \in Callback \ {c} :
                pc'[d] = pc[d] /\ msg'[d] = msg[d] /\ sent'[d] = sent[d]
      BY <2>0, <2>3 DEF Deliver
    <3>. QED  BY <1>0, <3>1 DEF PrefixInv
  <2>. QED  BY <1>5, <2>1, <2>2, <2>3
<1>6. ASSUME NEW c \in Callback, Publish(c) \/ PublishError(c)
      PROVE  PrefixInv' /\ [Promise!Next]_<<status, emitted>>
  <2>1. /\ msg[c] \in Message /\ sent[c] \in Nat /\ sent[c] < Outputs[msg[c]]
        /\ 1 .. sent[c] \subseteq emitted[msg[c]]
        /\ pc[c] = "publishing"
    BY <1>0, <1>6 DEF Publish, PublishError, TypeOK, PrefixInv
  <2>2. /\ UNCHANGED status
        /\ \/ UNCHANGED emitted /\ PublishError(c)
           \/ emitted' = [emitted EXCEPT ![msg[c]] = @ \cup {sent[c] + 1}]
    BY <1>6 DEF Publish, PublishError
  <2>3. ASSUME emitted' = [emitted EXCEPT ![msg[c]] = @ \cup {sent[c] + 1}]
        PROVE  Promise!Next
    <3>1. sent[c] + 1 \in 1 .. Outputs[msg[c]] /\ (sent[c] + 1) - 1 = sent[c]
      BY <2>1
    <3>2. Promise!Emit(msg[c])
      BY <2>1, <2>2, <2>3, <3>1 DEF Promise!Emit
    <3>. QED  BY <2>1, <3>2 DEF Promise!Next
  <2>4. \A m \in Message : emitted[m] \subseteq emitted'[m] /\ emitted'[m] \subseteq 1 .. Outputs[m]
    <3>1. sent[c] + 1 \in 1 .. Outputs[msg[c]]
      BY <2>1
    <3>2. emitted \in [Message -> SUBSET Nat] /\ \A m \in Message : emitted[m] \subseteq 1 .. Outputs[m]
      BY <1>0 DEF TypeOK, PrefixInv
    <3>. QED  BY <2>1, <2>2, <3>1, <3>2
  <2>5. ASSUME NEW d \in Callback, pc'[d] = "publishing"
        PROVE  sent'[d] <= Outputs[msg'[d]] /\ 1 .. sent'[d] \subseteq emitted'[msg'[d]]
    <3>0. /\ pc \in [Callback -> {"idle", "handling", "publishing", "failed", "leaving"}]
          /\ msg \in [Callback -> Message \cup {NoMessage}]
          /\ sent \in [Callback -> Nat]
          /\ emitted \in [Message -> SUBSET Nat]
      BY <1>0 DEF TypeOK
    <3>1. CASE Publish(c) /\ d = c
      <4>1. sent'[c] = sent[c] + 1 /\ msg'[c] = msg[c]
            /\ emitted'[msg[c]] = emitted[msg[c]] \cup {sent[c] + 1}
        BY <2>1, <3>0, <3>1 DEF Publish
      <4>2. 1 .. (sent[c] + 1) = (1 .. sent[c]) \cup {sent[c] + 1}
        BY <2>1
      <4>3. sent[c] + 1 <= Outputs[msg[c]]
        BY <2>1
      <4>. QED  BY <2>1, <3>1, <4>1, <4>2, <4>3
    <3>2. CASE d # c
      <4>1. pc[d] = "publishing" /\ sent'[d] = sent[d] /\ msg'[d] = msg[d]
        BY <1>6, <2>5, <3>0, <3>2 DEF Publish, PublishError
      <4>2. msg[d] \in Message
        BY <1>0, <4>1 DEF TypeOK
      <4>. QED  BY <1>0, <2>4, <4>1, <4>2 DEF PrefixInv
    <3>3. CASE PublishError(c) /\ d = c
      BY <2>5, <3>0, <3>3 DEF PublishError
    <3>. QED  BY <1>6, <3>1, <3>2, <3>3
  <2>6. ASSUME NEW d \in Callback, pc'[d] = "handling" PROVE sent'[d] = 0
    <3>1. /\ pc \in [Callback -> {"idle", "handling", "publishing", "failed", "leaving"}]
          /\ sent \in [Callback -> Nat]
      BY <1>0 DEF TypeOK
    <3>2. d # c /\ pc[d] = "handling" /\ sent'[d] = sent[d]
      BY <1>6, <2>1, <2>6, <3>1 DEF Publish, PublishError
    <3>. QED  BY <1>0, <3>2 DEF PrefixInv
  <2>7. PrefixInv'
    BY <2>4, <2>5, <2>6 DEF PrefixInv
  <2>. QED  BY <2>2, <2>3, <2>7
<1>7. ASSUME NEW c \in Callback, Ack(c)
      PROVE  PrefixInv' /\ [Promise!Next]_<<status, emitted>>
  <2>0. pc[c] = "publishing" /\ sent[c] = Outputs[msg[c]] /\ msg[c] \in Message
    BY <1>0, <1>7 DEF Ack, TypeOK
  <2>1. emitted[msg[c]] = 1 .. Outputs[msg[c]]
    BY <1>0, <2>0 DEF PrefixInv
  <2>2. PrefixInv'
    BY <1>0, <1>7 DEF Ack, PrefixInv, TypeOK
  <2>3. UNCHANGED emitted /\ (UNCHANGED status \/ Promise!Settle(msg[c]))
    BY <1>0, <1>7, <2>0, <2>1 DEF Ack, TypeOK, Promise!Settle
  <2>. QED  BY <2>0, <2>2, <2>3 DEF Promise!Next
<1>. QED  BY <1>1, <1>2, <1>3, <1>4, <1>5, <1>6, <1>7 DEF Next, Work

LEMMA PromiseInit == Init => Promise!Init
  BY DEF Init, Promise!Init

LEMMA StepRInv == RInv /\ [Next]_vars => RInv'
  BY StepType, StepPromise DEF RInv

(* _callback 143-204: a message is settled only with all its outputs on    *)
(* the topic, whatever main thread, callbacks, signals and kills do.       *)
THEOREM KeepsPromiseHolds == Spec => KeepsPromise
<1>1. Init => RInv
  BY InitType, InitPrefix DEF RInv
<1>. QED  BY <1>1, StepRInv, StepPromise, PromiseInit, PTL DEF Spec, KeepsPromise, Promise!Spec

-----------------------------------------------------------------------------
(* The runtime below *)

(* Every step of the agent is a step of the runtime, or leaves it alone. *)
LEMMA AgentStep == [AgentNext]_allVars => [Next]_vars
<1> SUFFICES ASSUME [AgentNext]_allVars PROVE [Next]_vars
  OBVIOUS
<1>1. CASE UNCHANGED allVars
  BY <1>1 DEF allVars
<1>2. CASE Quiet
  BY <1>2 DEF Quiet, Next, Work
<1>3. CASE StartAgain
  BY <1>3 DEF StartAgain, Next
<1>4. ASSUME NEW c \in Callback, AgentWork(c) PROVE [Next]_vars
  <2>1. CASE MakeReport(c) \/ Invalid(c)
    BY <2>1 DEF MakeReport, Invalid, Next, Work
  <2>2. CASE PublishReport(c) \/ PublishReportError(c)
    BY <2>2 DEF PublishReport, PublishReportError, Next, Work
  <2>3. ASSUME NEW i \in Integration, Notify(c, i) \/ NotifyFails(c, i)
        PROVE  UNCHANGED vars
    BY <2>3 DEF Notify, NotifyFails, Handling
  <2>. QED  BY <1>4, <2>1, <2>2, <2>3 DEF AgentWork
<1>. QED  BY <1>1, <1>2, <1>3, <1>4 DEF AgentNext

(* The agent keeps the runtime's promise: a remediation result is          *)
(* acknowledged only with its report on the topic.                         *)
THEOREM AgentKeepsPromise == AgentSpec => KeepsPromise
<1>1. AgentInit => Init
  BY DEF AgentInit
<1>2. AgentSpec => Spec
  BY <1>1, AgentStep, PTL DEF AgentSpec, Spec
<1>. QED  BY <1>2, KeepsPromiseHolds

(* What the proofs below know of the runtime at every step. *)
LEMMA RuntimeBelow ==
  /\ AgentInit => RInv
  /\ RInv /\ [AgentNext]_allVars => RInv'
<1>1. AgentInit => RInv
  BY InitType, InitPrefix DEF AgentInit, RInv
<1>. QED  BY <1>1, AgentStep, StepRInv

-----------------------------------------------------------------------------
(* Silence is on record *)

(* Every channel in use has a message of m, or a report admits a failure. *)
Accounted(m) ==
    \A i \in Integration : Setting[i] = "ready" =>
        notified[m][i] > 0 \/ \E r \in reports[m] : r[i] = "failed"

DataOK ==
    /\ answer \in [Callback -> [Integration -> Answer \cup {"none"}]]
    /\ notified \in [Message -> [Integration -> Nat]]
    /\ reports \in [Message -> SUBSET [Integration -> Answer]]

(* What a callback knows of a channel in use. *)
Honest(c) ==
    /\ pc[c] \notin {"handling", "publishing"} => answer[c] = Unasked
    /\ \A i \in Integration :
          /\ Setting[i] = "ready" => answer[c][i] \in {"none", "sent", "failed"}
          /\ answer[c][i] = "sent" =>
                pc[c] \in {"handling", "publishing"} /\ notified[msg[c]][i] > 0

(* Before its report is out, a callback has asked every channel; after,    *)
(* every channel is accounted for.                                         *)
Complete(c) ==
    pc[c] = "publishing" =>
        IF sent[c] = 0 THEN \A i \in Integration : answer[c][i] # "none"
                       ELSE answer[c] = Unasked /\ Accounted(msg[c])

RecordInv ==
    /\ DataOK
    /\ \A c \in Callback : Honest(c) /\ Complete(c)
    /\ SilenceIsOnRecord

(* The part of the runtime's state that RecordInv reads, with its types. *)
LEMMA ThreadFacts ==
  ASSUME RInv
  PROVE  /\ pc \in [Callback -> {"idle", "handling", "publishing", "failed", "leaving"}]
         /\ msg \in [Callback -> Message \cup {NoMessage}]
         /\ sent \in [Callback -> Nat]
         /\ status \in [Message -> {"pending", "acked", "dead-lettered"}]
         /\ \A c \in Callback : pc[c] # "idle" => msg[c] \in Message
         /\ \A c \in Callback : pc[c] = "publishing" => sent[c] \in {0, 1}
         /\ \A c \in Callback : pc[c] = "handling" => sent[c] = 0
<1>1. TypeOK /\ PrefixInv
  BY DEF RInv
<1>2. \A c \in Callback : pc[c] # "idle" => msg[c] \in Message
  BY <1>1 DEF TypeOK
<1>3. \A c \in Callback : pc[c] = "publishing" => sent[c] \in {0, 1}
  <2> SUFFICES ASSUME NEW c \in Callback, pc[c] = "publishing" PROVE sent[c] \in {0, 1}
    OBVIOUS
  <2>1. msg[c] \in Message /\ sent[c] <= Outputs[msg[c]] /\ sent[c] \in Nat
    BY <1>1, <1>2 DEF TypeOK, PrefixInv
  <2>2. Outputs[msg[c]] = 1
    BY <2>1, ReportingAssumption
  <2>. QED  BY <2>1, <2>2
<1>. QED  BY <1>1, <1>2, <1>3 DEF TypeOK, PrefixInv

LEMMA UnaskedType ==
  /\ Unasked \in [Integration -> Answer \cup {"none"}]
  /\ \A i \in Integration :
        Unasked[i] # "sent" /\ (Setting[i] = "ready" => Unasked[i] = "none")
  BY ReportingAssumption DEF Unasked, Answer

LEMMA InitRecord == AgentInit => RecordInv
<1> SUFFICES ASSUME AgentInit PROVE RecordInv
  OBVIOUS
<1>1. DataOK /\ SilenceIsOnRecord
  BY UnaskedType DEF AgentInit, Init, DataOK, SilenceIsOnRecord
<1>2. \A c \in Callback : Honest(c) /\ Complete(c)
  BY UnaskedType DEF AgentInit, Init, Honest, Complete
<1>. QED  BY <1>1, <1>2 DEF RecordInv

(* What channels have and reports say only grows. *)
LEMMA AccountsGrow ==
  ASSUME DataOK, NEW m \in Message, Accounted(m),
         \A i \in Integration : notified'[m][i] >= notified[m][i],
         reports[m] \subseteq reports'[m], DataOK'
  PROVE  Accounted(m)'
<1> SUFFICES ASSUME NEW i \in Integration, Setting[i] = "ready"
             PROVE  notified'[m][i] > 0 \/ \E r \in reports'[m] : r[i] = "failed"
  BY DEF Accounted
<1>1. notified[m][i] \in Nat /\ notified'[m][i] \in Nat
  BY DEF DataOK
<1>. QED  BY <1>1 DEF Accounted

(* The calls to the channels. *)
LEMMA NotifyRecord ==
  ASSUME RInv, RecordInv, NEW c \in Callback, NEW i \in Integration,
         Notify(c, i) \/ NotifyFails(c, i)
  PROVE  RecordInv'
<1>1. /\ pc[c] = "handling" /\ msg[c] \in Message /\ answer[c][i] = "none"
      /\ UNCHANGED <<pc, msg, sent, status, reports>>
  BY ThreadFacts DEF Notify, NotifyFails, Handling, ItsTurn, vars, callbackVars, queueVars
<1>2. PICK a \in {"sent", "failed"} :
         /\ answer' = [answer EXCEPT ![c][i] = a]
         /\ Told(c, i) \/ UNCHANGED notified
         /\ a = "sent" => Told(c, i)
  BY DEF Notify, NotifyFails
<1>3. DataOK
  BY DEF RecordInv
<1>4. DataOK' /\ \A m \in Message, j \in Integration : notified'[m][j] >= notified[m][j]
  <2>1. answer' \in [Callback -> [Integration -> Answer \cup {"none"}]]
    BY <1>2, <1>3 DEF DataOK, Answer
  <2>2. reports' \in [Message -> SUBSET [Integration -> Answer]]
    BY <1>1, <1>3 DEF DataOK
  <2>3. /\ notified' \in [Message -> [Integration -> Nat]]
        /\ \A m \in Message, j \in Integration : notified'[m][j] >= notified[m][j]
    <3>1. CASE UNCHANGED notified
      BY <1>3, <3>1 DEF DataOK
    <3>2. CASE Told(c, i)
      BY <1>1, <1>3, <3>2 DEF DataOK, Told
    <3>. QED  BY <1>2, <3>1, <3>2
  <2>. QED  BY <2>1, <2>2, <2>3 DEF DataOK
<1>5. a = "sent" => notified'[msg[c]][i] > 0
  BY <1>1, <1>2, <1>3 DEF DataOK, Told
<1>6. \A m \in Message : Accounted(m) => Accounted(m)'
  BY <1>1, <1>3, <1>4, AccountsGrow
<1>7. ASSUME NEW d \in Callback PROVE Honest(d)' /\ Complete(d)'
  <2>1. CASE d = c
    <3>1. answer'[c] = [answer[c] EXCEPT ![i] = a]
      BY <1>2, <1>3 DEF DataOK
    <3>2. Honest(c)'
      <4> SUFFICES ASSUME NEW j \in Integration
                   PROVE  /\ Setting[j] = "ready" => answer'[c][j] \in {"none", "sent", "failed"}
                          /\ answer'[c][j] = "sent" => notified'[msg[c]][j] > 0
        BY <1>1 DEF Honest
      <4>1. /\ Setting[j] = "ready" => answer[c][j] \in {"none", "sent", "failed"}
            /\ answer[c][j] = "sent" => notified[msg[c]][j] > 0
        BY DEF RecordInv, Honest
      <4>2. answer'[c][j] = IF j = i THEN a ELSE answer[c][j]
        BY <1>3, <3>1 DEF DataOK
      <4>3. notified'[msg[c]][j] \in Nat /\ notified[msg[c]][j] \in Nat
        BY <1>1, <1>3, <1>4 DEF DataOK
      <4>. QED  BY <1>1, <1>4, <1>5, <4>1, <4>2, <4>3
    <3>3. Complete(c)'
      BY <1>1 DEF Complete
    <3>. QED  BY <2>1, <3>2, <3>3
  <2>2. CASE d # c
    <3>1. answer'[d] = answer[d] /\ Honest(d) /\ Complete(d)
      BY <1>2, <1>3, <2>2 DEF DataOK, RecordInv
    <3>2. pc[d] \in {"handling", "publishing"} => msg[d] \in Message
      BY ThreadFacts
    <3>3. Complete(d)'
      BY <1>1, <1>6, <3>1, <3>2 DEF Complete
    <3>4. \A j \in Integration : msg[d] \in Message =>
             notified'[msg[d]][j] \in Nat /\ notified[msg[d]][j] \in Nat
      BY <1>3, <1>4 DEF DataOK
    <3>5. Honest(d)'
      BY <1>1, <1>4, <3>1, <3>2, <3>4 DEF Honest
    <3>. QED  BY <3>3, <3>5
  <2>. QED  BY <2>1, <2>2
<1>8. SilenceIsOnRecord'
  <2>1. \A m \in Message : status[m] = "acked" => Accounted(m)
    BY DEF RecordInv, SilenceIsOnRecord, Accounted
  <2>2. \A m \in Message : \A r \in reports[m], j \in Integration :
           r[j] = "sent" => notified'[m][j] > 0
    <3> SUFFICES ASSUME NEW m \in Message, NEW r \in reports[m], NEW j \in Integration,
                        r[j] = "sent"
                 PROVE  notified'[m][j] > 0
      OBVIOUS
    <3>1. notified[m][j] > 0
      BY DEF RecordInv, SilenceIsOnRecord
    <3>2. notified'[m][j] \in Nat /\ notified[m][j] \in Nat
      BY <1>3, <1>4 DEF DataOK
    <3>. QED  BY <1>4, <3>1, <3>2
  <2>. QED  BY <1>1, <1>6, <2>1, <2>2 DEF SilenceIsOnRecord, Accounted
<1>. QED  BY <1>4, <1>7, <1>8 DEF RecordInv

(* A step that leaves channels and reports alone, of callbacks that do not *)
(* begin to publish, and settles nothing but what is accounted for.        *)
LEMMA QuietRecord ==
  ASSUME RInv, RecordInv, UNCHANGED agentVars,
         \A c \in Callback :
            \/ pc'[c] = pc[c] /\ msg'[c] = msg[c] /\ sent'[c] = sent[c]
            \/ answer[c] = Unasked /\ pc'[c] # "publishing",
         \A m \in Message : status'[m] = "acked" => status[m] = "acked" \/ Accounted(m)
  PROVE  RecordInv'
<1>1. DataOK'
  BY DEF RecordInv, DataOK, agentVars
<1>2. ASSUME NEW c \in Callback PROVE Honest(c)' /\ Complete(c)'
  <2>0. answer'[c] = answer[c] /\ UNCHANGED <<notified, reports>>
    BY DEF agentVars
  <2>1. CASE pc'[c] = pc[c] /\ msg'[c] = msg[c] /\ sent'[c] = sent[c]
    BY <2>0, <2>1 DEF RecordInv, Honest, Complete, Accounted
  <2>2. CASE answer[c] = Unasked /\ pc'[c] # "publishing"
    BY <2>0, <2>2, UnaskedType DEF Honest, Complete
  <2>. QED  BY <2>1, <2>2
<1>3. SilenceIsOnRecord'
  BY DEF RecordInv, SilenceIsOnRecord, Accounted, agentVars
<1>. QED  BY <1>1, <1>2, <1>3 DEF RecordInv

(* The rest of the runtime. *)
LEMMA RuntimeRecord ==
  ASSUME RInv, RecordInv, Quiet, UNCHANGED agentVars
  PROVE  RecordInv'
<1>. USE ThreadFacts DEF CallbackStep
<1>0. \A c \in Callback :
        pc[c] \notin {"handling", "publishing"} => answer[c] = Unasked
  BY DEF RecordInv, Honest
<1>1. CASE Main \/ Signal \/ StreamBreaks
  <2>1. UNCHANGED <<pc, msg, sent, status>>
    BY <1>1 DEF Main, InstallHandlers, StartHealthServer, Subscribe, SubscribeFails, AssignFuture,
       MarkStarted, MarkReady, ResultReturns, ResultRaises, Unmark, Unready,
       CloseSubscriber, StopPublisher, MainStep, Signal, StreamBreaks,
       callbackVars, queueVars
  <2>. QED  BY <2>1, QuietRecord
<1>2. ASSUME NEW c \in Callback, NEW m \in Message, Deliver(c, m)
      PROVE  RecordInv'
  <2>1. /\ UNCHANGED status /\ pc[c] = "idle" /\ pc'[c] = "handling"
        /\ \A d \in Callback \ {c} :
              pc'[d] = pc[d] /\ msg'[d] = msg[d] /\ sent'[d] = sent[d]
    BY <1>2 DEF Deliver
  <2>. QED  BY <1>0, <2>1, QuietRecord
<1>3. ASSUME NEW m \in Message, DeadLetter(m) PROVE RecordInv'
  <2>1. UNCHANGED <<pc, msg, sent>> /\ \A n \in Message :
           status'[n] = "acked" => status[n] = "acked"
    BY <1>3 DEF DeadLetter, callbackVars
  <2>. QED  BY <2>1, QuietRecord
<1>4. ASSUME NEW c \in Callback, Nack(c) \/ Leave(c) PROVE RecordInv'
  <2>1. /\ UNCHANGED status
        /\ pc[c] \notin {"handling", "publishing"} /\ pc'[c] # "publishing"
        /\ \A d \in Callback \ {c} :
              pc'[d] = pc[d] /\ msg'[d] = msg[d] /\ sent'[d] = sent[d]
    BY <1>4 DEF Nack, Leave, queueVars
  <2>. QED  BY <1>0, <2>1, QuietRecord
<1>5. ASSUME NEW c \in Callback, Ack(c) PROVE RecordInv'
  <2>1. /\ pc[c] = "publishing" /\ msg[c] \in Message
        /\ pc'[c] # "publishing" /\ sent[c] = Outputs[msg[c]]
        /\ \A d \in Callback \ {c} :
              pc'[d] = pc[d] /\ msg'[d] = msg[d] /\ sent'[d] = sent[d]
        /\ \A m \in Message :
              status'[m] = "acked" => status[m] = "acked" \/ m = msg[c]
    BY <1>5 DEF Ack
  <2>2. sent[c] = 1
    BY <2>1, ReportingAssumption
  <2>3. answer[c] = Unasked /\ Accounted(msg[c])
    BY <2>1, <2>2 DEF RecordInv, Complete
  <2>. QED  BY <2>1, <2>2, <2>3, QuietRecord
<1>. QED  BY <1>1, <1>2, <1>3, <1>4, <1>5 DEF Quiet

(* The outcome of process(). *)
LEMMA ProcessRecord ==
  ASSUME RInv, RecordInv, NEW c \in Callback, MakeReport(c) \/ Invalid(c)
  PROVE  RecordInv'
<1>1. /\ pc[c] = "handling" /\ sent[c] = 0
      /\ UNCHANGED <<msg, sent, status, answer, notified, reports>>
      /\ \A d \in Callback \ {c} : pc'[d] = pc[d]
      /\ \/ pc'[c] = "publishing" /\ \A i \in Integration : answer[c][i] # "none"
         \/ pc'[c] = "failed" /\ answer[c] = Unasked
  BY ThreadFacts DEF MakeReport, Invalid, Process, CallbackStep, queueVars, agentVars
<1>2. CASE answer[c] = Unasked /\ pc'[c] = "failed"
  BY <1>1, <1>2, QuietRecord DEF agentVars
<1>3. CASE pc'[c] = "publishing" /\ \A i \in Integration : answer[c][i] # "none"
  <2>1. DataOK' /\ SilenceIsOnRecord'
    BY <1>1 DEF RecordInv, DataOK, SilenceIsOnRecord
  <2>2. ASSUME NEW d \in Callback PROVE Honest(d)' /\ Complete(d)'
    <3>1. CASE d = c
      BY <1>1, <1>3, <3>1 DEF RecordInv, Honest, Complete
    <3>2. CASE d # c
      BY <1>1, <3>2 DEF RecordInv, Honest, Complete, Accounted
    <3>. QED  BY <3>1, <3>2
  <2>. QED  BY <2>1, <2>2 DEF RecordInv
<1>. QED  BY <1>1, <1>2, <1>3

(* The report, published or in doubt. *)
LEMMA ReportRecord ==
  ASSUME RInv, RecordInv, NEW c \in Callback,
         PublishReport(c) \/ PublishReportError(c)
  PROVE  RecordInv'
<1>1. /\ pc[c] = "publishing" /\ msg[c] \in Message /\ sent[c] = 0
      /\ UNCHANGED <<msg, status, notified>>
      /\ answer' = [answer EXCEPT ![c] = Unasked]
      /\ \A d \in Callback \ {c} : pc'[d] = pc[d] /\ sent'[d] = sent[d]
      /\ \/ pc'[c] = "publishing" /\ Reported(c)
         \/ pc'[c] = "failed" /\ (Reported(c) \/ UNCHANGED reports)
      /\ pc'[c] = "publishing" => sent'[c] = 1
  <2>1. pc[c] = "publishing" /\ sent[c] < Outputs[msg[c]]
    BY DEF PublishReport, PublishReportError, Publish, PublishError, CallbackStep
  <2>2. msg[c] \in Message /\ sent[c] = 0
    BY <2>1, ThreadFacts, ReportingAssumption
  <2>3. CASE PublishReport(c)
    BY <2>1, <2>2, <2>3, ThreadFacts DEF PublishReport, Publish, CallbackStep, Forget, queueVars
  <2>4. CASE PublishReportError(c)
    BY <2>1, <2>2, <2>4, ThreadFacts
       DEF PublishReportError, PublishError, CallbackStep, Forget, queueVars
  <2>. QED  BY <2>3, <2>4
<1>2. DataOK /\ Honest(c) /\ Complete(c) /\ SilenceIsOnRecord
  BY DEF RecordInv
<1>3. /\ answer[c] \in [Integration -> Answer]
      /\ \A i \in Integration :
            /\ Setting[i] = "ready" => answer[c][i] \in {"sent", "failed"}
            /\ answer[c][i] = "sent" => notified[msg[c]][i] > 0
  <2>1. answer[c] \in [Integration -> Answer \cup {"none"}]
        /\ \A i \in Integration : answer[c][i] # "none"
    BY <1>1, <1>2 DEF DataOK, Complete
  <2>2. answer[c] \in [Integration -> Answer]
    BY <2>1
  <2>. QED  BY <1>2, <2>1, <2>2 DEF Honest
<1>4. DataOK'
  <2>1. answer' \in [Callback -> [Integration -> Answer \cup {"none"}]]
    BY <1>1, <1>2, UnaskedType DEF DataOK
  <2>2. reports' \in [Message -> SUBSET [Integration -> Answer]]
    <3> DEFINE Report == [Integration -> Answer]
    <3>1. reports \in [Message -> SUBSET Report] /\ answer[c] \in Report
      BY <1>2, <1>3 DEF DataOK
    <3>. HIDE DEF Report
    <3>2. Reported(c) \/ UNCHANGED reports
      BY <1>1
    <3>3. reports[msg[c]] \cup {answer[c]} \in SUBSET Report
      BY <1>1, <3>1
    <3>4. reports' \in [Message -> SUBSET Report]
      BY <1>1, <3>1, <3>2, <3>3 DEF Reported
    <3>. QED  BY <3>4 DEF Report
  <2>. QED  BY <1>1, <1>2, <2>1, <2>2 DEF DataOK
<1>5. \A m \in Message : reports[m] \subseteq reports'[m]
  BY <1>1, <1>2 DEF DataOK, Reported
<1>6. ASSUME NEW m \in Message, Accounted(m) PROVE Accounted(m)'
  BY <1>1, <1>5, <1>6 DEF Accounted
<1>7. Reported(c) => Accounted(msg[c])'
  <2> SUFFICES ASSUME Reported(c), NEW i \in Integration, Setting[i] = "ready"
               PROVE  \/ notified'[msg[c]][i] > 0
                      \/ \E r \in reports'[msg[c]] : r[i] = "failed"
    BY <1>1 DEF Accounted
  <2>1. answer[c] \in reports'[msg[c]]
    BY <1>1, <1>2 DEF DataOK, Reported
  <2>. QED  BY <1>1, <1>3, <2>1
<1>8. SilenceIsOnRecord'
  <2>1. \A m \in Message : status[m] = "acked" => Accounted(m)
    BY <1>2 DEF SilenceIsOnRecord, Accounted
  <2>2. \A m \in Message : \A r : r \in reports'[m] =>
           r \in reports[m] \/ (m = msg[c] /\ r = answer[c])
    BY <1>1, <1>2 DEF DataOK, Reported
  <2>3. \A m \in Message : \A r \in reports'[m], i \in Integration :
           r[i] = "sent" => notified[m][i] > 0
    BY <1>2, <1>3, <2>2 DEF SilenceIsOnRecord
  <2>4. \A m \in Message : status'[m] = "acked" => Accounted(m)'
    BY <1>1, <1>6, <2>1
  <2>. QED  BY <1>1, <2>3, <2>4 DEF SilenceIsOnRecord, Accounted
<1>9. ASSUME NEW d \in Callback PROVE Honest(d)' /\ Complete(d)'
  <2>1. CASE d = c
    <3>1. answer'[d] = Unasked
      BY <1>1, <1>2, <2>1 DEF DataOK
    <3>2. Honest(d)'
      BY <3>1, UnaskedType DEF Honest
    <3>. QED  BY <1>1, <1>7, <2>1, <3>1, <3>2 DEF Complete
  <2>2. CASE d # c
    <3>1. /\ answer'[d] = answer[d] /\ pc'[d] = pc[d] /\ sent'[d] = sent[d]
          /\ Honest(d) /\ Complete(d)
      BY <1>1, <1>2, <2>2 DEF DataOK, RecordInv
    <3>2. Honest(d)'
      BY <1>1, <3>1 DEF Honest
    <3>3. pc[d] = "publishing" => msg[d] \in Message
      BY ThreadFacts
    <3>. QED  BY <1>1, <1>6, <3>1, <3>2, <3>3 DEF Complete
  <2>. QED  BY <2>1, <2>2
<1>. QED  BY <1>4, <1>8, <1>9 DEF RecordInv

LEMMA StartRecord == RInv /\ RecordInv /\ StartAgain => RecordInv'
<1> SUFFICES ASSUME RInv, RecordInv, StartAgain PROVE RecordInv'
  OBVIOUS
<1>1. /\ pc' = [c \in Callback |-> "idle"]
      /\ answer' = [c \in Callback |-> Unasked]
      /\ UNCHANGED <<status, notified, reports>>
  BY DEF StartAgain, Exit, Kill, Boot, queueVars
<1>2. DataOK' /\ SilenceIsOnRecord'
  BY <1>1, UnaskedType DEF RecordInv, DataOK, SilenceIsOnRecord
<1>3. \A c \in Callback : Honest(c)' /\ Complete(c)'
  BY <1>1, UnaskedType DEF Honest, Complete
<1>. QED  BY <1>2, <1>3 DEF RecordInv

LEMMA StepRecord == RInv /\ RecordInv /\ [AgentNext]_allVars => RecordInv'
<1> SUFFICES ASSUME RInv, RecordInv, [AgentNext]_allVars PROVE RecordInv'
  OBVIOUS
<1>1. CASE UNCHANGED allVars
  <2>1. UNCHANGED agentVars /\ UNCHANGED <<pc, msg, sent, status>>
    BY <1>1 DEF allVars, vars, callbackVars, queueVars
  <2>. QED  BY <2>1, QuietRecord
<1>2. CASE Quiet /\ UNCHANGED agentVars
  BY <1>2, RuntimeRecord
<1>3. CASE StartAgain
  BY <1>3, StartRecord
<1>4. ASSUME NEW c \in Callback, AgentWork(c) PROVE RecordInv'
  BY <1>4, NotifyRecord, ProcessRecord, ReportRecord DEF AgentWork
<1>. QED  BY <1>1, <1>2, <1>3, <1>4 DEF AgentNext

(* safe_integration_call 570-584 and process 599-611: of a result that is  *)
(* acknowledged, each channel in use has a message or a published report   *)
(* says that it failed, and no report claims more than happened.           *)
THEOREM SilenceIsOnRecordHolds == AgentSpec => []SilenceIsOnRecord
<1>1. RecordInv => SilenceIsOnRecord
  BY DEF RecordInv
<1>. QED  BY <1>1, InitRecord, StepRecord, RuntimeBelow, PTL DEF AgentSpec

(* The types of the agent and of the runtime below it. *)
THEOREM AgentTypeCorrect == AgentSpec => []AgentTypeOK
<1>1. RInv /\ RecordInv => AgentTypeOK
  BY DEF RInv, RecordInv, DataOK, AgentTypeOK
<1>. QED  BY <1>1, InitRecord, StepRecord, RuntimeBelow, PTL DEF AgentSpec

-----------------------------------------------------------------------------
(* Notified once a delivery *)

(* The callbacks that may still tell i of m. *)
Asking(m, i) ==
    {c \in Callback : pc[c] = "handling" /\ msg[c] = m /\ answer[c][i] = "none"}

(* Each of them has a delivery of its own. *)
DeliveryInv ==
    /\ attempts \in [Message -> Nat]
    /\ \A m \in Message, i \in Integration :
          notified[m][i] + Cardinality(Asking(m, i)) <= attempts[m]

LEMMA InitDelivery == AgentInit => DeliveryInv
<1> SUFFICES ASSUME AgentInit PROVE DeliveryInv
  OBVIOUS
<1>1. \A m \in Message, i \in Integration : Asking(m, i) = {}
  BY DEF AgentInit, Init, Asking
<1>. QED  BY <1>1, FS_EmptySet DEF AgentInit, Init, DeliveryInv

LEMMA AskingFacts ==
  ASSUME NEW m \in Message, NEW i \in Integration
  PROVE  IsFiniteSet(Asking(m, i)) /\ Cardinality(Asking(m, i)) \in Nat
<1>1. Asking(m, i) \subseteq Callback
  BY DEF Asking
<1>. QED  BY <1>1, ReportingAssumption, FS_Subset, FS_CardinalityType

(* A step by which nobody new asks, and nobody is told. *)
LEMMA QuietDelivery ==
  ASSUME DataOK, DeliveryInv, UNCHANGED <<notified, attempts>>,
         \A c \in Callback, i \in Integration :
            pc'[c] = "handling" /\ answer'[c][i] = "none" =>
                pc[c] = "handling" /\ answer[c][i] = "none" /\ msg'[c] = msg[c]
  PROVE  DeliveryInv'
<1> SUFFICES ASSUME NEW m \in Message, NEW i \in Integration
             PROVE  notified[m][i] + Cardinality(Asking(m, i)') <= attempts[m]
  BY DEF DeliveryInv
<1>1. Asking(m, i)' \subseteq Asking(m, i)
  BY DEF Asking
<1>2. /\ Cardinality(Asking(m, i)') <= Cardinality(Asking(m, i))
      /\ Cardinality(Asking(m, i)') \in Nat /\ Cardinality(Asking(m, i)) \in Nat
  BY <1>1, AskingFacts, FS_Subset, FS_CardinalityType
<1>3. /\ notified[m][i] \in Nat /\ attempts[m] \in Nat
      /\ notified[m][i] + Cardinality(Asking(m, i)) <= attempts[m]
  BY DEF DataOK, DeliveryInv
<1>. QED  BY <1>2, <1>3

LEMMA DeliverDelivery ==
  ASSUME RInv, DataOK, DeliveryInv, NEW c \in Callback, NEW m \in Message,
         Deliver(c, m), UNCHANGED agentVars
  PROVE  DeliveryInv'
<1>1. /\ attempts' = [attempts EXCEPT ![m] = @ + 1] /\ msg'[c] = m
      /\ UNCHANGED <<notified, answer>>
      /\ \A d \in Callback \ {c} : pc'[d] = pc[d] /\ msg'[d] = msg[d]
  BY ThreadFacts DEF Deliver, agentVars
<1>2. attempts' \in [Message -> Nat]
  BY <1>1 DEF DeliveryInv
<1>3. ASSUME NEW n \in Message, NEW i \in Integration
      PROVE  notified[n][i] + Cardinality(Asking(n, i)') <= attempts'[n]
  <2>1. /\ notified[n][i] \in Nat /\ attempts[n] \in Nat
        /\ notified[n][i] + Cardinality(Asking(n, i)) <= attempts[n]
        /\ IsFiniteSet(Asking(n, i)) /\ Cardinality(Asking(n, i)) \in Nat
    BY AskingFacts DEF DataOK, DeliveryInv
  <2>2. CASE n = m
    <3>1. Asking(n, i)' \subseteq Asking(n, i) \cup {c}
      BY <1>1 DEF Asking
    <3>2. /\ IsFiniteSet(Asking(n, i) \cup {c})
          /\ Cardinality(Asking(n, i) \cup {c}) \in Nat
          /\ Cardinality(Asking(n, i) \cup {c}) <= Cardinality(Asking(n, i)) + 1
      <4> DEFINE A == Asking(n, i)
      <4>1. IsFiniteSet(A) /\ Cardinality(A) \in Nat
        BY <2>1
      <4>. HIDE DEF A
      <4>2. /\ IsFiniteSet(A \cup {c})
            /\ \/ Cardinality(A \cup {c}) = Cardinality(A)
               \/ Cardinality(A \cup {c}) = Cardinality(A) + 1
        BY <4>1, FS_AddElement
      <4>. QED  BY <4>1, <4>2 DEF A
    <3>3. /\ Cardinality(Asking(n, i)') <= Cardinality(Asking(n, i) \cup {c})
          /\ Cardinality(Asking(n, i)') \in Nat
      BY <3>1, <3>2, FS_Subset, FS_CardinalityType
    <3>4. attempts'[n] = attempts[n] + 1
      BY <1>1, <2>2 DEF DeliveryInv
    <3>. QED  BY <2>1, <3>2, <3>3, <3>4
  <2>3. CASE n # m
    <3>1. Asking(n, i)' \subseteq Asking(n, i)
      BY <1>1, <2>3 DEF Asking
    <3>2. /\ Cardinality(Asking(n, i)') <= Cardinality(Asking(n, i))
          /\ Cardinality(Asking(n, i)') \in Nat
      BY <2>1, <3>1, FS_Subset, FS_CardinalityType
    <3>3. attempts'[n] = attempts[n]
      BY <1>1, <2>3 DEF DeliveryInv
    <3>. QED  BY <2>1, <3>2, <3>3
  <2>. QED  BY <2>2, <2>3
<1>. QED  BY <1>1, <1>2, <1>3 DEF DeliveryInv

LEMMA NotifyDelivery ==
  ASSUME RInv, DataOK, DeliveryInv, NEW c \in Callback, NEW i \in Integration,
         Notify(c, i) \/ NotifyFails(c, i)
  PROVE  DeliveryInv'
<1>1. /\ pc[c] = "handling" /\ msg[c] \in Message /\ answer[c][i] = "none"
      /\ UNCHANGED <<pc, msg, attempts>>
      /\ Told(c, i) \/ UNCHANGED notified
  BY ThreadFacts DEF Notify, NotifyFails, Handling, ItsTurn, vars, callbackVars, queueVars
<1>2. PICK a \in {"sent", "failed"} : answer' = [answer EXCEPT ![c][i] = a]
  BY DEF Notify, NotifyFails
<1>3. \A d \in Callback, j \in Integration :
         answer'[d][j] = IF d = c /\ j = i THEN a ELSE answer[d][j]
  BY <1>2 DEF DataOK
<1>4. ASSUME NEW m \in Message, NEW j \in Integration
      PROVE  notified'[m][j] + Cardinality(Asking(m, j)') <= attempts[m]
  <2>1. /\ notified[m][j] \in Nat /\ attempts[m] \in Nat
        /\ notified[m][j] + Cardinality(Asking(m, j)) <= attempts[m]
        /\ IsFiniteSet(Asking(m, j)) /\ Cardinality(Asking(m, j)) \in Nat
    BY AskingFacts DEF DataOK, DeliveryInv
  <2>2. CASE m = msg[c] /\ j = i
    <3>1. c \in Asking(m, j) /\ Asking(m, j)' = Asking(m, j) \ {c}
      BY <1>1, <1>3, <2>2 DEF Asking
    <3>2. Cardinality(Asking(m, j)') = Cardinality(Asking(m, j)) - 1
      BY <2>1, <3>1, FS_RemoveElement
    <3>3. notified'[m][j] \in {notified[m][j], notified[m][j] + 1}
      BY <1>1, <2>2 DEF Told, DataOK
    <3>. QED  BY <2>1, <3>2, <3>3
  <2>3. CASE ~(m = msg[c] /\ j = i)
    <3>1. Asking(m, j)' = Asking(m, j)
      BY <1>1, <1>3, <2>3 DEF Asking
    <3>2. notified'[m][j] = notified[m][j]
      BY <1>1, <2>3 DEF Told, DataOK
    <3>. QED  BY <2>1, <3>1, <3>2
  <2>. QED  BY <2>2, <2>3
<1>. QED  BY <1>1, <1>4 DEF DeliveryInv

LEMMA StepDelivery ==
  RInv /\ RecordInv /\ DeliveryInv /\ [AgentNext]_allVars => DeliveryInv'
<1> SUFFICES ASSUME RInv, RecordInv, DeliveryInv, [AgentNext]_allVars PROVE DeliveryInv'
  OBVIOUS
<1>0. DataOK
  BY DEF RecordInv
<1>. USE <1>0, ThreadFacts
<1>1. CASE UNCHANGED allVars
  <2>1. UNCHANGED <<pc, msg, answer, notified, attempts>>
    BY <1>1 DEF allVars, agentVars, vars, callbackVars, queueVars
  <2>. QED  BY <2>1, QuietDelivery
<1>2. CASE Quiet /\ UNCHANGED agentVars
  <2>1. ASSUME NEW c \in Callback, NEW m \in Message, Deliver(c, m) PROVE DeliveryInv'
    BY <1>2, <2>1, DeliverDelivery
  <2>2. CASE Main \/ Signal \/ StreamBreaks \/ \E m \in Message : DeadLetter(m)
    <3>1. UNCHANGED <<pc, msg, attempts>>
      BY <2>2 DEF Main, InstallHandlers, StartHealthServer, Subscribe, SubscribeFails, AssignFuture,
         MarkStarted, MarkReady, ResultReturns, ResultRaises, Unmark, Unready,
         CloseSubscriber, StopPublisher, MainStep, Signal, StreamBreaks, DeadLetter,
         callbackVars, queueVars
    <3>. QED  BY <1>2, <3>1, QuietDelivery DEF agentVars
  <2>3. ASSUME NEW c \in Callback, Ack(c) \/ Nack(c) \/ Leave(c) PROVE DeliveryInv'
    <3>1. /\ UNCHANGED attempts /\ pc'[c] # "handling"
          /\ \A d \in Callback \ {c} : pc'[d] = pc[d] /\ msg'[d] = msg[d]
      BY <2>3 DEF Ack, Nack, Leave, queueVars
    <3>. QED  BY <1>2, <3>1, QuietDelivery DEF agentVars
  <2>. QED  BY <1>2, <2>1, <2>2, <2>3 DEF Quiet
<1>3. CASE StartAgain
  <2>1. UNCHANGED <<notified, attempts>> /\ \A c \in Callback : pc'[c] = "idle"
    BY <1>3 DEF StartAgain, Exit, Kill, Boot, queueVars
  <2>. QED  BY <2>1, QuietDelivery
<1>4. ASSUME NEW c \in Callback, AgentWork(c) PROVE DeliveryInv'
  <2>1. ASSUME NEW i \in Integration, Notify(c, i) \/ NotifyFails(c, i)
        PROVE  DeliveryInv'
    BY <2>1, NotifyDelivery
  <2>2. CASE MakeReport(c) \/ Invalid(c) \/ PublishReport(c) \/ PublishReportError(c)
    <3>1. /\ UNCHANGED <<attempts, notified, msg>> /\ pc'[c] # "handling"
          /\ \A d \in Callback \ {c} : pc'[d] = pc[d] /\ answer'[d] = answer[d]
      BY <2>2 DEF MakeReport, Invalid, PublishReport, PublishReportError, Process,
         Publish, PublishError, CallbackStep, Forget, queueVars, agentVars, DataOK
    <3>. QED  BY <3>1, QuietDelivery
  <2>. QED  BY <1>4, <2>1, <2>2 DEF AgentWork
<1>. QED  BY <1>1, <1>2, <1>3, <1>4 DEF AgentNext

(* send_slack 324-435, send_jira 466-567: a channel hears of a result as   *)
(* often as the message was delivered, at most, for any number of          *)
(* callbacks, kills and restarts.                                          *)
THEOREM NotifiedOnceADeliveryHolds == AgentSpec => []NotifiedOnceADelivery
<1>1. RecordInv /\ DeliveryInv => NotifiedOnceADelivery
  <2> SUFFICES ASSUME RecordInv, DeliveryInv, NEW m \in Message, NEW i \in Integration
               PROVE  notified[m][i] <= attempts[m]
    BY DEF NotifiedOnceADelivery
  <2>1. /\ notified[m][i] \in Nat /\ attempts[m] \in Nat
        /\ notified[m][i] + Cardinality(Asking(m, i)) <= attempts[m]
    BY DEF RecordInv, DataOK, DeliveryInv
  <2>. QED  BY <2>1, AskingFacts
<1>. QED  BY <1>1, InitRecord, StepRecord, InitDelivery, StepDelivery, RuntimeBelow,
             PTL DEF AgentSpec
=============================================================================
