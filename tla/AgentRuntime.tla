------------------------------ MODULE AgentRuntime ------------------------------
(***************************************************************************)
(* python/agent_runtime.py: the process every agent runs in.  The main     *)
(* thread installs signal handlers, starts the health server, opens the    *)
(* streaming subscription and waits for it to end; callback threads        *)
(* process messages, publish the outputs one after the other and           *)
(* acknowledge; SIGTERM asks the process to stop.  A pod that has stopped  *)
(* or was killed is started again.                                         *)
(***************************************************************************)
EXTENDS Integers

CONSTANTS
    Message, NoMessage,
    Outputs,        \* Outputs[m]: number of events process() returns for m
    Callback,       \* callbacks in flight (max_messages of the flow control)
    MaxDeliveries,  \* max_delivery_attempts of the subscription
    MaxStarts,      \* bound on the starts of the pod, for model checking
    MaxSignals,     \* bound on the signals a pod receives
    MaxBreaks       \* bound on failures to open or to keep the stream

ASSUME RuntimeAssumption ==
    /\ NoMessage \notin Message
    /\ Outputs \in [Message -> Nat]
    /\ MaxDeliveries \in Nat
    /\ MaxStarts \in Nat /\ MaxSignals \in Nat /\ MaxBreaks \in Nat

VARIABLES
    main,       \* where the main thread is in run()
    stream,     \* the streaming pull: "none", "open", "cancelled", "failed", "closed"
    stop,       \* stop_event
    early,      \* history: a signal found streaming_future unset
    started,    \* state["subscriber_started"], the answer of /readyz
    ready,      \* the readiness gauge
    stopped,    \* the publisher was stopped
    pc,         \* pc[c]: where callback c is
    msg,        \* msg[c]: the message it handles
    sent,       \* sent[c]: outputs it has published
    status,     \* status[m]: "pending", "acked" or "dead-lettered"
    attempts,   \* attempts[m]: deliveries of m so far
    emitted,    \* emitted[m]: outputs of m on the output topic
    starts, signals, breaks                  \* what the bounds count

mainVars     == <<main, stream, stop, early, started, ready, stopped>>
callbackVars == <<pc, msg, sent>>
queueVars    == <<status, attempts>>
boundVars    == <<starts, signals, breaks>>
vars == <<mainVars, callbackVars, queueVars, emitted, boundVars>>

(* Steps of run() and _run_subscriber(), in their order. *)
MainLocation ==
    { "booting", "handling", "serving", "opening", "assigned", "marked",
      "waiting", "leaving", "unmarked", "closing", "stopping", "stopped" }
Running == {"handling", "serving", "opening", "assigned", "marked", "waiting"}
(* streaming_future is None. *)
FutureUnset == {"booting", "handling", "serving", "opening"}

TypeOK ==
    /\ main \in MainLocation
    /\ stream \in {"none", "open", "cancelled", "failed", "closed"}
    /\ stop \in BOOLEAN /\ early \in BOOLEAN
    /\ started \in BOOLEAN /\ ready \in BOOLEAN /\ stopped \in BOOLEAN
    /\ pc \in [Callback -> {"idle", "handling", "publishing", "failed", "leaving"}]
    /\ msg \in [Callback -> Message \cup {NoMessage}]
    /\ sent \in [Callback -> Nat]
    /\ status \in [Message -> {"pending", "acked", "dead-lettered"}]
    /\ attempts \in [Message -> Nat]
    /\ emitted \in [Message -> SUBSET Nat]
    /\ starts \in Nat /\ signals \in Nat /\ breaks \in Nat
    /\ \A c \in Callback : pc[c] = "idle" <=> msg[c] = NoMessage
    /\ main \in FutureUnset \ {"opening"} => stream = "none"

(* A new process. *)
Boot ==
    /\ main' = "booting" /\ stream' = "none"
    /\ stop' = FALSE /\ early' = FALSE
    /\ started' = FALSE /\ ready' = FALSE /\ stopped' = FALSE
    /\ pc' = [c \in Callback |-> "idle"]
    /\ msg' = [c \in Callback |-> NoMessage]
    /\ sent' = [c \in Callback |-> 0]

Init ==
    /\ main = "booting" /\ stream = "none"
    /\ stop = FALSE /\ early = FALSE
    /\ started = FALSE /\ ready = FALSE /\ stopped = FALSE
    /\ pc = [c \in Callback |-> "idle"]
    /\ msg = [c \in Callback |-> NoMessage]
    /\ sent = [c \in Callback |-> 0]
    /\ status = [m \in Message |-> "pending"]
    /\ attempts = [m \in Message |-> 0]
    /\ emitted = [m \in Message |-> {}]
    /\ starts = 1 /\ signals = 0 /\ breaks = 0

-----------------------------------------------------------------------------
(* The main thread *)

(* One step of the main thread from location l to location k. *)
MainStep(l, k) ==
    /\ main = l
    /\ main' = k
    /\ UNCHANGED <<stop, early, callbackVars, queueVars, emitted,
                   boundVars>>

InstallHandlers ==
    /\ MainStep("booting", "handling")
    /\ UNCHANGED <<stream, started, ready, stopped>>

StartHealthServer ==
    /\ MainStep("handling", "serving")
    /\ UNCHANGED <<stream, started, ready, stopped>>

(* The stream is open, and callbacks run, before the future is assigned.   *)
Subscribe ==
    /\ MainStep("serving", "opening")
    /\ stream' = "open"
    /\ UNCHANGED <<started, ready, stopped>>

(* subscribe() itself raises, and run() leaves by its finally clause. *)
SubscribeFails ==
    /\ main = "serving"
    /\ breaks < MaxBreaks
    /\ breaks' = breaks + 1
    /\ main' = "leaving"
    /\ UNCHANGED <<stream, stop, early, started, ready, stopped, callbackVars,
                   queueVars, emitted, starts, signals>>

AssignFuture ==
    /\ MainStep("opening", "assigned")
    /\ UNCHANGED <<stream, started, ready, stopped>>

MarkStarted ==
    /\ MainStep("assigned", "marked")
    /\ started' = TRUE
    /\ UNCHANGED <<stream, ready, stopped>>

MarkReady ==
    /\ MainStep("marked", "waiting")
    /\ ready' = TRUE
    /\ UNCHANGED <<stream, started, stopped>>

(* streaming_future.result() returns after a cancellation. *)
ResultReturns ==
    /\ MainStep("waiting", "leaving")
    /\ stream = "cancelled"
    /\ UNCHANGED <<stream, started, ready, stopped>>

(* It raises when the stream has failed; with stop_event set the error is  *)
(* dropped.                                                                *)
ResultRaises ==
    /\ MainStep("waiting", "leaving")
    /\ stream = "failed"
    /\ IF stop THEN UNCHANGED <<started, ready>>
               ELSE started' = FALSE /\ ready' = FALSE
    /\ UNCHANGED <<stream, stopped>>

(* The finally clause of run(). *)
Unmark ==
    /\ MainStep("leaving", "unmarked")
    /\ started' = FALSE
    /\ UNCHANGED <<stream, ready, stopped>>

Unready ==
    /\ MainStep("unmarked", "closing")
    /\ ready' = FALSE
    /\ UNCHANGED <<stream, started, stopped>>

CloseSubscriber ==
    /\ MainStep("closing", "stopping")
    /\ stream' = "closed"
    /\ UNCHANGED <<started, ready, stopped>>

StopPublisher ==
    /\ MainStep("stopping", "stopped")
    /\ stopped' = TRUE
    /\ UNCHANGED <<stream, started, ready>>

Main ==
    \/ InstallHandlers \/ StartHealthServer \/ Subscribe \/ SubscribeFails
    \/ AssignFuture \/ MarkStarted \/ MarkReady \/ ResultReturns \/ ResultRaises
    \/ Unmark \/ Unready \/ CloseSubscriber \/ StopPublisher

(* Mistake: the handler leaves the stream alone. *)
SignalWithoutCancel ==
    /\ main \notin {"booting", "stopped"}
    /\ signals < MaxSignals
    /\ signals' = signals + 1
    /\ stop' = TRUE
    /\ ready' = FALSE
    /\ UNCHANGED <<stream, early, main, started, stopped, callbackVars,
                   queueVars, emitted, starts, breaks>>

(* _handle_signal, on the main thread between two of its steps.            *)
Signal ==
    /\ main \notin {"booting", "stopped"}
    /\ signals < MaxSignals
    /\ signals' = signals + 1
    /\ stop' = TRUE
    /\ ready' = FALSE
    /\ IF main \in FutureUnset
       THEN early' = TRUE /\ UNCHANGED stream
       ELSE /\ stream' = IF stream = "open" THEN "cancelled" ELSE stream
            /\ UNCHANGED early
    /\ UNCHANGED <<main, started, stopped, callbackVars, queueVars,
                   emitted, starts, breaks>>

(* The streaming pull gives up on an error it cannot retry. *)
StreamBreaks ==
    /\ stream = "open"
    /\ breaks < MaxBreaks
    /\ breaks' = breaks + 1
    /\ stream' = "failed"
    /\ UNCHANGED <<main, stop, early, started, ready, stopped, callbackVars,
                   queueVars, emitted, starts, signals>>

(* The interpreter waits for the callback threads before it exits; the pod *)
(* is then started again.                                                  *)
Exit ==
    /\ main = "stopped"
    /\ \A c \in Callback : pc[c] = "idle"
    /\ starts < MaxStarts
    /\ starts' = starts + 1
    /\ signals' = 0
    /\ Boot
    /\ UNCHANGED <<queueVars, emitted, breaks>>

(* The process is killed, or dies of a signal before it has handlers.      *)
Kill ==
    /\ starts < MaxStarts
    /\ starts' = starts + 1
    /\ signals' = 0
    /\ Boot
    /\ UNCHANGED <<queueVars, emitted, breaks>>

-----------------------------------------------------------------------------
(* _callback *)

(* A step of callback c from location l. *)
CallbackStep(c, l) ==
    /\ pc[c] = l
    /\ UNCHANGED <<mainVars, boundVars>>

(* At least once: a pending message may reach a second callback.           *)
Deliver(c, m) ==
    /\ CallbackStep(c, "idle")
    /\ stream = "open"
    /\ status[m] = "pending"
    /\ attempts[m] < MaxDeliveries
    /\ attempts' = [attempts EXCEPT ![m] = @ + 1]
    /\ pc' = [pc EXCEPT ![c] = "handling"]
    /\ msg' = [msg EXCEPT ![c] = m]
    /\ sent' = [sent EXCEPT ![c] = 0]
    /\ UNCHANGED <<status, emitted>>

Process(c) ==
    /\ CallbackStep(c, "handling")
    /\ \E l \in {"publishing", "failed"} : pc' = [pc EXCEPT ![c] = l]
    /\ UNCHANGED <<msg, sent, queueVars, emitted>>

(* The next output; the publisher refuses once it is stopped.              *)
Publish(c) ==
    /\ CallbackStep(c, "publishing")
    /\ ~stopped
    /\ sent[c] < Outputs[msg[c]]
    /\ emitted' = [emitted EXCEPT ![msg[c]] = @ \cup {sent[c] + 1}]
    /\ sent' = [sent EXCEPT ![c] = @ + 1]
    /\ UNCHANGED <<pc, msg, queueVars>>

(* Mistake: an output that cannot be published is skipped. *)
PublishErrorSkips(c) ==
    /\ CallbackStep(c, "publishing")
    /\ sent[c] < Outputs[msg[c]]
    /\ sent' = [sent EXCEPT ![c] = @ + 1]
    /\ UNCHANGED <<pc, msg, queueVars, emitted>>

(* It raises, with or without effect; what went before stays published.    *)
PublishError(c) ==
    /\ CallbackStep(c, "publishing")
    /\ sent[c] < Outputs[msg[c]]
    /\ \/ UNCHANGED emitted
       \/ ~stopped /\ emitted' = [emitted EXCEPT ![msg[c]] = @ \cup {sent[c] + 1}]
    /\ pc' = [pc EXCEPT ![c] = "failed"]
    /\ UNCHANGED <<msg, sent, queueVars>>

(* Only an open stream carries the acknowledgement to Pub/Sub; one that is *)
(* being cancelled may.                                                    *)
Ack(c) ==
    /\ CallbackStep(c, "publishing")
    /\ sent[c] = Outputs[msg[c]]
    /\ \/ /\ stream \in {"open", "cancelled"}
          /\ status' = [status EXCEPT ![msg[c]] =
                           IF @ = "pending" THEN "acked" ELSE @]
       \/ stream # "open" /\ UNCHANGED status
    /\ pc' = [pc EXCEPT ![c] = "leaving"]
    /\ UNCHANGED <<msg, sent, attempts, emitted>>

(* message.nack(). *)
Nack(c) ==
    /\ CallbackStep(c, "failed")
    /\ pc' = [pc EXCEPT ![c] = "leaving"]
    /\ UNCHANGED <<msg, sent, queueVars, emitted>>

(* Mistake: the callback keeps the message it has done with. *)
LeaveKeepsMessage(c) ==
    /\ CallbackStep(c, "leaving")
    /\ pc' = [pc EXCEPT ![c] = "idle"]
    /\ UNCHANGED <<msg, sent, queueVars, emitted>>

(* The finally clause. *)
Leave(c) ==
    /\ CallbackStep(c, "leaving")
    /\ pc' = [pc EXCEPT ![c] = "idle"]
    /\ msg' = [msg EXCEPT ![c] = NoMessage]
    /\ UNCHANGED <<sent, queueVars, emitted>>

Work(c) ==
    \/ Process(c) \/ Publish(c) \/ PublishError(c) \/ Ack(c)
    \/ Nack(c) \/ Leave(c)

DeadLetter(m) ==
    /\ status[m] = "pending"
    /\ attempts[m] = MaxDeliveries
    /\ \A c \in Callback : msg[c] # m
    /\ status' = [status EXCEPT ![m] = "dead-lettered"]
    /\ UNCHANGED <<mainVars, callbackVars, attempts, emitted, boundVars>>

-----------------------------------------------------------------------------
Next ==
    \/ Main \/ Signal \/ StreamBreaks \/ Exit \/ Kill
    \/ \E m \in Message : DeadLetter(m)
    \/ \E c \in Callback : Work(c) \/ \E m \in Message : Deliver(c, m)

Spec == Init /\ [][Next]_vars

(* The operating system runs the main thread. *)
Fairness == WF_vars(Main)

-----------------------------------------------------------------------------
(* Properties *)

(* _callback 143-204 keeps the promise of AtLeastOnce: whatever order main *)
(* thread, callbacks, signals, stream failures and kills take, a message   *)
(* is settled only with all its outputs published, in order.               *)
Promise == INSTANCE AtLeastOnce WITH
               Message <- Message, Outputs <- Outputs,
               status  <- status,  emitted <- emitted
KeepsPromise == Promise!Spec

(* _handle_signal 288-293 and run 295-313: a process asked to stop closes  *)
(* its stream and its publisher in the end, or is killed first.  A request *)
(* that comes before the future is assigned is lost: early.                *)
StopsOnSignal ==
    stop /\ ~early ~> main \in {"stopped", "booting"}
=============================================================================
