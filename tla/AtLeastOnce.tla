------------------------------ MODULE AtLeastOnce ------------------------------
(***************************************************************************)
(* What python/agent_runtime.py promises of the messages of a subscription *)
(* (AgentRuntime._callback, 143-204): a message is settled only after all  *)
(* of its outputs were published; what it has to repeat, it repeats from   *)
(* the first output on; and a settled message stays settled.  The          *)
(* dead-letter policy may give a message up.                               *)
(***************************************************************************)
EXTENDS Integers

CONSTANTS Message, Outputs      \* Outputs[m]: events process() returns for m

VARIABLES
    status,     \* status[m]: "pending", "acked" or "dead-lettered"
    emitted     \* emitted[m]: which of its outputs are on the topic

Init ==
    /\ status = [m \in Message |-> "pending"]
    /\ emitted = [m \in Message |-> {}]

(* An output, the first time or again, after the ones before it.  A second *)
(* delivery may still be at work when the first has settled the message.   *)
Emit(m) ==
    /\ \E k \in 1 .. Outputs[m] :
          /\ 1 .. (k - 1) \subseteq emitted[m]
          /\ emitted' = [emitted EXCEPT ![m] = @ \cup {k}]
    /\ UNCHANGED status

Settle(m) ==
    /\ status[m] = "pending"
    /\ emitted[m] = 1 .. Outputs[m]
    /\ status' = [status EXCEPT ![m] = "acked"]
    /\ UNCHANGED emitted

GiveUp(m) ==
    /\ status[m] = "pending"
    /\ status' = [status EXCEPT ![m] = "dead-lettered"]
    /\ UNCHANGED emitted

Next == \E m \in Message : Emit(m) \/ Settle(m) \/ GiveUp(m)

Spec == Init /\ [][Next]_<<status, emitted>>
=============================================================================
