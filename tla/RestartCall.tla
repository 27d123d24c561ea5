------------------------------ MODULE RestartCall ------------------------------
(***************************************************************************)
(* What python/remediation_agent.py may rely on when it calls              *)
(* restart_deployment through the gateway (call_mcp_restart, 141-188): a   *)
(* call restarts the deployment at most once, and only if it passes every  *)
(* gate; an accepted call has restarted it, a refused one never will; of a *)
(* failed one nothing is known, now or later.  RemediationAgent's McpCall  *)
(* and LateRestart are the steps of this specification.                    *)
(***************************************************************************)
CONSTANT Call

VARIABLES
    permitted,  \* the calls that pass every gate
    answer,     \* answer[c]: "none", "accepted", "refused" or "failed"
    restarted   \* the calls that have restarted the deployment

Init ==
    /\ permitted \subseteq Call
    /\ answer = [c \in Call |-> "none"]
    /\ restarted = {}

Restart(c) ==
    /\ c \in permitted \ restarted
    /\ restarted' = restarted \cup {c}
    /\ UNCHANGED <<permitted, answer>>

Accept(c) ==
    /\ answer[c] = "none" /\ c \in restarted
    /\ answer' = [answer EXCEPT ![c] = "accepted"]
    /\ UNCHANGED <<permitted, restarted>>

Refuse(c) ==
    /\ answer[c] = "none" /\ c \notin permitted
    /\ answer' = [answer EXCEPT ![c] = "refused"]
    /\ UNCHANGED <<permitted, restarted>>

Fail(c) ==
    /\ answer[c] = "none"
    /\ answer' = [answer EXCEPT ![c] = "failed"]
    /\ UNCHANGED <<permitted, restarted>>

Next == \E c \in Call : Restart(c) \/ Accept(c) \/ Refuse(c) \/ Fail(c)

Spec == Init /\ [][Next]_<<permitted, answer, restarted>>
=============================================================================
