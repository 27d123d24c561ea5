-------------------------- MODULE CorrelationAgentMC --------------------------
(* Small instances of CorrelationAgent for TLC: three observations that     *)
(* raise a window through its levels.                                      *)
EXTENDS CorrelationAgent, TLC
CONSTANTS e1, o1, o2, o3, falco, trivy, runtime, vulnerability

Observe(i, e, s, c, n, crit) ==
    [id |-> i, entity |-> e, source |-> s, category |-> c, weight |-> n, critical |-> crit]

Rising == { Observe(o1, e1, falco, runtime, 20, FALSE),
            Observe(o2, e1, trivy, vulnerability, 30, FALSE),
            Observe(o3, e1, falco, runtime, 50, TRUE) }
Single == { Observe(o3, e1, falco, runtime, 50, TRUE) }

(* Messages and callbacks are interchangeable. *)
CorrelationSymmetry == Permutations(Message) \cup Permutations(Worker)
=============================================================================
