----------------------------- MODULE FeedbackLoopMC -----------------------------
(***************************************************************************)
(* TLC instance of FeedbackLoop with the weights and thresholds of the     *)
(* deployment.                                                             *)
(***************************************************************************)
EXTENDS FeedbackLoop, TLC

App == {<<"namespace", <<"app01">> >>, <<"deployment", <<"broken", "app">> >>}
Pod == {<<"namespace", <<"app01">> >>, <<"pod", <<"broken", "app", "7d9f", "xk2lp">> >>}

Alert(n, level) ==
    Observed(Falco(Item(<<"alert", n>>, "rule", level, FALSE, Pod)), <<"alert", n>>)

(* A critical runtime alert on the pod, and a tool call of somebody else   *)
(* on the deployment.                                                      *)
Foreign == Observed(McpAudit(Item(<<"tool", 1>>, "get_logs", "HIGH", TRUE, App)), <<"tool", 1>>)
Seeds == {Alert(1, "CRITICAL"), Foreign}

(* What a crashing container logs, on the same pod. *)
Crash == Observed(Logging(Item(<<"log", 1>>, "entry", "WARNING", TRUE, Pod)), <<"log", 1>>)
Warnings == {Crash}

Spelling == "Falco" :> "falco"
Entities == {o.entity : o \in Seeds \cup Warnings \cup {AuditSignal(0, "success")}}
=============================================================================
