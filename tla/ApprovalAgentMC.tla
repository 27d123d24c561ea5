---------------------------- MODULE ApprovalAgentMC ----------------------------
(* Small instances of ApprovalAgent for TLC. *)
EXTENDS ApprovalAgent, TLC

(* Callbacks are interchangeable.  Messages are not: approval_id names one. *)
CallbackSymmetry == Permutations(Worker)
=============================================================================
