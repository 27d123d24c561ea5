--------------------------- MODULE GovernanceAgentMC ---------------------------
(* Small instances of GovernanceAgent for TLC. *)
EXTENDS GovernanceAgent, TLC

(* Analyses that all require approval, and analyses with any verdict. *)
ApprovalPayloads == {p \in PayloadType : p.verdict = "REQUIRE_APPROVAL"}
AllPayloads == PayloadType

(* Messages, callbacks and contents are interchangeable. *)
GovernanceSymmetry ==
    Permutations(Message) \cup Permutations(Worker) \cup Permutations(Content)
=============================================================================
