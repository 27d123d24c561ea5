--------------------------- MODULE RemediationAgentMC ---------------------------
(***************************************************************************)
(* TLC instances of RemediationAgent: the decisions that the governance    *)
(* and approval agents publish, and what can be wrong with a PERMIT.       *)
(***************************************************************************)
EXTENDS RemediationAgent, TLC

CONSTANTS d1, d2, d3, d4, d5

(* governance_agent: a PERMIT the policy gave without a human. *)
AutomaticPermit(d, expiry) ==
    [ id |-> d, decision |-> "PERMIT", source |-> "dgc-opa",
      policyTrusted |-> TRUE, policyApproved |-> TRUE, targetAllowed |-> TRUE,
      approvalRequired |-> FALSE, approvalComplete |-> FALSE,
      expires |-> expiry ]

(* approval_agent: a PERMIT a human signed. *)
HumanPermit(d, expiry) ==
    [ AutomaticPermit(d, expiry) EXCEPT !.source = "kms-human-approval",
                                        !.approvalRequired = TRUE,
                                        !.approvalComplete = TRUE ]

(* A PERMIT under a policy that the executor no longer has. *)
StalePermit(d, expiry) == [ AutomaticPermit(d, expiry) EXCEPT !.policyTrusted = FALSE ]

(* A PERMIT that waits for a human and says it is one. *)
UnsignedPermit(d, expiry) == [ HumanPermit(d, expiry) EXCEPT !.approvalComplete = FALSE ]

(* A decision that executes nothing. *)
Refusal(d, value) ==
    [ AutomaticPermit(d, 2) EXCEPT !.decision = value,
                                   !.policyApproved = FALSE,
                                   !.approvalRequired = value = "REQUIRE_APPROVAL" ]

(* A second expiry for the automatic PERMIT, for the governance agent      *)
(* recomputes it when its own input is redelivered.  The id is a hash of   *)
(* the decision's value, so different kinds have different ids.            *)
OneDecision == {AutomaticPermit(d1, 1), AutomaticPermit(d1, 2)}
Unexecuted ==
    { StalePermit(d2, 2), UnsignedPermit(d3, 2),
      Refusal(d4, "DENY"), Refusal(d5, "REQUIRE_APPROVAL") }
AllKinds == OneDecision \cup Unexecuted

CallbackSymmetry == Permutations(Worker) \cup Permutations(Message)
=============================================================================
