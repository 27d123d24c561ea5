---------------------------- MODULE PolicyRevisions ----------------------------
(***************************************************************************)
(* One incident before the governance policy, revision after revision: a   *)
(* behaviour starts with any input and lets the analysis gain confidence,  *)
(* signals, sources and evidence one unit at a time, which is what later   *)
(* revisions of the incident bring to the governance agent.                *)
(***************************************************************************)
EXTENDS RemediationPolicy

CONSTANTS
    FirstInputs,    \* what a first revision may put before the policy
    MaxConfidence,  \* bounds on confidence, and on signals, sources and
    MaxCount        \* evidence items

ASSUME RevisionsAssumption ==
    /\ FirstInputs \subseteq PolicyInput
    /\ MaxConfidence \in 0 .. 100
    /\ MaxCount \in Nat

VARIABLE input

FirstRevision == input \in FirstInputs

GainConfidence ==
    /\ input.confidence < MaxConfidence
    /\ input' = [input EXCEPT !.confidence = @ + 1]

GainSignal ==
    /\ input.signal_count < MaxCount
    /\ input' = [input EXCEPT !.signal_count = @ + 1]

GainSource ==
    /\ input.source_count < MaxCount
    /\ input' = [input EXCEPT !.source_count = @ + 1]

GainEvidence ==
    /\ input.evidence_count < MaxCount
    /\ input' = [input EXCEPT !.evidence_count = @ + 1]

NextRevision == GainConfidence \/ GainSignal \/ GainSource \/ GainEvidence

Revisions == FirstRevision /\ [][NextRevision]_input

-----------------------------------------------------------------------------
(* remediation.rego 122-151: whatever the input, exactly one body of the   *)
(* complete rule fires, so OPA neither fails nor falls back to its default. *)
DecisionUnique == \E d \in DecisionValue : FiringBodies(input) = {d}

(* remediation.rego 82-120: the rules that explain a request for approval  *)
(* cover every way in which the automatic path is refused, so a reviewer   *)
(* is told at least one reason.                                            *)
ApprovalExplained ==
    Decision(input) = "REQUIRE_APPROVAL" => ApprovalReasons(input) # {}

(* More support for the same recommendation never makes the policy         *)
(* stricter: no revision of an incident loses its restart or its reviewer  *)
(* by gathering more evidence.                                             *)
NeverStricter ==
    [][Permissiveness(Decision(input')) >= Permissiveness(Decision(input))]_input
=============================================================================
