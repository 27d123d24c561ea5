--------------------------- MODULE RemediationPolicy ---------------------------
(***************************************************************************)
(* The governance policy, policy/governance/remediation.rego, as operators *)
(* on one policy input.  A Rego rule is a Boolean; a partial set rule      *)
(* ("hard_denials contains ... if") is the set of reasons whose body holds; *)
(* the complete rule "decision" is the set of its bodies that hold, because *)
(* OPA fails the query when two of them hold with different values.         *)
(*                                                                         *)
(* A confidence is an integer percentage (the code compares floats in      *)
(* [0, 1], and only their order matters).                                  *)
(***************************************************************************)
EXTENDS Integers

CONSTANTS
    AllowedNamespaces,      \* ALLOWED_NAMESPACES of the governance agent
    AllowedDeployments,     \* ALLOWED_DEPLOYMENTS of the governance agent
    ApprovalConfidence,     \* thresholds.approval_confidence, in percent
    AutomaticConfidence,    \* thresholds.automatic_confidence, in percent
    AutomaticMinSignals,
    AutomaticMinSources,
    AutomaticMinEvidence

ASSUME ThresholdAssumption ==
    /\ ApprovalConfidence \in Int
    /\ AutomaticConfidence \in Int
    /\ AutomaticMinSignals \in Int
    /\ AutomaticMinSources \in Int
    /\ AutomaticMinEvidence \in Int

Severity == {"LOW", "MEDIUM", "HIGH", "CRITICAL"}
OperationalRisk == {"low", "medium", "high"}
DecisionValue == {"PERMIT", "DENY", "REQUIRE_APPROVAL", "NO_ACTION"}

(* What the governance agent sends to OPA; the model's answer is validated *)
(* against governance_models.IRAnalysis first, except that the policy      *)
(* itself also has a rule for an action outside the three literals.        *)
PolicyInput ==
    [ action                  : STRING,
      target_namespace        : STRING,
      target_deployment       : STRING,
      assessed_severity       : Severity,
      confidence              : 0 .. 100,
      operational_risk        : OperationalRisk,
      requires_human_approval : BOOLEAN,
      signal_count            : Int,
      source_count            : Nat,
      evidence_count          : Nat,
      automation_mode         : STRING ]

-----------------------------------------------------------------------------
NoAction(in) == in.action \in {"none", "investigate"}

NamespaceAllowed(in)   == in.target_namespace \in AllowedNamespaces
DeploymentAllowed(in)  == in.target_deployment \in AllowedDeployments
SeverityActionable(in) == in.assessed_severity \in {"HIGH", "CRITICAL"}
RiskApprovable(in)     == in.operational_risk \in {"low", "medium"}

HardDenialReason ==
    { "unsupported_action", "severity_below_high", "low_confidence",
      "risk_too_high", "namespace_not_listed", "deployment_not_listed",
      "few_signals", "little_evidence" }

(* hard_denials: does the denial rule with this reason have a true body? *)
HardDenialRule(in, reason) ==
    IF in.action # "restart_deployment"
    THEN reason = "unsupported_action" /\ ~NoAction(in)
    ELSE \/ reason = "severity_below_high"   /\ ~SeverityActionable(in)
         \/ reason = "low_confidence"        /\ in.confidence < ApprovalConfidence
         \/ reason = "risk_too_high"         /\ ~RiskApprovable(in)
         \/ reason = "namespace_not_listed"  /\ ~NamespaceAllowed(in)
         \/ reason = "deployment_not_listed" /\ ~DeploymentAllowed(in)
         \/ reason = "few_signals"           /\ in.signal_count < 2
         \/ reason = "little_evidence"       /\ in.evidence_count < 2

HardDenials(in) == { reason \in HardDenialReason : HardDenialRule(in, reason) }

SafeCandidate(in) ==
    /\ in.action = "restart_deployment"
    /\ HardDenials(in) = {}

(* Mistake: == where the policy has >=. *)
AutomaticCandidateExactSources(in) ==
    /\ SafeCandidate(in)
    /\ in.automation_mode = "controlled"
    /\ in.assessed_severity = "HIGH"
    /\ in.confidence >= AutomaticConfidence
    /\ in.operational_risk = "low"
    /\ ~in.requires_human_approval
    /\ in.signal_count >= AutomaticMinSignals
    /\ in.source_count = AutomaticMinSources
    /\ in.evidence_count >= AutomaticMinEvidence

AutomaticCandidate(in) ==
    /\ SafeCandidate(in)
    /\ in.automation_mode = "controlled"
    /\ in.assessed_severity = "HIGH"
    /\ in.confidence >= AutomaticConfidence
    /\ in.operational_risk = "low"
    /\ ~in.requires_human_approval
    /\ in.signal_count >= AutomaticMinSignals
    /\ in.source_count >= AutomaticMinSources
    /\ in.evidence_count >= AutomaticMinEvidence

(* Mistake: the rule forgets "not automatic_candidate". *)
ApprovalCandidateAny(in) == SafeCandidate(in)

ApprovalCandidate(in) ==
    /\ SafeCandidate(in)
    /\ ~AutomaticCandidate(in)

ApprovalReason ==
    { "mode_not_controlled", "analysis_requires", "critical", "medium_risk",
      "confidence", "signals", "sources", "evidence" }

(* Mistake: the rule about sources counts signals. *)
ApprovalReasonRuleSignals(in, reason) ==
    \/ reason = "mode_not_controlled" /\ in.automation_mode # "controlled"
    \/ reason = "analysis_requires"   /\ in.requires_human_approval
    \/ reason = "critical"            /\ in.assessed_severity = "CRITICAL"
    \/ reason = "medium_risk"         /\ in.operational_risk = "medium"
    \/ reason = "confidence"          /\ in.confidence < AutomaticConfidence
    \/ reason = "signals"             /\ in.signal_count < AutomaticMinSignals
    \/ reason = "sources"             /\ in.signal_count < AutomaticMinSources
    \/ reason = "evidence"            /\ in.evidence_count < AutomaticMinEvidence

(* approval_reasons: what the reviewer is told about the request. *)
ApprovalReasonRule(in, reason) ==
    \/ reason = "mode_not_controlled" /\ in.automation_mode # "controlled"
    \/ reason = "analysis_requires"   /\ in.requires_human_approval
    \/ reason = "critical"            /\ in.assessed_severity = "CRITICAL"
    \/ reason = "medium_risk"         /\ in.operational_risk = "medium"
    \/ reason = "confidence"          /\ in.confidence < AutomaticConfidence
    \/ reason = "signals"             /\ in.signal_count < AutomaticMinSignals
    \/ reason = "sources"             /\ in.source_count < AutomaticMinSources
    \/ reason = "evidence"            /\ in.evidence_count < AutomaticMinEvidence

ApprovalReasons(in) ==
    { reason \in ApprovalReason :
        ApprovalCandidate(in) /\ ApprovalReasonRule(in, reason) }

-----------------------------------------------------------------------------
(* The bodies of the complete rule "decision". *)
DecisionBody(in, d) ==
    \/ d = "NO_ACTION"        /\ NoAction(in)
    \/ d = "PERMIT"           /\ AutomaticCandidate(in)
    \/ d = "REQUIRE_APPROVAL" /\ ApprovalCandidate(in)
    \/ d = "DENY"             /\ ~NoAction(in) /\ HardDenials(in) # {}

FiringBodies(in) == { d \in DecisionValue : DecisionBody(in, d) }

(* The value OPA returns: the default when no body fires.  With two bodies *)
(* OPA returns an error, "CONFLICT" here.                                  *)
Decision(in) ==
    IF FiringBodies(in) = {} THEN "DENY"
    ELSE IF \E d \in FiringBodies(in) : FiringBodies(in) = {d}
         THEN CHOOSE d \in FiringBodies(in) : TRUE
         ELSE "CONFLICT"

-----------------------------------------------------------------------------
(* How much a decision allows: a refusal, a human's choice, an automatic   *)
(* restart.                                                                *)
Permissiveness(d) ==
    CASE d = "PERMIT"           -> 2
      [] d = "REQUIRE_APPROVAL" -> 1
      [] OTHER                  -> 0

(* The same recommendation backed by more: at least the confidence,        *)
(* signals, sources and evidence of in, all else equal.                    *)
BetterSupported(in, more) ==
    /\ more.confidence >= in.confidence
    /\ more.signal_count >= in.signal_count
    /\ more.source_count >= in.source_count
    /\ more.evidence_count >= in.evidence_count
    /\ \A f \in {"action", "target_namespace", "target_deployment",
                 "assessed_severity", "operational_risk",
                 "requires_human_approval", "automation_mode"} : more[f] = in[f]
=============================================================================
