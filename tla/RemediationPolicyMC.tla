--------------------------- MODULE RemediationPolicyMC ---------------------------
(***************************************************************************)
(* TLC starts from the policy inputs of every kind without any support,    *)
(* and lets them grow past every threshold.                                *)
(***************************************************************************)
EXTENDS PolicyRevisions

MCInputs ==
    [ action                  : {"none", "restart_deployment", "scale"},
      target_namespace        : {"app01", "kube-system"},
      target_deployment       : {"broken-app", "other"},
      assessed_severity       : Severity,
      confidence              : {0},
      operational_risk        : OperationalRisk,
      requires_human_approval : BOOLEAN,
      signal_count            : {1},
      source_count            : {1},
      evidence_count          : {1},
      automation_mode         : {"disabled", "controlled"} ]
=============================================================================
