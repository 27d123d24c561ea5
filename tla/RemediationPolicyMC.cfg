SPECIFICATION Revisions
CONSTANTS
    AllowedNamespaces = {"app01"}
    AllowedDeployments = {"broken-app"}
    ApprovalConfidence = 1
    AutomaticConfidence = 2
    AutomaticMinSignals = 3
    AutomaticMinSources = 2
    AutomaticMinEvidence = 3
    FirstInputs <- MCInputs
    MaxConfidence = 2
    MaxCount = 3
INVARIANTS
    DecisionUnique
    ApprovalExplained
PROPERTY NeverStricter
CHECK_DEADLOCK FALSE
