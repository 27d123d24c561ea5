SPECIFICATION Spec
CONSTANTS
    c1 = c1
    c2 = c2
    Call = {c1, c2}
    Requests <- SomeRequests
    MaxCrashes = 1
SYMMETRY Symmetry
INVARIANTS
    TypeOK
    EvidenceLostOnlyByFailure
    AuditTellsTheTruth
PROPERTIES
    ImplementsRestartCall
CHECK_DEADLOCK FALSE
