SPECIFICATION Spec
CONSTANTS
    d1 = d1
    d2 = d2
    d3 = d3
    d4 = d4
    d5 = d5
    Message = {m1, m2}
    NoMessage = NoMessage
    Worker = {w1, w2}
    DecisionId = {d1, d2, d3, d4, d5}
    Events <- AllKinds
    ExecutionMode = "controlled"
    Lease = 1
    MaxDeliveries = 2
    MaxClock = 1
SYMMETRY CallbackSymmetry
INVARIANTS
    MutualExclusion
    RedeliveryAloneIsSafe
    ReportIsTruthful
    RestartAuthorized
    ReportLostOnlyByExpiry
PROPERTIES
    CompletedIsFinal
CHECK_DEADLOCK FALSE
