SPECIFICATION Spec
CONSTANTS
    d1 = d1
    d2 = d2
    d3 = d3
    d4 = d4
    d5 = d5
    Message = {m1}
    NoMessage = NoMessage
    Worker = {w1}
    DecisionId = {d1}
    Events <- OneDecision
    ExecutionMode = "controlled"
    Lease = 1
    MaxDeliveries = 2
    MaxClock = 2
INVARIANTS
    RolloutAtMostOnce
CHECK_DEADLOCK FALSE
