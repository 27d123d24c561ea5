SPECIFICATION Spec
CONSTANTS
    Analysis = {a1}
    Content = {c1}
    Message = {m1}
    Worker = {w1}
    NoMessage = NoMessage
    NoRequest = NoRequest
    Payloads <- ApprovalPayloads
    ApprovalTTL = 1
    MaxDeliveries = 3
    MaxClock = 2
INVARIANTS
    RequiredApprovalIsRequested
CHECK_DEADLOCK FALSE
