SPECIFICATION Spec
CONSTANTS
    Analysis = {a1}
    Content = {c1, c2}
    Message = {m1, m2}
    Worker = {w1, w2}
    NoMessage = NoMessage
    NoRequest = NoRequest
    Payloads <- AllPayloads
    ApprovalTTL = 1
    MaxDeliveries = 2
    MaxClock = 2
SYMMETRY GovernanceSymmetry
INVARIANTS
    LiveRequestIsStored
    EvidenceFirst
PROPERTIES
    ResolvedIsNotReopened
CHECK_DEADLOCK FALSE
