SPECIFICATION Spec
CONSTANTS
    Request = {r1}
    Message = {m1, m2}
    Worker = {w1, w2}
    NoMessage = NoMessage
    NoEnvelope = NoEnvelope
    NoDecision = NoDecision
    Signature = {TRUE, FALSE}
    ApprovalTTL = 3
    EnvelopeTTL = 3
    ReviewerSkew = 0
    MaxSkew = 0
    PermitTTL = 2
    MaxDeliveries = 2
    MaxClock = 3
SYMMETRY CallbackSymmetry
INVARIANTS
    TypeOK
    LiveDecisionsAgree
    LostOnlyByExpiry
    DecisionIsReviewed
    StaleResolutionHasExpired
CHECK_DEADLOCK FALSE
