SPECIFICATION Spec
CONSTANTS
    e1 = e1
    o1 = o1
    o2 = o2
    o3 = o3
    falco = falco
    trivy = trivy
    runtime = runtime
    vulnerability = vulnerability
    NoMessage = NoMessage
    NoIncident = NoIncident
    Observation <- Rising
    Id = {o1, o2, o3}
    Entity = {e1}
    Source = {falco, trivy}
    Category = {runtime, vulnerability}
    Message = {m1, m2, m3}
    Worker = {w1, w2}
    WindowLength = 0
    MinSignals = 2
    Threshold = 40
    MaxSignals = 2
    MaxDeliveries = 2
    MaxClock = 1
SYMMETRY CorrelationSymmetry
INVARIANTS
    TypeOK
    SignalsAreSeen
    RevisionNamesIncident
    LostOnlyByFailure
CHECK_DEADLOCK FALSE
