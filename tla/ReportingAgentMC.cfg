SPECIFICATION FairAgentSpec
CONSTANTS
    m1 = m1
    NoMessage = NoMessage
    Message = {m1}
    Outputs <- One
    Setting <- InUse
    Callback = {c1, c2}
    MaxDeliveries = 2
    MaxStarts = 2
    MaxSignals = 2
    MaxBreaks = 1
INVARIANTS
    AgentTypeOK
    SilenceIsOnRecord
    NotifiedOnceADelivery
PROPERTIES
    KeepsPromise
    StopsOnSignal
CHECK_DEADLOCK FALSE
