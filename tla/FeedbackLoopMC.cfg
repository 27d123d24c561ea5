SPECIFICATION Spec
CONSTANTS
    MaxFindings = 2
    Respelled <- Spelling
    WindowLength = 15
    MinSignals = 2
    Threshold = 40
    MaxSignals = 25
    Seed <- Seeds
    Warning <- Warnings
    Target <- App
    Entity <- Entities
    MaxMishaps = 1
    MaxCalls = 10
INVARIANTS
    TypeOK
    ActiveWindowsArePaidFor
    RestartsAreBounded
CHECK_DEADLOCK FALSE
