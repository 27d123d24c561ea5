SPECIFICATION FairSpec
CONSTANTS
    h1 = h1
    h2 = h2
    p1 = p1
    e1 = e1
    f1 = f1
    NoJob = NoJob
    NoHandler = NoHandler
    MaxFindings = 2
    Respelled <- Spelling
    Pulled = {e1}
    Hooked = {f1}
    Inputs <- SmallInputs
    BatchSize = 2
    MaxRetries = 2
    Pod = {p1}
    Handler = {h1, h2}
    PodOf <- ThePods
    MaxDeliveries = 2
    MaxJobs = 2
    MaxFaults = 1
INVARIANTS
    TypeOK
    SettledIsPublished
    CopiesOnlyOfUnnamed
    OwnSource
    CopiesShareEntity
PROPERTIES
    DeafPodIsTakenOut
    UploadEnds
CHECK_DEADLOCK FALSE
