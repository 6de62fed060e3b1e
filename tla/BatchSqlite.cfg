SPECIFICATION FairSpec
CONSTANTS
    Jobs = {j1, j2, j3}
    Workers = {w1, w2, w3}
    NoJob = NoJob
    AtomicIncrement = FALSE
    UpdateMerges = FALSE
    Local = {w1, w2}
    DriverMayFail = FALSE
    Crashable = {w3}
    MaxFaults = 0
INVARIANTS
    ThenMeansSuccess
    FinallyMeansFinished
PROPERTIES
    SuccessIsAnnounced
CHECK_DEADLOCK FALSE
