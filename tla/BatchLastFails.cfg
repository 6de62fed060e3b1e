SPECIFICATION FairSpec
CONSTANTS
    Jobs = {j1, j2}
    Workers = {w1, w2}
    NoJob = NoJob
    AtomicIncrement = TRUE
    UpdateMerges = FALSE
    Local = {w1, w2}
    DriverMayFail = FALSE
    Crashable = {}
    MaxFaults = 0
PROPERTIES
    FinallyRuns
CHECK_DEADLOCK FALSE
