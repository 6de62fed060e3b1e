SPECIFICATION FairSpec
CONSTANTS
    Jobs = {j1, j2}
    Workers = {w1, w2}
    NoJob = NoJob
    AtomicIncrement = TRUE
    UpdateMerges = FALSE
    Local = {w1}
    DriverMayFail = TRUE
    Crashable = {w2}
    MaxFaults = 3
INVARIANTS
    CompletedOnce
    FailedOnce
PROPERTIES
    FailureIsAnnounced
CHECK_DEADLOCK FALSE
