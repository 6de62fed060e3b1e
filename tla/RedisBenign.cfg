SPECIFICATION FairSpec
CONSTANTS
    Jobs = {1, 2}
    NoJob = 0
    MaxAttempts = 2
    Queues = {"default"}
    QueueOf <- OneQueue
    Workers = {w1, w2}
    PrematureRecovery = FALSE
    DriverMayFail = FALSE
    Crashable = {w2}
    CrashInPop = FALSE
    Admins = {a1}
    AdminOps = {"retry"}
    MaxFaults = 2
INVARIANTS
    IndexesMatch
PROPERTIES
    ImplementsLifecycle
    EveryJobSettles
CHECK_DEADLOCK FALSE
