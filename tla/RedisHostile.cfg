SPECIFICATION Spec
CONSTANTS
    Jobs = {1}
    NoJob = 0
    MaxAttempts = 2
    Queues = {"default"}
    QueueOf <- OneQueue
    Workers = {w1, w2}
    PrematureRecovery = TRUE
    DriverMayFail = TRUE
    Crashable = {w1, w2}
    CrashInPop = TRUE
    Admins = {a1}
    AdminOps = {"retry", "promote", "delete", "prune"}
    MaxFaults = 2
INVARIANTS
    ReadyOnce
    NotStranded
PROPERTIES
    BackoffRespected
CHECK_DEADLOCK FALSE
