SPECIFICATION Spec
CONSTANTS
    Jobs = {1, 2}
    NoJob = 0
    MaxAttempts = 2
    Queues = {"first", "default"}
    QueueOf <- TwoQueues
    CreatedAt <- BuildOrder
    Workers = {w1, w2}
    AtomicPop = TRUE
    PrematureRecovery = TRUE
    DriverMayFail = TRUE
    Crashable = {w1, w2}
    Retriers = {r1, r2}
    AdminOps = {"prune"}
    MaxGrants = 1
INVARIANTS
    AttemptBudget
PROPERTIES
    BackoffRespected
    RemovedStaysRemoved
CHECK_DEADLOCK FALSE
