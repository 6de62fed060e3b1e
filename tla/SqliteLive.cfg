SPECIFICATION FairSpec
CONSTANTS
    Jobs = {1, 2}
    NoJob = 0
    MaxAttempts = 2
    Queues = {"default"}
    QueueOf <- OneQueue
    CreatedAt <- BuildOrder
    Workers = {w1, w2}
    AtomicPop = FALSE
    PrematureRecovery = FALSE
    DriverMayFail = TRUE
    Crashable = {w2}
    Retriers = {r1}
    AdminOps = {}
    MaxGrants = 1
INVARIANTS
    OneRunner
PROPERTIES
    EveryJobSettles
CHECK_DEADLOCK FALSE
