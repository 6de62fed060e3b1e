SPECIFICATION Spec
CONSTANTS
    Jobs = {1, 2}
    NoJob = 0
    MaxAttempts = 2
    Queues = {"default"}
    QueueOf <- OneQueue
    CreatedAt <- BuildOrder
    Workers = {w1, w2}
    AtomicPop = TRUE
    PrematureRecovery = FALSE
    DriverMayFail = FALSE
    Crashable = {w2}
    Retriers = {r1}
    AdminOps = {"delete", "prune", "flush", "promote", "emergency"}
    MaxGrants = 2
INVARIANTS
    LeaseInv
    CopyCurrent
PROPERTIES
    CompletedIsFinal
    ImplementsLifecycle
CHECK_DEADLOCK FALSE
