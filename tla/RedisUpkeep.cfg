SPECIFICATION Spec
CONSTANTS
    Jobs = {1, 2}
    Queues = {"default"}
    QueueOf <- OneQueue
    Any = "any"
    Terminal = {"failed"}
    Keepers = {"pruner", "operator"}
    Role <- PrunerAndOperator
    Drains <- OldFailedOrAll
    WalkKeys <- AllAndQueueFailed
    Deletions <- Both
    Batch = 1
    MaxHolders = 1
    MaxClobbered = 1
    Retire = TRUE
INVARIANTS
    NoSilentDrift
    RebuildIsWhole
PROPERTIES
    NothingPassedOver
    PruneSparesUnfinished
    DrainAdvances
CHECK_DEADLOCK FALSE
