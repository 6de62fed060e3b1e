SPECIFICATION FairSpec
CONSTANTS
    Jobs = {j1}
    NoJob = NoJob
    MaxAttempts = 2
    Queues = {"default"}
    QueueOf <- OneQueue
    Tasks = {1, 2, 3}
    MinWorkers = 1
    MaxWorkers = 2
    MaxStarts = 2
    MaxHasty = 1
    PrematureRecovery = TRUE
    Some = 1
    Lots = 2
    MaxGrants = 1
INVARIANTS
    OneRunner
    NotStranded
    StopIsFinal
    PoolIsWhatRuns
PROPERTIES
    BackoffRespected
    EveryJobSettles
CHECK_DEADLOCK FALSE
