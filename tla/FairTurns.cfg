SPECIFICATION LiveSpec
CONSTANTS
    Workers = {w1}
    Queues = {"mail", "default", "slow"}
    QueuesOf <- OneWorker
    DriverMayFail = TRUE
    Entries <- Schedule
    Configured = 3
    Importable = {"Report"}
    Malformed = {5}
INVARIANTS
    TurnComes
    OncePerInterval
PROPERTIES
    EveryEntryRuns
    EveryQueueServed
CHECK_DEADLOCK FALSE
