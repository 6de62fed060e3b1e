SPECIFICATION LiveSpec
CONSTANTS
    Coroutines = {c1, c2}
    NoOne = NoOne
    Drivers <- AllDrivers
    AutoCleanup = TRUE
    MaxRetries = 2
    Cancellable = {c1}
    Calls <- PushManyAndComplete
    Capacity = 2
    MaxDepth = 2
INVARIANTS
    GuardReleased
    GuardStopsRecursion
    SpaceIsReclaimed
PROPERTIES
    CallsReturn
CHECK_DEADLOCK FALSE
