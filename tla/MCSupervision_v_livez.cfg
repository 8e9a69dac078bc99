SPECIFICATION ObservedSpec
CONSTANTS
    NQueues = 2
    Deleted = {1}
    CheckEvery = 2
    MaxFailures = 2
    FailTimeout = 2
    SignalPeriod = 1
    MaxMessages = 0
    Budget <- Bounds
    Signals = 1
    Writes = 0
    Faults = 1
    Checks = 1
    Supply = 2
    Window = 4
    Patience = 3
    UpdateEvery = 2
    EmptyEvery = 3
    Rounds = 3
    MaxDelta = 1
    Leak = 2
INVARIANT
    BusyIsAlive
CHECK_DEADLOCK FALSE
