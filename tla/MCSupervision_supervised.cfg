SPECIFICATION ObservedSpec
CONSTANTS
    NQueues = 2
    Deleted = {1}
    CheckEvery = 2
    MaxFailures = 2
    FailTimeout = 2
    SignalPeriod = 1
    MaxMessages = 0
    Budget <- Bounds
    Signals = 1
    Writes = 1
    Faults = 1
    Checks = 1
    Supply = 2
    Window = 4
    Patience = 1
    UpdateEvery = 2
    EmptyEvery = 2
    Rounds = 2
    MaxDelta = 1
    Leak = 2
INVARIANTS
    TypeObserved
    KilledForJobsOnly
PROPERTIES
    PollsAgain
CHECK_DEADLOCK FALSE
