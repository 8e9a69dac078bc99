SPECIFICATION FairSpec
CONSTANTS
    NQueues = 2
    Deleted = {1}
    CheckEvery = 2
    MaxFailures = 2
    FailTimeout = 1
    SignalPeriod = 1
    MaxMessages = 3
    Budget <- Bounds
    Signals = 1
    Writes = 1
    Faults = 1
    Checks = 1
    Supply = 3
INVARIANTS
    StopsWithinTen
    BornStopped
    GracefulStop
    NoHealthyQueueStarved
PROPERTIES
    NoQueueForgotten
    StopReachesDueWorker
CHECK_DEADLOCK FALSE
