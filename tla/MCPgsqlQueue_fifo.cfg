SPECIFICATION Spec
CONSTANTS
    QType = "fifo"
    Msg = {1, 2, 3}
    Lone = {}
    c1 = c1
    s1 = s1
    Worker = {c1, s1}
    Crons = {c1}
    MaxAttempt = 2
    Outcome = {"ok", "retryable"}
    Env = {"crash", "handover", "archive", "cancel"}
    Retries = 0
    MaxRuns = 2
    Group <- GroupOf
    EnqTime <- SameSecond
    Kind <- KindOf
INVARIANTS
    Exclusive
    FifoOrder
    FifoSerial
    DuplicatesTraced
PROPERTIES
    CompletedStays
    KeepsContract
CHECK_DEADLOCK FALSE
