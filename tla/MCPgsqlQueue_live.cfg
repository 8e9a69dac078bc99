SPECIFICATION FairSpec
CONSTANTS
    QType = "fifo"
    Msg = {1, 2}
    Lone = {}
    c1 = c1
    s1 = s1
    Worker = {c1, s1}
    Crons = {c1}
    MaxAttempt = 2
    Outcome = {"ok", "retryable", "terminate", "operational"}
    Env = {"crash", "logCommit", "retryFailed", "archive", "cancel", "purge"}
    Retries = 1
    MaxRuns = 4
    Group <- GroupOf
    EnqTime <- SameSecond
    Kind <- KindOf
INVARIANTS
    AttemptsBounded
PROPERTIES
    WipEnds
    FifoProgress
CHECK_DEADLOCK FALSE
