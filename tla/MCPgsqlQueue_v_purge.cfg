SPECIFICATION Spec
CONSTANTS
    QType = "std"
    Msg = {1}
    Lone = {}
    c1 = c1
    s1 = s1
    Worker = {c1, s1}
    Crons = {c1}
    MaxAttempt = 3
    Outcome = {"ok", "retryable"}
    Env = {"crash", "purge"}
    Retries = 0
    MaxRuns = 2
    Group <- GroupOf
    EnqTime <- SameSecond
    Kind <- KindOf
PROPERTY
    PurgeKeepsWaiting
CHECK_DEADLOCK FALSE
