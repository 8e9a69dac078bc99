SPECIFICATION Spec
CONSTANTS
    QType = "std"
    Msg = {1}
    Lone = {}
    c1 = c1
    s1 = s1
    Worker = {c1, s1}
    Crons = {c1}
    MaxAttempt = 2
    Outcome = {"ok", "imqerror", "retryable", "operational"}
    Env = {"crash", "overrun", "slowHandover", "logCommit", "rollback", "target", "lateCommit",
           "retryFailed", "retryAny", "recovery", "archive", "archiveWaiting",
           "cancel", "purge"}
    Retries = 1
    MaxRuns = 4
    Group <- GroupOf
    EnqTime <- SameSecond
    Kind <- KindOf
INVARIANTS
    TypeOK
    WipHasDeadline
    DoneIsCommitted
    SupersededClosed
    DoneHasProcessing
CHECK_DEADLOCK FALSE
