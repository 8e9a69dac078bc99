SPECIFICATION FairSpec
CONSTANTS
    w1 = w1
    w2 = w2
    IdCount = 2
    RowCount = 2
    Id <- MCId
    Row <- MCRow
    Enqueued = 1
    Worker <- MCWorker
    Kind <- MCKind
    MaxAttempt = 2
    Visibility = "long"
    Outcome = {"ok", "imqerror", "terminate", "retryable", "exception", "noProcessor"}
    Env = {"crash", "overrun", "operational", "storeFails", "deleteFails", "retry", "recovery"}
    Faults = 1
CHECK_DEADLOCK FALSE
INVARIANTS TypeOK DoneIsCommitted DuplicatesBounded StrandedByFaults AttemptsBounded RetryStaysInRow
PROPERTIES Drained
