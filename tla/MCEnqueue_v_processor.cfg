SPECIFICATION Spec
CONSTANTS
    Tx = {t1, t2, t3}
    std = std
    fifo = fifo
    f = f
    p1 = p1
    d = d
    NoId = NoId
    Inherit = Inherit
    NoMessage = NoMessage
    Queue <- TwoQueues
    Fifo = {fifo}
    Window <- Windows
    Target = {f}
    Payload = {p1}
    Id = {d}
    Acts = {"plain", "zero", "hash", "other", "sync"}
    Calls <- CallsMade
    Second = 2
    MaxTime = 2
    MaxMessages = 2
INVARIANTS
    ProcessorUnique
SYMMETRY Symmetric
CHECK_DEADLOCK FALSE
