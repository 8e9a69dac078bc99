SPECIFICATION Spec
CONSTANTS
    t1 = t1
    t2 = t2
    t3 = t3
    Thread <- MCThread
    Ident <- MCIdent
    Tasks = 2
    Writes = 2
    Env = {"stragglers", "insertFails"}
CHECK_DEADLOCK FALSE
INVARIANTS TypeOK LinesWhole WrittenOnce NothingLeft
