CONSTANTS
    a = a
    b = b
    c = c
    d = d
    e1 = e1
    e2 = e2
    None = None
    States = {a, b}
    Computeds = {}
    Effects = {e1, e2}
    Values = {0, 1}
    InitValue = 0
    Reads <- LoopReads
    Writes <- LoopWrites
    Owns <- NoEffects
    Throws = {}
    MaxOps = 3
SPECIFICATION Spec
INVARIANTS SettlesUpToDate
CHECK_DEADLOCK FALSE
