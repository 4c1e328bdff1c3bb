CONSTANTS
    a = a
    b = b
    c = c
    d = d
    e1 = e1
    e2 = e2
    None = None
    States = {a}
    Computeds = {}
    Effects = {e1, e2}
    Values = {0, 1}
    InitValue = 0
    Reads <- FlatReads
    Writes <- NoEffects
    Owns <- SelfOwns
    Throws = {}
    MaxOps = 3
SPECIFICATION Spec
INVARIANTS DisposedIsDetached
CHECK_DEADLOCK FALSE
