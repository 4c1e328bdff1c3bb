CONSTANTS
    c1 = c1
    c2 = c2
    c3 = c3
    None = None
    Calls = {c1, c2, c3}
    Width <- MCWidth
    Typed = {}
    Throwing = {}
    Unparsable = {}
    MaxGens = 1
    SabPoolMax = 3
    Client = "overlapping"
SPECIFICATION Spec
INVARIANTS OwnResult
CHECK_DEADLOCK FALSE
