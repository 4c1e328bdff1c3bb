CONSTANTS
    c1 = c1
    c2 = c2
    c3 = c3
    None = None
    Calls = {c1, c2, c3}
    Width <- MCWidth
    Typed = {}
    Throwing = {c1}
    Unparsable = {}
    MaxGens = 1
    SabPoolMax = 3
    Client = "sequential"
SPECIFICATION Spec
PROPERTIES AwaitIsBarrier
CHECK_DEADLOCK FALSE
