CONSTANTS
    c1 = c1
    c2 = c2
    c3 = c3
    None = None
    Calls = {c1, c2, c3}
    Width <- MCWidth
    Typed = {c1, c2}
    Throwing = {c1}
    Unparsable = {c3}
    MaxGens = 3
    SabPoolMax = 3
    Client = "careful"
SPECIFICATION Spec
INVARIANTS OwnResult SabExclusive InFlightIsRefed
PROPERTIES AwaitIsBarrier
CHECK_DEADLOCK FALSE
