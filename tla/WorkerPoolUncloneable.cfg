CONSTANTS
    Size = 1
    Calls = {c1, c2, c3}
    NoCall = NoCall
    Uncloneable = {c1}
    MaxErrors = 0
SPECIFICATION Spec
INVARIANTS WorkersReused
CHECK_DEADLOCK FALSE
