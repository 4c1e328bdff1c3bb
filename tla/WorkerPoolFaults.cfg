CONSTANTS
    Size = 2
    Calls = {c1, c2, c3}
    NoCall = NoCall
    Uncloneable = {c1}
    MaxErrors = 2
SPECIFICATION Spec
INVARIANTS OwnAnswer HeldOnce
CHECK_DEADLOCK FALSE
