CONSTANTS
    Size = 2
    Calls = {c1, c2, c3}
    NoCall = NoCall
    Uncloneable = {}
    MaxErrors = 1
SPECIFICATION Spec
INVARIANTS SignalsExact
CHECK_DEADLOCK FALSE
