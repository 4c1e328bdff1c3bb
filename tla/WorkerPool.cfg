CONSTANTS
    Size = 2
    Calls = {c1, c2, c3}
    NoCall = NoCall
    Uncloneable = {}
    MaxErrors = 0
SPECIFICATION FairSpec
INVARIANTS NoIdleWhileQueued SignalsExact
PROPERTIES ImplementsService EveryCallSettles
CHECK_DEADLOCK FALSE
