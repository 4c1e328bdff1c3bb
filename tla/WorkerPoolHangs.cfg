CONSTANTS
    Size = 1
    Calls = {c1, c2, c3}
    NoCall = NoCall
    Uncloneable = {}
    MaxErrors = 1
SPECIFICATION FairSpec
PROPERTIES EveryCallSettles
CHECK_DEADLOCK FALSE
