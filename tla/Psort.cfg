CONSTANTS
    MaxWorkers = 3
    MaxLength = 5
    SortKeys = {0, 1, 2}
    Base = 2
    Digits = 2
    Oversample = 1
SPECIFICATION Spec
INVARIANTS SortsStably ScatterDisjoint
CHECK_DEADLOCK FALSE
