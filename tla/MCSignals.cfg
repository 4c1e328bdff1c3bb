CONSTANTS
    a = a
    b = b
    c = c
    d = d
    e1 = e1
    e2 = e2
    None = None
    States = {a, b}
    Computeds = {c, d}
    Effects = {e1, e2}
    Values = {0, 1}
    InitValue = 0
    Reads <- MCReads
    Writes <- MCWrites
    Owns <- MCOwns
    Throws = {d, e2}
    MaxOps = 4
SPECIFICATION Spec
INVARIANTS DerivedNeverStale EffectsUpToDate DisposedIsDetached RestIsQuiet
PROPERTIES BatchDefersRuns
CHECK_DEADLOCK FALSE
