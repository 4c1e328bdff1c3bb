SPECIFICATION Spec
CONSTANTS
  Procs = {p1, p2}
  MaxRuns = 2
  MaxFaults = 0
  MaxCrashes = 0
  MaxDamage = 0
PROPERTY NeverMissing
\* The runs are bounded.
CHECK_DEADLOCK FALSE
