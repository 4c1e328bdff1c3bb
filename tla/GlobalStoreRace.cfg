SPECIFICATION Spec
CONSTANTS
  Procs = {p1, p2}
  MaxRuns = 3
  MaxFaults = 0
  MaxCrashes = 0
  MaxDamage = 0
INVARIANT OnlyFaultsFail
\* The runs are bounded.
CHECK_DEADLOCK FALSE
