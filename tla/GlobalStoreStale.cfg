SPECIFICATION Spec
CONSTANTS
  Procs = {p1}
  MaxRuns = 2
  MaxFaults = 1
  MaxCrashes = 0
  MaxDamage = 0
INVARIANT FailedIsReinstalled
\* The runs are bounded.
CHECK_DEADLOCK FALSE
