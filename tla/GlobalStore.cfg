SPECIFICATION Spec
CONSTANTS
  Procs = {p1, p2}
  MaxRuns = 5
  MaxFaults = 2
  MaxCrashes = 1
  MaxDamage = 1
INVARIANTS
  FinalIsComplete
  SuccessResolves
  NothingLeaks
  ForceReplaces
\* The runs are bounded.
CHECK_DEADLOCK FALSE
