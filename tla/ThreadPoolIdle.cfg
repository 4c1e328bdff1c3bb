SPECIFICATION Spec
CONSTANTS
  MaxThreads = 2
  Clients = {c1}
  Owner = main
  Capacity = 1
  MaxBatches = 2
  MaxBatch = 2
  SpawnFailures = 0
  Warm = 0
  IdleRounds = 1
  Quiet = TRUE
PROPERTY
  IdleTasksRun
CHECK_DEADLOCK FALSE
