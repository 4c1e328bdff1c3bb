SPECIFICATION Spec
CONSTANTS
  MaxThreads = 2
  Clients = {c1}
  Owner = main
  Capacity = 1
  MaxBatches = 2
  MaxBatch = 2
  SpawnFailures = 1
  Warm = 1
  IdleRounds = 1
  Quiet = TRUE
INVARIANTS
  CountsExact
  OneWaker
  IdleTasksRunBeforeExit
PROPERTIES
  EveryTaskRuns
  DropReturnsUndisturbed
  ImplementsTaskPool
\* A refused thread can wedge an empty pool (see Wedged): it stops there.
CHECK_DEADLOCK FALSE
