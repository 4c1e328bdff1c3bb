SPECIFICATION Spec
CONSTANTS
  Workers = {1, 2}
  NodeCount = 4
  MaxList = 3
  Capacity = 2
  IndexSize = 16
  Start = 15
INVARIANTS
  OneConsumer
  RunOnce
  NothingLost
PROPERTY
  EveryNodeRuns
