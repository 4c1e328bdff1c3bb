SPECIFICATION Spec
CONSTANTS
  Entries <- MCEntries
  Deps <- MCDeps
  Kind <- MCKind
  Package <- MCPackage
  Scripts <- MCScripts
  Preinstall = {2}
  Optional = {3}
  BadUrls = {}
  FailEarly = FALSE
  MaxRetries = 1
  MaxFaults = 1
INVARIANTS
  PendingExact
PROPERTIES
  TasksHaveOneOwner
  ImplementsPlan
  InstallEnds
\* The install returns or exits.
CHECK_DEADLOCK FALSE
