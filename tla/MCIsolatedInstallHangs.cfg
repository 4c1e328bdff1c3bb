SPECIFICATION Spec
CONSTANTS
  Entries <- MCEntries
  Deps <- MCDeps
  Kind <- MCKind
  Package <- MCPackage
  Scripts <- MCScripts
  Preinstall = {2}
  Optional = {3}
  BadUrls = {"a"}
  FailEarly = FALSE
  MaxRetries = 1
  MaxFaults = 0
PROPERTIES
  NeverWaitsForEver
CHECK_DEADLOCK FALSE
