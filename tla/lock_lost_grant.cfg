\* Isolates on several threads.
SPECIFICATION Spec
CHECK_DEADLOCK FALSE
CONSTANTS
  Clients = {c1, c2}
  Names = {n1}
  NoName = NoName
  MaxToken = 3
  Settings <- MCThreads
  StaleReleases = FALSE
INVARIANT OwnershipPassed
