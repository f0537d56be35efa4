\* One thread, and several with a client that may be torn down.
SPECIFICATION FairSpec
CHECK_DEADLOCK FALSE
CONSTANTS
  Clients = {c1, c2, c3}
  Names = {n1, n2}
  NoName = NoName
  MaxToken = 4
  Settings <- MCSettings
  StaleReleases = FALSE
INVARIANTS MutualExclusion WaitersQueued RegisteredIsHolder
PROPERTIES ImplementsService AcquireReturns
