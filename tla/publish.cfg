SPECIFICATION Spec
CHECK_DEADLOCK FALSE
CONSTANTS
  Pids = {1, 2, 3}
  MaxBuilds = 5
  MaxCuts = 3
INVARIANTS WholeOutput ErrorKeepsOutput ManifestNotOlder
PROPERTY KeepsPromise
