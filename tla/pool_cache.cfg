\* One worker, more handlers than it may keep isolates for.
SPECIFICATION Spec
CHECK_DEADLOCK FALSE
CONSTANTS
  Calls = {c1, c2, c3}
  Workers = {0}
  Handlers = {1, 2, 3}
  Home <- MCHome
  LeastLoaded = FALSE
  MaxIsolates = 2
  BatchMax = 2
  Prefixes <- MCPrefixes
  RequestTimeout = TRUE
  Stalled = {}
  Endless = {}
  Deployed = {1}
  MaxVersion = 2
  MaxCommands = 1
SYMMETRY MCSymmetry
INVARIANTS TypeOK CacheAgrees LoadExact FreshCode
PROPERTY DisposalNeverPanics
