\* An isolate is evicted while a newer one is alive.
SPECIFICATION Spec
CHECK_DEADLOCK FALSE
CONSTANTS
  Calls = {c1, c2, c3}
  Workers = {0}
  Handlers = {1, 2, 3}
  Home <- MCHome
  LeastLoaded = TRUE
  MaxIsolates = 2
  BatchMax = 2
  Prefixes <- MCPrefixes
  RequestTimeout = FALSE
  Stalled = {}
  Endless = {}
  Deployed = {1}
  MaxVersion = 1
  MaxCommands = 0
INVARIANT WorkersSurvive
