\* Seven graphs of four tasks, every outcome of their commands.
SPECIFICATION FairSpec
CHECK_DEADLOCK FALSE
CONSTANTS
  Tasks <- MCTasks
  Names <- MCNames
  Graphs <- MCGraphs
  Requests <- MCRequests
INVARIANTS DependenciesFirst RunsOnce NothingLeftRunning Deterministic
PROPERTY Ends
