SPECIFICATION Spec
CHECK_DEADLOCK FALSE
CONSTANTS
  MaxTasks = 6
  MaxOps = 2
  MaxCalls = 1
  MaxJobs = 2
  Slice = 2
  Programs <- MCPrograms
INVARIANTS NoLostWake FirstSettlementWins ClearedTimersGone ClosedAnswersAll
PROPERTIES CallsAnswered Quiesces
