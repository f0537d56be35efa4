\* Reactions that register, dispose and panic, within owned regions.
SPECIFICATION Spec
CHECK_DEADLOCK FALSE
CONSTANTS
  ValueSlots = {0}
  ObserverSlots = {0,1}
  MaxTurns = 2
  MaxRevision = 1
  MaxGeneration = 1
  MaxStack = 6
  MaxOpen = 1
  UserOps = {"panic", "region", "dispose"}
INVARIANTS SubscriptionsMatch SlotsAccounted Lifetimes
