\* Signals, derived values, effects that write back, batches and panics.
SPECIFICATION Spec
CHECK_DEADLOCK FALSE
CONSTANTS
  ValueSlots = {0,1}
  ObserverSlots = {0,1}
  MaxTurns = 3
  MaxRevision = 2
  MaxGeneration = 0
  MaxStack = 8
  MaxOpen = 1
  UserOps = {"derived", "batch", "react_write", "update", "panic"}
INVARIANTS NoLostUpdate SettledOutsideBatches NoReentry
PROPERTY EffectsRunSettled
