SPECIFICATION Spec
CHECK_DEADLOCK FALSE
CONSTANTS
  Views <- MCViews
  MaxFrames = 3
  MaxEvents = 3
  MaxRows = 4
INVARIANTS CachedIsCurrent NothingDangles NoAlias FramesComplete
