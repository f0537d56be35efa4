\* Two pids, one of them used again, on a cache for one entry.
SPECIFICATION Spec
CHECK_DEADLOCK FALSE
CONSTANTS
  Files = {f1}
  Keys = {1, 2}
  Compilers = {d1, d2}
  Pids = {p1, p2}
  Size <- MCSize
  MaxEntries = 1
  MaxBytes = 2
  MaxRuns = 3
  MaxChanges = 2
  MaxKills = 1
INVARIANTS Current  Bounded
SYMMETRY MCSymmetry
