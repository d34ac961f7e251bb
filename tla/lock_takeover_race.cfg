\* Three commands, nobody killed: a holder that exits is enough.
SPECIFICATION LockSpec
CONSTANTS
  Proc = {p1, p2, p3}
  NoOne = NoOne
  NoFile = NoFile
  MaxAttempts = 1
  MaxKilled = 0
SYMMETRY Symmetry
INVARIANTS MutualExclusion
CHECK_DEADLOCK FALSE
