\* Two commands, nobody killed: one writes the ledger it read before the other.
SPECIFICATION Spec
CONSTANTS
  Proc = {p1, p2}
  NoOne = NoOne
  Task = {t1}
  RequiredPasses <- TwoPasses
  Perspectives <- TwoPerspectives
  Result <- ThreeResults
  NoResult = NoResult
  Finding <- BothFindings
  Serious = {"f1"}
  Imported <- ImportedBoth
  Scope = {}
  Sealed = Sealed
  MaxBatch = 2
  MaxKills = 0
SYMMETRY Symmetry
INVARIANTS FinalizedIsSettled
CHECK_DEADLOCK FALSE
