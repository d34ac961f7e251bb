\* Two commands record, decide and judge; one is killed.
SPECIFICATION Spec
CONSTANTS
  Proc = {p1, p2}
  NoOne = NoOne
  Task = {t1}
  RequiredPasses <- TwoPasses
  Perspectives <- TwoPerspectives
  Result <- ThreeResults
  NoResult = NoResult
  Finding <- BothFindings
  Serious = {"f1"}
  Imported <- ImportedBoth
  Scope = {}
  Sealed = Sealed
  MaxBatch = 2
  MaxKills = 1
SYMMETRY Symmetry
INVARIANTS ReviewedIsComplete FindingsImported VerdictStands
PROPERTIES EvidenceFrozen
CHECK_DEADLOCK FALSE
