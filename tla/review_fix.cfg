\* Two commands decide, authorize, refresh and judge; one is killed.
SPECIFICATION Spec
CONSTANTS
  Proc = {p1, p2}
  NoOne = NoOne
  Task = {t1}
  RequiredPasses <- OnePass
  Perspectives <- OnePerspective
  Result <- TwoAnswers
  NoResult = NoResult
  Finding <- OneFinding
  Serious = {}
  Imported <- ImportedOne
  Scope = {s1, s2}
  Sealed = Sealed
  MaxBatch = 1
  MaxKills = 1
SYMMETRY Symmetry
INVARIANTS IndexMatchesFiles AuthorizedByRecord RefreshedAsAuthorized
CHECK_DEADLOCK FALSE
