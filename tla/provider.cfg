\* Two review commands beside whoever installs, grants, waits and archives.
SPECIFICATION Spec
CONSTANTS
  Proc = {p1, p2}
  Version = {v1, v2}
  Task <- TwoTasks
  Paths <- Files
  Perspectives <- Views
  Passes <- Demanded
  Reviewed = 2
  Answer <- Answers
  Earlier <- Before3
  None = None
  MaxCommands = 2
SYMMETRY Symmetry
INVARIANTS AttemptsTellOutcome ComparisonIsOfAll ReviewedIsCovered
PROPERTIES PacketIsAuthorized AttemptsOnlyGrow
CHECK_DEADLOCK FALSE
