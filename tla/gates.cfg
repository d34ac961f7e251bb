\* Two commands plan, run or judge up to three gates.
SPECIFICATION Spec
CONSTANTS
  Gate <- Three
  Proc = {p1, p2}
  Declaration <- SomeGates
  Toolchain <- Tools
  None = None
SYMMETRY Symmetry
INVARIANTS PlanIsOrdered EvidenceIsWhole VerdictIsBacked JudgedStaysBacked
CHECK_DEADLOCK FALSE
