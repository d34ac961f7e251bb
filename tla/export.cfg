\* Exports beside each other and beside run archive.
CONSTANTS
  p1 = p1
  p2 = p2
  flagged = flagged
  redacted = redacted
  s1 = s1
  o1 = o1
  o2 = o2
  None = None
  Proc <- MCProc
  Candidate <- MCCandidate
  Flagged <- MCFlagged
  Redacted <- MCRedacted
  Stamp <- MCStamp
  Output <- MCOutput
  MaxKills = 1

SPECIFICATION Spec
SYMMETRY Symmetry
VIEW Seen
INVARIANTS
  OnlyApprovedLeaves
  AnnouncedIsKept
  RefusedLeavesNothing
  PortableIsCoherent

\* A run that is archived is left as it is.
CHECK_DEADLOCK FALSE
