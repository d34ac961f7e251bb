\* A child and one descendant, two streams with room for one unit each.
SPECIFICATION FairSpec
CONSTANTS
  Child = child
  Descendant = {d1}
  Stream <- Streams
  Stdin = "stdin"
  Limit <- Limits
  Capacity = 1
  MaxOutput <- Outputs
INVARIANTS WholeOutput TreeIsGone
PROPERTIES RunEnds
CHECK_DEADLOCK FALSE
