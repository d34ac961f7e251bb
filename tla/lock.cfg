\* Three commands contend, each up to twice; two may be killed, all may exit.
SPECIFICATION FairSpec
CONSTANTS
  Proc = {p1, p2, p3}
  NoOne = NoOne
  NoFile = NoFile
  MaxAttempts = 2
  MaxKilled = 2
INVARIANTS HolderOwnsFile
PROPERTIES MutexUntilMisfire AcquireEnds DeadLockRecovered
CHECK_DEADLOCK FALSE
