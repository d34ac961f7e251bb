\* Two runs that share a blob, a lockless writer for each, two plans, two kills.
SPECIFICATION Spec
CONSTANTS
  Run = {"r1", "r2"}
  Blob = {"b1", "b2"}
  Repo = {"g1"}
  RepoOf <- OneRepo
  Refs <- TwoRefs
  NoPlan = NoPlan
  MaxPlans = 2
  MaxWriters = 2
  MaxKills = 2
INVARIANTS LiveRunsReadable NoOrphanBlobs
PROPERTIES ImplementsBlobStore OnlyEligibleLeave
CHECK_DEADLOCK FALSE
