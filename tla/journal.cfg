\* Two concurrent commands, two kills, a whole run from begin to archive.
SPECIFICATION Spec
CONSTANTS
  Proc = {p1, p2}
  NoOne = NoOne
  NoArchive = NoArchive
  MaxEvents = 9
  MaxKills = 2
SYMMETRY Symmetry
INVARIANTS WriteAheadLag ReplayIsChain
PROPERTIES SpoiledOnlyByLag FollowsLifecycle ArchiveIsFinal
CHECK_DEADLOCK FALSE
