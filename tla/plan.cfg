\* Every plan of some repositories, and what two edits make of it.
SPECIFICATION Spec
CONSTANTS
  Path <- Three
  Type <- Two
  TypeLevel <- Levels
  text = text
  blob = blob
  Content = {text, blob}
  Absent = Absent
  Size <- Sizes
  Opaque = {blob}
  Names <- SomeNames
  Policies <- SomePolicies
  Trees <- SomeTrees
  MaxFiles = 2
  MaxPacketBytes = 4
  MaxEdits = 2
INVARIANTS PlanCoversChange WithinLimits ReloadIsClosed KeptIsUnchanged
CHECK_DEADLOCK FALSE
