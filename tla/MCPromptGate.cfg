CONSTANTS
  Fingerprints = {f1, f2, f3}
  Sources = {s1}
  Window = 3
  SourceWindow = 3
  RepeatWindow = 2
  PruneAt = 2
  MaxPending = 2
  MaxTime = 5
SYMMETRY MachineSymmetry
SPECIFICATION Spec
INVARIANTS
  ApprovableWhileItsWindowLasts
  GrantsInItsWindow
  NeverStarved
PROPERTIES
  OnePromptPerAddress
CHECK_DEADLOCK FALSE
