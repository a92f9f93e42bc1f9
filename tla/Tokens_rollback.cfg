SPECIFICATION Spec
CONSTANTS
  None = None
  Proc = {p1}
  Commands = {"generateReplace"}
  MaxId = 2
  MaxGen = 0
  MaxLive = 1
  MaxCrashes = 0
INVARIANTS
  RolledBackNotSelected
SYMMETRY Symmetry
CHECK_DEADLOCK FALSE
