SPECIFICATION Spec
CONSTANTS
  None = None
  Proc = {p1, p2, p3}
  Commands = {"refresh"}
  MaxId = 1
  MaxGen = 1
  MaxLive = 3
  MaxCrashes = 1
INVARIANTS
  LockExclusive
SYMMETRY Symmetry
CHECK_DEADLOCK FALSE
