SPECIFICATION Spec
CONSTANTS
  None = None
  Proc = {p1, p2, p3}
  Commands = {"generateReplace", "refresh", "refreshExplicit", "delete", "disable",
              "enable", "import", "mount", "mountExplicit", "unmount",
              "unmountIgnoreAbsent"}
  MaxId = 2
  MaxGen = 1
  MaxLive = 1
  MaxCrashes = 1
INVARIANTS
  MountKeepsToken
  RotatedKept
SYMMETRY Symmetry
CHECK_DEADLOCK FALSE
