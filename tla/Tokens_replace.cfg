SPECIFICATION Spec
CONSTANTS
  None = None
  Proc = {p1, p2, p3}
  Commands = {"generateStore", "generateReplace", "refresh", "refreshExplicit", "delete",
              "disable"}
  MaxId = 2
  MaxGen = 1
  MaxLive = 3
  MaxCrashes = 0
INVARIANTS
  CommitReplacesChecked
  DeletedNotSelected
SYMMETRY Symmetry
CHECK_DEADLOCK FALSE
