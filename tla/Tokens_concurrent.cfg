SPECIFICATION FairSpec
CONSTANTS
  None = None
  Proc = {p1, p2}
  Commands = {"generate", "generateStore", "generateReplace", "refresh",
              "refreshExplicit", "delete", "disable", "enable", "import",
              "importReplace", "mount", "mountExplicit", "unmount",
              "unmountIgnoreAbsent"}
  MaxId = 2
  MaxGen = 2
  MaxLive = 2
  MaxCrashes = 1
INVARIANTS
  NoTokenLost
PROPERTIES
  CommandsEnd
CHECK_DEADLOCK FALSE
