SPECIFICATION FairSpec
CONSTANTS
  PartCounts = {3, 4}
  Parallelism = 2
  Modes = {"v2", "resume", "patch"}
INVARIANTS
  TypeOK
  CommittedIsWhole
  NoErrorSwallowed
  OneCommit
  NoStrayWorker
  BuffersAccounted
PROPERTIES
  NoGoroutineLeak
