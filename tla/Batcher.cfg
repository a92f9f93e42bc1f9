SPECIFICATION FairSpec
CONSTANTS
  e1 = e1  e2 = e2  e3 = e3  e4 = e4
  r1 = r1  r2 = r2  r3 = r3
  Event <- MCEvent
  Request <- MCRequest
  Body <- MCBody
  Size <- MCSize
  Closer = {c1, c2}
  MaxEventBytes = 3
  BufferMaxEvents = 3
  FlushMaxEvents = 2
  FlushMaxBytes = 3
INVARIANTS
  TypeOK
  QueueAccounting
  FifoConservation
  NoLostWakeup
  NoDoubleClose
  DrainedOnExit
  SettledMetrics
PROPERTIES
  EventuallyTaken
  StopLeadsToDone
  ImplementsBuffer
CHECK_DEADLOCK FALSE
