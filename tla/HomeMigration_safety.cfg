SPECIFICATION Spec
CONSTANTS
  Proc = {p1, p2}
  Credentials = credentials
  File = {credentials, config}
  MaxCrashes = 1
  None = None
INVARIANTS
  TypeOK
  DestinationWhole
  MigratedIsMarked
PROPERTIES
  KeepsCommandData
CHECK_DEADLOCK FALSE
