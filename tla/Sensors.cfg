SPECIFICATION FairSpec
CONSTANTS
  Zones = 2
  MaxId = 3
  MaxUpset = 1
INVARIANTS
  TypeOK
  KnownKept
  NewSensorAdded
  NoDuplicates
PROPERTIES
  RowsKeepComing
CHECK_DEADLOCK FALSE
