SPECIFICATION FairSpec
CONSTANTS
  Chunks = 3
  MaxTransfers = 2
INVARIANTS
  TypeOK
  BufferSafe
  PermissionNotLost
PROPERTIES
  OutputGoesOn
CHECK_DEADLOCK FALSE
