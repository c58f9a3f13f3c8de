SPECIFICATION FairSpec
CONSTANTS
  IN_BUF_QUANTITY = 2
  MaxLen = 2
  MaxPackets = 4
  MaxErrors = 2
INVARIANTS
  TypeOK
  OneReceive
PROPERTIES
  InOrder
  AllRead
CHECK_DEADLOCK FALSE
