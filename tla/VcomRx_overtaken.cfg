SPECIFICATION Spec
CONSTANTS
  IN_BUF_QUANTITY = 2
  MaxLen = 1
  MaxPackets = 4
  MaxErrors = 0
INVARIANTS
  ArmsFreeBuffer
CHECK_DEADLOCK FALSE
