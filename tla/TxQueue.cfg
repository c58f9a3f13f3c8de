SPECIFICATION FairSpec
CONSTANTS
  Messages = {m1, m2}
  Acks = {ack}
  None = None
  MKW_QUEUE_SZ = 4
INVARIANTS
  TypeOK
  OwnsHead
PROPERTIES
  RefinesFifo
  AcceptedLeaves
  PushReturns
