SPECIFICATION Spec
CONSTANTS
  w1 = w1
  w2 = w2
  ft = ft
  vt = vt
  Writers = {w1, w2}
  Mzts = w1
  FileTask = ft
  Viewer = vt
  Prio <- PrioOf
  EVENT_LOG_SIZE = 2
  FILE_LOG_MSG_CNT = 1
  MaxCalls = 3
  MaxChanges = 0
  MaxViews = 1
  MaxFails = 1
CHECK_DEADLOCK FALSE
INVARIANTS
  TypeOK
  MutualExclusion
  SemaphoreSound
  FileOrder
  ReportsAreDrops
  SkipsCounted
PROPERTIES
  ViewerGoesForward
  RefinesEventLog
