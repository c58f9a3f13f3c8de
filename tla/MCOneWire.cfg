SPECIFICATION FairSpec
CONSTANTS
  N = 4
  MaxDevices = 3
  Valid <- MCValid
  MaxFaults = 1
INVARIANTS
  TypeOK
PROPERTIES
  RefinesRomSearch
  SearchEnds
CHECK_DEADLOCK FALSE
