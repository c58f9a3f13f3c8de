SPECIFICATION Spec
CONSTANTS
  N = 4
  MaxDevices = 3
  Valid <- MCValid
  MaxFaults = 1
INVARIANT
  DiscoveredOnly
CHECK_DEADLOCK FALSE
