SPECIFICATION FairSpec
CONSTANTS
  MaxCalls = 2
  MaxStray = 0
  LogCap = 1
  MaxQueue = 2
PROPERTY TimeoutsEnforced
CHECK_DEADLOCK FALSE
