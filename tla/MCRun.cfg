CONSTANTS
  MaxSpawns = 1
  MaxOut = 1
  TtyCap = 1
  InCap = 1
  Codes = {0, 1}
  NoCode = NoCode
  MaxSteps = 1
SPECIFICATION FairRun
INVARIANTS
  PassIsEarned
  FoundIsJudged
  VerdictRecorded
PROPERTIES
  RunCleansUp
CHECK_DEADLOCK FALSE
