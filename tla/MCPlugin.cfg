SPECIFICATION FairSpec
CONSTANTS
  MaxCalls = 3
  MaxStray = 2
  LogCap = 1
  MaxQueue = 2
INVARIANTS
  AnswerIsForCall
  InStep
  VersionsAgree
PROPERTIES
  PluginEnds
CHECK_DEADLOCK FALSE
