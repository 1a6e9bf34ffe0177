SPECIFICATION OwnedSpec
CONSTANTS
  MaxOut = 2
  PipeCap = 1
  StdinCap = 1
  Codes = {0}
  Signals = {137}
  NoCode = NoCode
  Timeout = 1
INVARIANTS
  ExitCodeTrue
  ResultIsTrue
  AnswerTrue
PROPERTIES
  WaitsEnd
CHECK_DEADLOCK FALSE
