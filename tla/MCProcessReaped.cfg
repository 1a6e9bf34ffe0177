SPECIFICATION OwnedSpec
CONSTANTS
  MaxOut = 1
  PipeCap = 1
  StdinCap = 1
  Codes = {0}
  Signals = {137}
  NoCode = NoCode
  Timeout = 1
INVARIANT ReapedByClose
CHECK_DEADLOCK FALSE
