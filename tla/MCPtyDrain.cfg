CONSTANTS
  MaxSpawns = 1
  MaxOut = 1
  TtyCap = 1
  InCap = 1
  Codes = {0}
  NoCode = NoCode
SPECIFICATION Spec
INVARIANT DrainedBeforeVerdict
