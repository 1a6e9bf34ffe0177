CONSTANTS
  MaxSpawns = 1
  MaxOut = 2
  TtyCap = 1
  InCap = 1
  Codes = {}
  NoCode = NoCode
SPECIFICATION FairSpec
INVARIANTS
  ScreenExplained
  FoundIsReadable
  EvidenceComplete
PROPERTIES
  CastFrozen
  SessionEnds
