CONSTANTS
  MaxFrame = 2
  Showing = {1}
  Alike = 2
  NoFrame = NoFrame
SPECIFICATION FairSpec
INVARIANTS
  CacheIsCurrent
  AnswersHold
PROPERTIES
  SessionIsLetGo
CHECK_DEADLOCK FALSE
