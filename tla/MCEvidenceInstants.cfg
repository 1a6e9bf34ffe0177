CONSTANTS
  Nil = Nil
  None = None
  Stores = 1
  Messages = {"e"}
  Url = Url
  Silent = Silent
  MaxFrame = 2
  MaxCaptures = 1
  MaxUploads = 1
  MaxPublishes = 0
  MaxAgain = 1
  Backends = {"pty", "tmux", "text"}
SPECIFICATION EvidenceSpec
INVARIANT CapturesAreInstants
CHECK_DEADLOCK FALSE
