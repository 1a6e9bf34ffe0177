CONSTANTS
  Columns = 4
  Rows = 2
  TabStop = 2
  MaxPieces = 3
  Interval = 2
  IdleLimit = 3
  Stamps = {0, 1, 2, 5}
  Screens = {0, 1, 2}
  Blank = 0
  MaxLines = 4
  NoVideo = NoVideo
  Strings <- RecipeStrings
  Compiles = {"small"}
  Accepts <- AcceptedPairs
  Builtin <- BuiltinConfig
  Settings = {"a", "b"}
  Leaves = {"0", "1", "null"}
  Depth = 2
  Types <- FieldTypes
  Filled <- FieldPaths
  IdleCap <- CapPath
  Null = "null"
  Recipes = {"a/b", "a-b"}
  Slug <- SlugOf
  Epsilon = 1
  Versions <- FileVersions
  Bytes = {"a/b", "a-b", "x", "y", "z", "p", "?", "}"}
  NoFile = NoFile
  Unreadable = Unreadable
  MissingText <- SaysMissing
  SourcePath <- PathOf
  Options <- OptionTexts
  DataPath <- DataPlace
  Images = {1, 2}
  MaxDiffs = 1
  Nil = Nil
  Stores = 2
  Messages = {"e"}
  Url = Url
  Silent = Silent
  MaxFrame = 2
  MaxCaptures = 3
  MaxUploads = 2
  MaxPublishes = 2
  MaxAgain = 1
  Backends = {"pty", "tmux", "text"}
  None = None
  MaxExchanges = 3
  MaxBytes = 7
  MaxContext = 0
  MaxOutput = 2
  MaxTyped = 1
  NoRecorder = NoRecorder
  HarnessDirectory <- HarnessPlace
  RepoMarker <- MarkerPath
  Smoke = {"smoke", "misspelled"}
  MaxCalls = 2
  MaxCommands = 2
  Commands = {"press"}
  Waits = {"wait_for_text"}
  MaxDriving = 3
SPECIFICATION Spec
INVARIANTS
  GridShowsText
  VideoIsWhole
  AssertionsFailClosed
  ConfigIsLayered
  ComparisonsAgree
  
  StepsShowScreens
  NothingDangles
  ReadersAgree
  BridgeFailsClosed
  AnswerIsSaid
  ReplayShowsScreen
  SelectionIsOfPlaces
  StepsAreHeard
  ArtifactsAreWhole
PROPERTIES
  CommandsKeepFiles
  ImplementsDeferredFailure
CHECK_DEADLOCK FALSE
