CONSTANTS
  Files = {1, 2}
  Names = {1}
  Renderers = {1, 2}
  MaxItems = 3
  MaxWorkers = 2
  Readings = {1, 2}
  Artifacts = {"raw_output.txt"}
  Pending = Pending
  Unnamed = Unnamed
  Out = Out
SPECIFICATION FairSpec
INVARIANTS
  DiskBearsOut
PROPERTIES
  ImplementsOrderedMap
  CommandEnds
CHECK_DEADLOCK FALSE
