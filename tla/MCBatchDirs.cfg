CONSTANTS
  Files = {1, 2}
  Names = {1, 2}
  Renderers = {1, 2}
  MaxItems = 2
  MaxWorkers = 2
  Readings = {1, 2}
  Artifacts = {"raw_output.txt"}
  Pending = Pending
  Unnamed = Unnamed
  Out = Out
SPECIFICATION Spec
INVARIANT RunsNeverCollide
CHECK_DEADLOCK FALSE
