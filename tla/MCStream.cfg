SPECIFICATION Spec
CONSTANTS
  NBatches = 2
  QueueDepth = 1
  MaxInFlight = 2
  NProcs = 2
  MaxFan = 2
  Strict = TRUE
INVARIANTS
  AckMeansWritten
  NothingLeftBehind
  ClosedWhenQuiet
  StatsBalance
PROPERTIES
  WritesInOrder
