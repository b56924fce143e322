SPECIFICATION FairSpec
CONSTANTS
  NBatches = 2
  QueueDepth = 1
  MaxInFlight = 1
  NProcs = 1
  MaxFan = 2
  Strict = FALSE
PROPERTIES
  KeepsPromise
  DrainCompletes
  StopCompletes
