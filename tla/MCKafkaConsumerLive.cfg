SPECIFICATION MCLiveSpec
CONSTANTS
  p1 = p1
  p2 = p2
  Partitions = {p1, p2}
  TopicOf <- OneTopic
  Nodes = {1, 2}
  Log <- Logs
  Shape = "holes"
  InitLeader <- Apart
  InitEnd <- Zero
  InitCommitted <- Zero
  StartFromOldest = TRUE
  Corruptible = {}
  Leaderless = {}
  MaxBatches = 2
  MaxFaults = 2
  MayNack = FALSE
INVARIANTS
  DecodedIsHandedOut
PROPERTIES
  EverythingCommitted
