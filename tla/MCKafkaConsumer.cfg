SPECIFICATION Spec
CONSTANTS
  p1 = p1
  p2 = p2
  Partitions = {p1}
  TopicOf <- OneTopic
  Nodes = {1}
  Log <- Logs
  Shape = "gap"
  InitLeader <- Apart
  InitEnd <- Zero
  InitCommitted <- Never
  StartFromOldest = TRUE
  Corruptible = {p1}
  Leaderless = {p1}
  MaxBatches = 2
  MaxFaults = 3
  MayNack = TRUE
INVARIANTS
  CommitSafe
  NothingSkipped
PROPERTIES
  NoRepeat
CHECK_DEADLOCK FALSE
