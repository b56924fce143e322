SPECIFICATION MCLiveSpec
CONSTANTS
  Off = Off
  Parts = {"membership"}
  Callers = {"a"}
  Nodes = {"n"}
  NConns = 1
  MaxFailures = 1
  MaxCalls = 1
  a0 = a0
  a1 = a1
  StreamOf <- StreamsOf
  ShardOf <- ShardsOf
  Consumers = {a0, a1}
  Shards = {0, 1}
  Partitions = {0}
  FaultKinds = {"refresh", "join", "sync", "fetch", "beat", "commit", "retry", "rebalance", "evict", "leave"}
  MaxOffset = 1
  MaxBeats = 1
  MaxWire = 1
  MaxFaults = 2
CHECK_DEADLOCK FALSE
PROPERTIES
  OfferedIsCommitted
  AttachReturns
  ShareReachesShards
