SPECIFICATION MCSpec
CONSTANTS
  Off = Off
  Parts = {"membership", "client", "wire", "leader", "codec"}
  \* Two callers of one broker, which is known by its id and as a seed.
  Callers = {"a", "b"}
  Nodes = {"n"}
  NConns = 3
  MaxFailures = 2
  MaxCalls = 4
  a0 = a0
  a1 = a1
  StreamOf <- StreamsOf
  ShardOf <- ShardsOf
  Consumers = {a0, a1}
  Shards = {0, 1}
  Partitions = {0, 1}
  FaultKinds = {"refresh", "join", "sync", "fetch", "beat", "commit", "retry", "rebalance", "evict", "leave"}
  MaxOffset = 1
  MaxBeats = 1
  MaxWire = 1
  MaxFaults = 1
CHECK_DEADLOCK FALSE
INVARIANTS
  ViewsAgree
  OwnerOutlives
  NobodyWaitsInVain
  MeaningTravels
  SharesFit
