SPECIFICATION MCSpec
CONSTANTS
  Off = Off
  Parts = {"membership"}
  Callers = {"a"}
  Nodes = {"n"}
  NConns = 1
  MaxFailures = 1
  MaxCalls = 1
  a0 = a0
  a1 = a1
  StreamOf <- StreamsOf
  ShardOf <- ShardsOf
  Consumers = {a0}
  Shards = {0}
  Partitions = {0}
  FaultKinds = {"rebalance"}
  MaxOffset = 1
  MaxBeats = 1
  MaxWire = 1
  MaxFaults = 1
CHECK_DEADLOCK FALSE
PROPERTIES
  RevokedIsCommitted
