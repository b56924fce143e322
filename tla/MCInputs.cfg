SPECIFICATION Spec
CONSTANTS
    Off = Off
    None = None
    Faults = 1
    RetryBatches = 2
    MaxNacks = 3
    Sizes <- ThreeBatches
    Fed <- FedBatches
    Count = 2
    Offered <- Offers
    Limit = 4
    Children = {1, 2}
    Requests = {"r1", "r2"}
    MaxParts = 1
    Conns = {"a", "b"}
    Total <- ThreeEach
    Peer = "a"
    MaxRetries = 1
    MaxMessages = 3
    MaxDials = 3
    Retries = 1
    MaxBodies = 4
    Kinds <- FourKinds
    Ends <- FourEnds
    BatchSize = 2
    MaxChunk = 3
INVARIANTS
    NothingOrphaned
    AnsweredRightly
    EndIsTrue
PROPERTIES
    NackedIsReplayed
    ReadIsDelivered
    LeftoverFlushed
    DrainEnds
\* A closed input has nothing left to do.
CHECK_DEADLOCK FALSE
