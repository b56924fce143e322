SPECIFICATION MCSpec
CONSTANTS
    Off = Off
    Shards = {s, t}
    MaxMsgs = 1
    MaxScrapes = 1
    None = None
    NIds = 2
    Requests <- MCRequests
    Op <- MCOp
    Target <- MCTarget
    Boot <- MCBoot
    Modes = {TRUE, FALSE}
    MaxOpen = 2
    MaxSignals = 1
INVARIANTS
    RegistrySound
    ManagerOutlives
    RunSound
PROPERTY
    ShutdownCompletes
\* The process exits, or waits for requests the run has no more of.
CHECK_DEADLOCK FALSE
