SPECIFICATION MCSpec
CONSTANTS
    Children = {c1, c2, c3, c4}
    Off = Off
    None = None
    Parts = {"split", "scanners", "tar", "memory", "lru", "file", "limit", "tree", "batched", "late", "broker", "brokers", "http_server", "http_client", "websocket", "socket", "producer", "resend", "stdout"}
INVARIANTS
    AckMeansOut
    NobodyForgotten
    ParentAnswer
    ChunkingInvisible
    TreeKeepsMessages
    LimitsHold
PROPERTIES
    AnswerIsFinal
    WritesEnd
\* What is answered, read or run has nothing left to do.
CHECK_DEADLOCK FALSE
