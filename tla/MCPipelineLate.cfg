SPECIFICATION MCSpec
CONSTANTS
    Children = {c1, c2, c3, c4}
    Off = Off
    None = None
    Parts = {"late"}
PROPERTY
    EveryWriteIsAnswered
\* What is answered, read or run has nothing left to do.
CHECK_DEADLOCK FALSE
