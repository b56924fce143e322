SPECIFICATION MCSpec
CONSTANTS
    Children = {c1, c2, c3, c4}
    Off = Off
    None = None
    Parts = {"resend"}
INVARIANT
    ResentInPlace
\* What is answered, read or run has nothing left to do.
CHECK_DEADLOCK FALSE
