CONSTANTS
    Types = {p1}
    QueueMax = 2
    MaxMade = 5
    Spurious = FALSE
    Failures = FALSE
SPECIFICATION Spec
CHECK_DEADLOCK FALSE
INVARIANT NotBothWaiting
