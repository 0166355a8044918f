CONSTANTS
    Types = {p1}
    QueueMax = 2
    MaxMade = 5
    Spurious = FALSE
    Failures = FALSE
SPECIFICATION FairSpec
CHECK_DEADLOCK FALSE
PROPERTY GetterReturnsAfterStop
