CONSTANTS
    Types = {p1}
    QueueMax = 3
    MaxMade = 7
    Spurious = FALSE
    Failures = TRUE
SPECIFICATION Spec
CHECK_DEADLOCK FALSE
INVARIANT TypeOK
INVARIANT QueueBounded
PROPERTY ImplementsChannel
