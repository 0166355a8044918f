CONSTANTS
    Types = {p1, p2}
    Fin = Fin
    Nobody = Nobody
    QueueMax = 1
    FinMax = 1
    MaxMade = 1
    Spurious = TRUE
    Failures = TRUE
SPECIFICATION Spec
CHECK_DEADLOCK FALSE
INVARIANT NoThreadOutlivesItsObjects
INVARIANT NothingDestroyedInUse
