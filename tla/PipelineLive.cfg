CONSTANTS
    Types = {p1}
    Fin = Fin
    Nobody = Nobody
    QueueMax = 1
    FinMax = 1
    MaxMade = 3
    Spurious = FALSE
    Failures = TRUE
SPECIFICATION FairSpec
CHECK_DEADLOCK FALSE
INVARIANT HandOver
INVARIANT EveryItemIsSomewhere
PROPERTY LineForEveryItem
PROPERTY ProducersStopUnlessHeldUp
