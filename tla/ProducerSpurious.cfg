CONSTANTS
    Types = {p1}
    QueueMax = 2
    MaxMade = 6
    Spurious = TRUE
    Failures = TRUE
SPECIFICATION FairSpec
CHECK_DEADLOCK FALSE
INVARIANT QueueIsInOrder
INVARIANT PopFindsAnItem
PROPERTY StopAddDataReturns
PROPERTY DeliveredUnlessThrottled
