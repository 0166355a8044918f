CONSTANTS
    m1 = m1
    m2 = m2
    m3 = m3
    Mids <- TwoMids
    Fin = Fin
    Nobody = Nobody
    FinMax = 2
    MaxAdded = 2
    Spurious = FALSE
    Failures = FALSE
SPECIFICATION FairSpec
CHECK_DEADLOCK FALSE
PROPERTY StopReaderProcessorReturns
