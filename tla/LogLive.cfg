CONSTANTS
    Printers = {t1, t2}
    Closer = Closer
    Nobody = Nobody
    MaxCalls = 2
SPECIFICATION FairSpec
CHECK_DEADLOCK FALSE
INVARIANT TypeOK
INVARIANT WriterOwnsTheLog
PROPERTY CloseReturns
PROPERTY CallsReturnUntilClosed
