CONSTANTS
    m1 = m1
    m2 = m2
    m3 = m3
    Mids <- ThreeMids
    Fin = Fin
    Nobody = Nobody
    FinMax = 2
    MaxAdded = 2
    Spurious = TRUE
    Failures = TRUE
SPECIFICATION Spec
CHECK_DEADLOCK FALSE
SYMMETRY Symmetry
INVARIANT TypeOK
INVARIANT LinesInOrder
INVARIANT OvershootBounded
