SPECIFICATION FairSpec
CONSTANTS
    Links = {l1, l2, l3}
    Workers = {w1, w2}
    Capacity = 1
    None = None
    Visits = 2
INVARIANTS
    Accounted
    DrainTruth
PROPERTIES
    PromiseKept
    Settles
    CloseEnds
CHECK_DEADLOCK FALSE
