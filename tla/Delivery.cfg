SPECIFICATION FairSpec
CONSTANTS
    Requests = {r1, r2}
    NLetters = 3
    Keys = {1, 2}
    KeyOf <- Shared
    TTL = 2
    Window = 1
    SendMax = 1
    MaxAttempts = 2
INVARIANTS
    Exclusive
    SentOnce
    CopiesExplained
PROPERTIES
    RequestEnds
CHECK_DEADLOCK FALSE
