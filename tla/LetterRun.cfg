SPECIFICATION LetterSpec
CONSTANTS
    Requests = {r1, r2}
    NLetters = 2
    Keys = {1, 2}
    KeyOf <- OwnKey
    Heads = {1, 2}
    TTL = 2
    Window = 1
    SendMax = 1
    MaxAttempts = 2
SYMMETRY Symmetry
INVARIANTS
    SentRunIsComplete
    ClosedIsSettled
PROPERTIES
    CancelStopsLetters
CHECK_DEADLOCK FALSE
