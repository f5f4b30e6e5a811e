SPECIFICATION LetterSpec
CONSTANTS
    Requests = {r1}
    NLetters = 2
    Keys = {1}
    KeyOf <- SameKey
    Heads = {1, 2}
    TTL = 2
    Window = 1
    SendMax = 1
    MaxAttempts = 2
INVARIANTS
    SentRunMailedAll
CHECK_DEADLOCK FALSE
