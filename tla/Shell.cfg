SPECIFICATION Spec
CONSTANTS
    Words = {"a", "b"}
    MAXARGS = 3
    NPROC = 7
    First <- MCFirst
    Later <- MCLater
    MaxLines = 2
    MaxChunks = 1
    MaxFaults = 1
    MaxTokens = 3
INVARIANTS
    Wired
PROPERTIES
    ParseExact
    CommandsFinish
CHECK_DEADLOCK FALSE
