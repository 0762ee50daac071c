CONSTANTS
    Long = long
    Requests = {long}
    MaxBatch = 1
    QueueCap = 1
    MaxTokens <- MCBudget
    Stops <- MCStopPair
    Pieces <- MCLetters
SPECIFICATION Spec
INVARIANT NothingTrimmedEmitted
CHECK_DEADLOCK FALSE
