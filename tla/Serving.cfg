CONSTANTS
    Long = long
    Requests = {long, short}
    MaxBatch = 2
    QueueCap = 1
    MaxTokens <- MCBudget
    Stops <- MCStops
    Pieces <- MCPieces
SPECIFICATION FairSpec
INVARIANTS TypeOK StreamExact NoJobLost RegistryExact
PROPERTIES ImplementsGenerator Served NoGoroutineLeak
CHECK_DEADLOCK FALSE
