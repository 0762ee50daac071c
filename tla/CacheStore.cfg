CONSTANTS
    Prompts <- MCPrompts
    Requests = {r1, r2}
    Capacities = {1, 2}
    MaxHandle = 3
SPECIFICATION Spec
SYMMETRY RequestSymmetry
INVARIANTS TypeOK ListMatchesMap RefsExact ReadersSafe WithinLimit CleanIdentity RestoredComplete
PROPERTY ImplementsLru
CHECK_DEADLOCK FALSE
