CONSTANTS
    Prompts <- MCPrompts
    Requests = {r1}
    Capacities = {1, 2}
    MaxHandle = 3
SPECIFICATION Spec
SYMMETRY RequestSymmetry
INVARIANT ReloadedIdentity
CHECK_DEADLOCK FALSE
