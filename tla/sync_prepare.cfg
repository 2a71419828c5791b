SPECIFICATION Spec
CONSTANTS
    NumNames = 3
    NumDbs = 2
    MaxTargets = 2
    Worlds <- MCWorlds
INVARIANTS
    SystemKeepsDeps
    NoNewConflicts
    PulledAreNeeded
    RecursionBounded
    ExplicitStaysExplicit
CHECK_DEADLOCK FALSE
