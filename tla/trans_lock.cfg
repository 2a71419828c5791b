\* Two processes, one target each way, every flag that concerns the lock.
SPECIFICATION Spec
CONSTANTS
    p1 = p1
    p2 = p2
    Procs = {p1, p2}
    MaxTargets = 1
    FlagChoices <- MCFlags
    NestedUpdate = FALSE
    HandlerReturns = FALSE
    NoFile = NoFile
    Stale = Stale
SYMMETRY ProcSymmetry
INVARIANTS TypeOK LockExclusion
PROPERTIES LockFileRespected
