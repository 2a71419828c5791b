\* One process, two targets each way, signals at every step.
SPECIFICATION FairSpec
CONSTANTS
    p1 = p1
    p2 = p2
    Procs = {p1}
    MaxTargets = 2
    FlagChoices <- MCFlagsHooks
    NestedUpdate = TRUE
    HandlerReturns = TRUE
    NoFile = NoFile
    Stale = Stale
INVARIANTS CommittedIsComplete HooksSeeComplete
PROPERTIES NoPackageAfterInterrupt CallsReturn
