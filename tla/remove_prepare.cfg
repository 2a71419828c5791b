\* Three installed packages with up to three dependencies.
SPECIFICATION Spec
CONSTANTS
    NumPkgs = 3
    MaxDeps = 3
    MaxExplicit = 1
    FlagSets <- MCFlagSets
INVARIANTS NothingBroken CascadeIsLeast RecurseIsGreatest
