\* Every dependency graph over three packages.
SPECIFICATION SortSpec
CONSTANTS
    NumPkgs = 3
    MaxEdges = 9
INVARIANTS DependenciesFirst BrokenOrderIsReported WarningsAreCycles
