SPECIFICATION AlgorithmsSpec
CONSTANTS
    Nothing = Nothing
    Data <- MCData
    MaxItems = 6
    NoCall = NoCall
    NoData = NoData
    Versions <- MCVersions
    FileSets <- MCFileSets
    Hyphens = FALSE
    DiskCases <- MCDiskCases
    root <- Root
    dbpath <- Root
    DotChar = 1
    SlashChar = 2
    TwentyMiB = 20
INVARIANTS VersionOrder FileListsExact SpaceSuffices
PROPERTIES RefinesSequences
CHECK_DEADLOCK FALSE
