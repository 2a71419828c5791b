SPECIFICATION SyncCommitSpec
CONSTANTS
    NumItems = 2
    s1 = s1
    s2 = s2
    Servers = {s1, s2}
    MaxStreams = 2
    ServerErrorLimit = 2
    MaxFaults = 2
    MaxTries = 2
    GoesOn = FALSE
    NoFile = NoFile
    Settings <- MCSettings
    NumDirs = 2
    HookNames = {1, 2}
    HookCases <- MCHookCases
    ReadErrors = {"pre"}
    WriteLimit = 4
    ReadLimit = 3
    Outputs <- MCOutputs
INVARIANTS NoErrorPage LoadedIsGood UsedIsVerified HookReadsItsTargets OverriddenNeverRuns OutputLoggedOnce
CHECK_DEADLOCK FALSE
