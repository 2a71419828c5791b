\* Two transactions in a row, with one I/O error or crash.
SPECIFICATION Spec
CONSTANTS
    a = a
    b = b
    Names = {a, b}
    NumFiles = 2
    Overwrite = {1}
    MaxTrans = 2
    MaxFaults = 1
    DbOnly = {TRUE, FALSE}
    UserDeletes = FALSE
    NoName = NoName
SYMMETRY NameSymmetry
CHECK_DEADLOCK FALSE
INVARIANTS FilesPresent CacheIsDisk DoneIsExact
PROPERTIES NewOwnerKeepsFile UserFilesKept
