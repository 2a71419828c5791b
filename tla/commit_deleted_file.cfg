\* The user has deleted a file that changes hands.
SPECIFICATION Spec
CONSTANTS
    a = a
    b = b
    Names = {a, b}
    NumFiles = 2
    Overwrite = {}
    MaxTrans = 1
    MaxFaults = 0
    DbOnly = {FALSE}
    UserDeletes = TRUE
    NoName = NoName
SYMMETRY NameSymmetry
CHECK_DEADLOCK FALSE
PROPERTY NewOwnerKeepsFile
