\* Seven operations, which save three files; numbers to spare.
SPECIFICATION Spec
CONSTANTS
    v1 = v1
    v2 = v2
    u1 = u1
    u2 = u2
    Packaged = {v1, v2}
    Edited = {u1, u2}
    MaxNum = 4
    MaxOps = 7
    Literal = TRUE
    None = None
SYMMETRY ContentSymmetry
PROPERTIES NothingLost ConfigTable
