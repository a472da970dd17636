CONSTANTS
    c1 = c1
    c2 = c2
    SubIDs = {s1}
    Owners = {u1}
    Clients = {a, b}
    CellSets <- MCCellSets
    Writers <- MCWriters
    MaxTime = 3
    Grace = 0
    NULL = NULL
    SQLNull = SQLNull
SYMMETRY ClientSymmetry
SPECIFICATION Spec
INVARIANT ListExpiredIncludesNullWriter
