CONSTANTS
    c1 = c1
    c2 = c2
    SubIDs = {s1, s2}
    Owners = {u1}
    Clients = {a, b}
    CellSets <- MCCellSets
    Writers = {""}
    MaxTime = 3
    Grace = 1
    NULL = NULL
    SQLNull = SQLNull
SYMMETRY Symmetry
SPECIFICATION Spec
INVARIANT TypeOK
PROPERTY WritesOnlyFromCurrentRead
INVARIANT OwnerCountMatchesSearch
