CONSTANTS
    c1 = c1
    c2 = c2
    m1 = m1
    m2 = m2
    o1 = o1
    o2 = o2
    Managers = {m1, m2}
    SubIDs = {s1}
    OpIDs = {o1}
    ConIDs = {}
    Vols <- MCVolsFP
    MaxVersion = 3
    NULL = NULL
SYMMETRY Symmetry
SPECIFICATION Spec
INVARIANT TypeOK
PROPERTY DependentsCovered
PROPERTY NotificationIndexMonotonic
