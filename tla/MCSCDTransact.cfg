CONSTANTS
    c1 = c1
    c2 = c2
    m1 = m1
    m2 = m2
    o1 = o1
    o2 = o2
    Managers = {m1}
    SubIDs = {s1}
    OpIDs = {o1}
    ConIDs = {}
    Vols <- MCVolsTxn
    RequestStates <- MCRequestStatesTxn
    MaxVersion = 3
    NULL = NULL
    Workers = {w1}
    MaxRetries = 2
SYMMETRY Symmetry
SPECIFICATION TxnSpec
PROPERTY AtomicPutSubscription
