CONSTANTS
    k1 = k1
    k2 = k2
    kx = kx
    r = r
    w = w
    opPut = opPut
    opGet = opGet
    opOther = opOther
    Keys <- MCKeys
    Tokens <- MCTokens
    NoToken = NoToken
    Operations <- MCOperations
    Validators <- MCValidators
    AcceptedAudiences = {"dss"}
    Resolver = "jwks"
    Workers = {w1}
    MaxRotations = 2
    NULL = NULL
SPECIFICATION Spec
INVARIANT RejectedWithCode

