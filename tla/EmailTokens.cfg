SPECIFICATION Spec
CONSTANTS
    t1 = t1
    t2 = t2
    t3 = t3
    r1 = r1
    r2 = r2
    NoRequest = NoRequest
    NoToken = NoToken
    Tokens <- ThreeTokens
    Requests <- TwoRequests
SYMMETRY Symmetric
INVARIANT AccountHasLink
INVARIANT ResetOnce
INVARIANT NewestWorks
PROPERTY DoubleOpen
CHECK_DEADLOCK FALSE
