SPECIFICATION Spec
CONSTANTS
    t1 = t1
    t2 = t2
    t3 = t3
    f1 = f1
    f2 = f2
    r1 = r1
    r2 = r2
    NoRequest = NoRequest
    NoToken = NoToken
    NoFamily = NoFamily
    Tokens <- ThreeTokens
    Families <- TwoFamilies
    Requests <- TwoRequests
SYMMETRY Symmetric
INVARIANT ForkOnlyInGrace
INVARIANT ClosedForGood
INVARIANT IssuedWhileActive
CHECK_DEADLOCK FALSE
