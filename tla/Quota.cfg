SPECIFICATION Spec
CONSTANTS
    u1 = u1
    r1 = r1
    r2 = r2
    r3 = r3
    NoRequest = NoRequest
    Users <- OneUser
    Requests <- ThreeRequests
    userOf <- OneSender
    Limit = 2
SYMMETRY Symmetric
INVARIANT QuotaHeld
CHECK_DEADLOCK FALSE
