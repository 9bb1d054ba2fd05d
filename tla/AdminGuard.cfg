SPECIFICATION GuardSpec
CONSTANTS
    u1 = u1
    u2 = u2
    r1 = r1
    r2 = r2
    r3 = r3
    NoCaller = NoCaller
    NoJob = NoJob
    Users <- TwoUsers
    Callers <- ThreeCallers
SYMMETRY Symmetric
PROPERTY UpdateKeepsAnAdmin
PROPERTY CountedKeepsAnAdmin
CHECK_DEADLOCK FALSE
