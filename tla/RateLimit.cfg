SPECIFICATION LimitFairSpec
CONSTANTS
    r1 = r1
    r2 = r2
    r3 = r3
    r4 = r4
    Calls <- FourCalls
    MaxFailed = 2
    PerHour = 2
INVARIANT AllowedInWindow
PROPERTY LockoutEnds
CHECK_DEADLOCK FALSE
