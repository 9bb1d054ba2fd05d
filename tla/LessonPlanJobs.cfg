SPECIFICATION FairSpec
CONSTANTS
    p1 = p1
    m1 = m1
    m2 = m2
    m3 = m3
    Plans <- OnePlan
    Msgs <- ThreeMsgs
    MAX_RETRIES = 1
    STALE_AFTER = 1
    MaxRedeliveries = 1
INVARIANT WorkerFindsRow
INVARIANT ExclusiveRun
INVARIANT AttemptsBounded
INVARIANT CompletedIsWhole
PROPERTY NeverRegenerated
PROPERTY KeepsContract
PROPERTY JobsReported
CHECK_DEADLOCK FALSE
