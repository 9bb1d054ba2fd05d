SPECIFICATION FairSpec
CONSTANTS
    j1 = j1
    j2 = j2
    j3 = j3
    l1 = l1
    Jobs <- ThreeJobs
    Labels <- OneLabel
    Batches = 2
INVARIANT ChunksWhole
INVARIANT OverlapOnly
INVARIANT NothingAfterDeletion
INVARIANT FileBehindDocument
PROPERTY NeverEmptied
PROPERTY Settles
CHECK_DEADLOCK FALSE
