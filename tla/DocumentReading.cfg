SPECIFICATION Spec
CONSTANTS
    MaxChars = 6
    OverlapChars = 2
    MaxTableChars = 34
    BodyChars = 2
    HeadingChars <- Limits
    Documents <- AllDocuments
    OcrMaxPages = 3
    OcrConcurrency = 2
    BatchSize = 2
INVARIANT NothingLost
INVARIANT ChunksFit
INVARIANT OverlapLinks
INVARIANT WellCited
INVARIANT WarningsTrue
INVARIANT VectorsPaired
CHECK_DEADLOCK FALSE
