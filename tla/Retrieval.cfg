SPECIFICATION RetrievalSpec
CONSTANTS
    t1 = t1
    t2 = t2
    t3 = t3
    Texts <- ThreeTexts
    Lengths <- SomeLengths
    CandidateK = 2
    RerankShortlist = 3
    TopK = 2
    ContextMaxChars = 5
    MaxIngestions = 2
    MaxItems = 2
    MaxBlanks = 2
SYMMETRY TextSymmetry
INVARIANT PassagesFit
INVARIANT BestFirst
INVARIANT HonestRefusal
INVARIANT NoTwins
CHECK_DEADLOCK FALSE
