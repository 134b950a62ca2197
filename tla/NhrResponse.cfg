\* Every message; the header comes whole, and so do chunks.
SPECIFICATION FairSpec
CONSTANTS
    Messages <- MCMessages
    Streams <- MCStreams
    OtherBytes = {"p", "q", "r", "t", "y", "z"}
    StackBytes = {"nul", "noise"}
    BuffSize = 21
    NHR_GZ_CHUNK_SIZE = 2
    SplitHeader = FALSE
    SplitChunks = FALSE
    StaleDigits = FALSE
INVARIANTS
    TypeOK
    BodyFits
    FinishedMeansWhole
    CursorInSegment
    IInv
PROPERTIES
    ImplementsResponse
    EventuallyFinished
