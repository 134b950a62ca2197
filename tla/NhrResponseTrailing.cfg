\* Bytes follow a compressed body whose length is given.
SPECIFICATION Spec
CONSTANTS
    Messages <- GzipWithTrash
    Streams <- MCStreams
    OtherBytes = {"p", "q", "r", "t", "y", "z"}
    StackBytes = {"nul"}
    BuffSize = 40
    NHR_GZ_CHUNK_SIZE = 2
    SplitHeader = FALSE
    SplitChunks = FALSE
    StaleDigits = FALSE
PROPERTIES
    TrashIgnored
