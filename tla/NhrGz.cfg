\* A uLong of 32 or of 64 bits; outputs of up to three and a bit blocks.
SPECIFICATION FairSpec
CONSTANTS
    NHR_GZ_CHUNK_SIZE = 4
    NHR_GZ_HEADER_SIZE = 10
    NHR_GZ_FOOTER_SIZE = 8
    ULongSizes = {4, 8}
    MaxOut = 13
INVARIANTS
    TypeOK
    WritesFit
    SizeIsExact
    IInv
PROPERTIES
    Terminates
