\* Lists of up to two fields and two parameters; values that may name a coding.
SPECIFICATION Spec
CONSTANTS
    Lengths = {1, 4}
    Ports = {0, 6}
    MaxNodes = 2
    NHR_POST_BOUNDARY_LEN = 12
INVARIANTS
    WritesFit
    HeaderDescribesBody
    IInv
