\* Up to two nodes of the client in each list, of both kinds.
SPECIFICATION Spec
CONSTANTS
    MaxNodes = 2
    Null = Null
INVARIANTS
    TypeOK
    NoDanglingAccess
    OneOwner
    NothingLost
    IInv
