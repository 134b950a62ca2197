\* Three requests; their sends are serialised by the client, the rest is not.
SPECIFICATION LibFairSpec
CONSTANTS
    Threads = {t1, t2, t3}
    Null = Null
    SerialCreate = TRUE
INVARIANTS
    OneInSection
    JoinedOnce
    NoThreadLost
    IInv
    JoinsOnlyReleased
PROPERTIES
    SlowRequestBlocksNobody
