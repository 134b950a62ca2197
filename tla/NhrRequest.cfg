\* One request, all interleavings of its threads; a client whose calls and
\* callbacks exclude each other.  The threads and the clock are fair.
SPECIFICATION FairSpec
CONSTANTS
    NHR_CONNECT_ATTEMPS = 3
    Addrs = 2
    MaxTimeout = 2
    DefaultTimeout = 2
    MaxLag = 1
    MaxSegments = 2
    SerialCalls = TRUE
    SerialCallbacks = TRUE
    MaySpawnFail = TRUE
INVARIANTS
    TypeOK
    NoUseAfterFree
    AtMostOneCallback
    OutcomeIsTrue
    SocketDiscipline
    IInv
PROPERTIES
    ImplementsContract
    EventuallyReleased
    EventuallyInformed
