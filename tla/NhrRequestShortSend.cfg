\* send takes a part of the request.
SPECIFICATION Spec
CONSTANTS
    NHR_CONNECT_ATTEMPS = 3
    Addrs = 2
    MaxTimeout = 1
    DefaultTimeout = 1
    MaxLag = 1
    MaxSegments = 2
    SerialCalls = TRUE
    SerialCallbacks = TRUE
    MaySpawnFail = FALSE
INVARIANTS
    RequestSentInFull
