\* The client's callbacks do not exclude its calls: a cancel races the release.
SPECIFICATION Spec
CONSTANTS
    NHR_CONNECT_ATTEMPS = 3
    Addrs = 2
    MaxTimeout = 1
    DefaultTimeout = 1
    MaxLag = 1
    MaxSegments = 2
    SerialCalls = TRUE
    SerialCallbacks = FALSE
    MaySpawnFail = FALSE
INVARIANTS
    NoUseAfterFree
CHECK_DEADLOCK FALSE
