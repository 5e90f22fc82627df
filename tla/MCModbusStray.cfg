\* The late answer of a request that was given up is taken for the next one.
CONSTANTS
    Frames <- MCFrames
    QueCap = 2
    MaxRetries = 1
    InvAddr = 1
    WireCap = 2
    MaxReq = 3
SPECIFICATION Spec
INVARIANT NoStray
CHECK_DEADLOCK FALSE
