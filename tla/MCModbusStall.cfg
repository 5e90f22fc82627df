\* A response that cannot be decoded leaves the waiting requests stuck.
CONSTANTS
    Frames <- MCFrames
    QueCap = 2
    MaxRetries = 1
    InvAddr = 1
    WireCap = 2
    MaxReq = 3
SPECIFICATION Spec
INVARIANT NoStall
CHECK_DEADLOCK FALSE
