CONSTANTS
    Frames <- MCFrames
    QueCap = 2
    MaxRetries = 1
    InvAddr = 1
    WireCap = 2
    MaxReq = 3
SPECIFICATION FairSpec
INVARIANTS
    TypeOK
    StallNeedsRaise
    OneTimer
    NoneLost
    HandlerOnce
    TriesExact
    StrayNeedsRetry
PROPERTIES
    EveryRequestEnds
    ServiceSpec
CHECK_DEADLOCK FALSE
