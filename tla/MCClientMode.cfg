CONSTANTS
    scan_reg <- MCScanReg
    Blocks <- MCBlocks
    SlowBlocks <- MCSlowBlocks
    RealList = "3026"
    SlowEvery = 3
    mb_timeout = 15
    MbTimeout = 4
    MaxRetries = 1
    QueCap = 8
    MaxForeign = 2
    MaxErrors = 2
    Clients = {c1, c2}
    Forwarding = {c1}
    MaxSessions = 4
    HbTimeouts = {3, 6}
    hb_default = 3
    data_up_inv = 15
    MAX_START_TIME = 20
    MaxFwd = 2
SPECIFICATION MCSpec
INVARIANTS
    MCTypeOK
    WrongNeedsDisturbance
    OverflowNeedsLongList
    CaughtIsLast
    DeadNeedsTwoUnanswered
PROPERTIES
    MCDetectionEnds
    AllReached
CHECK_DEADLOCK FALSE
