CONSTANTS
    Config <- MCConfig
    Offsets = {1}
    MaxMsgs = 3
    MaxConns = 2
    MaxRead = 2
    MaxMb = 1
    MaxRounds = 2
    MaxVal = 2
    MaxDays = 2
    MaxDailyConns = 2
SPECIFICATION MCSpec
INVARIANTS
    MCTypeOK
    ShiftedUnlessBatched
    ForwardedOnce
    AnsweredOnce
    StaleNeedsOldConnection
PROPERTIES
    FallNeedsStale
CHECK_DEADLOCK FALSE
