CONSTANTS
    Invs = {i1, i2}
    Mqtt = mqtt
    MaxStat = 2
    MaxRestarts = 1
    MaxLosses = 1
SPECIFICATION FairSpec
INVARIANTS
    TypeOK
    OutstandingUnlessCounted
    NotedMeansRegistered
PROPERTIES
    RestartNoted
CHECK_DEADLOCK FALSE
