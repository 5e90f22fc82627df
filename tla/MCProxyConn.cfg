CONSTANT MaxConn = 2
SPECIFICATION FairSpec
INVARIANTS
    TypeOK
    OpenIsRemote
    BalancedUnlessBroken
PROPERTIES
    EndsOnlyItself
    AllTasksEnd
    ShutdownEnds
CHECK_DEADLOCK FALSE
