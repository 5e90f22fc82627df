\* An increment during the await of a publish is never published.
CONSTANTS
    Invs = {i1, i2}
    Mqtt = mqtt
    MaxStat = 2
    MaxRestarts = 1
    MaxLosses = 0
SPECIFICATION Spec
INVARIANT Outstanding
CHECK_DEADLOCK FALSE
