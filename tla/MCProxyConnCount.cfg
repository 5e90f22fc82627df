\* A connection whose close fails is counted as active for ever.
CONSTANT MaxConn = 2
SPECIFICATION Spec
INVARIANT Balanced
CHECK_DEADLOCK FALSE
