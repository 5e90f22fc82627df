CONSTANTS
    Kinds <- MCKinds
    MaxFrames = 3
SPECIFICATION FairSpec
INVARIANTS
    TypeOK
    OnlyIntact
    InOrderOnce
    LossNeedsFraming
PROPERTIES
    KeepsReading
CHECK_DEADLOCK FALSE
