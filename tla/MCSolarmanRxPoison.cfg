\* A message whose handler raises stays in the buffer, and the next ones too.
CONSTANTS
    Kinds <- MCKinds
    MaxFrames = 2
SPECIFICATION Spec
INVARIANT AllProcessed
CHECK_DEADLOCK FALSE
