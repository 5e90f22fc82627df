CONSTANTS
    AtCmds <- MCAtCmds
    Allow <- MCAllow
    Block <- MCBlock
    MaxCmd = 4
SPECIFICATION Spec
INVARIANTS
    OnceInOrder
    AclHeld
    StrayNeedsOverlap
CHECK_DEADLOCK FALSE
