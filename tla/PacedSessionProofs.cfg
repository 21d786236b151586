CONSTANTS
    MaxSeeks = 2
    AudioQueue = 2
SPECIFICATION Spec
INVARIANTS
    Inv
    HoldsABlock
    ThreadsCanStep
CHECK_DEADLOCK FALSE
