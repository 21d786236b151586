CONSTANTS
    Newest = 3
    Strikes = 1
    MaxFaults <- ManyFaults
SPECIFICATION Spec
INVARIANTS
    UnmarkedSpawnsNoHalfATree
CHECK_DEADLOCK FALSE
