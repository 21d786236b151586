CONSTANTS
    Newest = 3
    Strikes = 3
    MaxFaults <- NoFaults
SPECIFICATION Spec
INVARIANTS
    WaitingTreesAreUntried
CHECK_DEADLOCK FALSE
