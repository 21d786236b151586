CONSTANTS
    Newest = 3
    Strikes = 2
    MaxFaults <- MCFaults
SPECIFICATION Spec
INVARIANTS
    UnmarkedFallsBackToHealthy
CHECK_DEADLOCK FALSE
