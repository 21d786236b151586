CONSTANTS
    Newest = 3
    Strikes = 2
    MaxFaults <- MCFaults
SPECIFICATION Spec
INVARIANTS
    NothingSpawnsHalfATree
    PreviousWasHealthy
PROPERTIES
    BadBitsLoseThePanel
    LatestIsTaken
    PanelComesBack
CHECK_DEADLOCK FALSE
