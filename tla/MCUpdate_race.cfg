CONSTANTS
    Newest = 3
    Strikes = 3
    MaxFaults <- NoFaults
SPECIFICATION Spec
INVARIANTS
    AgentOwnsTheTree
CHECK_DEADLOCK FALSE
