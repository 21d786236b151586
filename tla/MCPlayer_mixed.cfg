CONSTANTS
    Senders = {s1, s2}
    MaxQueue = 2
    MaxItems = 3
    MaxOverlaps = 1
    Room = 5
SPECIFICATION Spec
INVARIANTS
    PlaysCurrent
CHECK_DEADLOCK FALSE
