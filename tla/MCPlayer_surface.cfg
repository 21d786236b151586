CONSTANTS
    Senders = {s1}
    MaxQueue = 2
    MaxItems = 3
    MaxOverlaps = 1
    Room = 5
SPECIFICATION Spec
INVARIANTS
    SurfaceFollows
CHECK_DEADLOCK FALSE
