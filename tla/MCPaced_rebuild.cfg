CONSTANTS
    MaxSeeks = 1
    AudioQueue = 2
SPECIFICATION Spec
PROPERTIES
    OnlySeeksMove
CHECK_DEADLOCK FALSE
