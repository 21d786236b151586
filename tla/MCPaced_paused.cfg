CONSTANTS
    MaxSeeks = 1
    AudioQueue = 2
SPECIFICATION Spec
PROPERTIES
    PausedSessionSeeks
CHECK_DEADLOCK FALSE
