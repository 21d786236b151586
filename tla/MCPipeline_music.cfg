CONSTANTS
    MaxSessions = 1
    MaxCalls = 0
    FrameDepth = 1
    Kinds = {"music"}
SPECIFICATION Spec
PROPERTIES
    MusicKeepsItsCard
CHECK_DEADLOCK FALSE
