CONSTANTS
    MaxSessions = 2
    MaxCalls = 0
    FrameDepth = 1
    Kinds = {"encoded", "decoded", "music", "page"}
SPECIFICATION Spec
PROPERTIES
    IdlePanelGoesBare
CHECK_DEADLOCK FALSE
