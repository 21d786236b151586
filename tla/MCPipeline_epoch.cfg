CONSTANTS
    MaxSessions = 2
    MaxCalls = 0
    FrameDepth = 1
    Kinds = {"encoded"}
SPECIFICATION Spec
INVARIANT LiveOutranksClears
CHECK_DEADLOCK FALSE
