CONSTANTS
    MaxSessions = 2
    MaxCalls = 1
    FrameDepth = 1
    Kinds = {"url", "encoded", "decoded", "audio"}
SPECIFICATION Spec
INVARIANTS
    TypeOK
    PreemptReachesEveryone
    TicketsAreCurrent
PROPERTIES
    ClearSparesTheMirror
CHECK_DEADLOCK FALSE
