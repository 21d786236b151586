CONSTANTS
    Sources = {a, b}
    NoSource = none
    Emitters = {a}
    Players = {a}
    Events = {"Play", "Audio", "ControlSurface", "NowPlaying"}
    HasDisplay = FALSE
    Capacity = 8
    EndsDepth = 2
    MaxMessages = 2
    Playlist = 4
SPECIFICATION Spec
INVARIANTS
    Holding
    FewCalls
    AwaitsCanEnd
CHECK_DEADLOCK FALSE
