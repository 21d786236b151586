CONSTANTS
    Sources = {a, b}
    NoSource = none
    Emitters = {a}
    Players = {a}
    Events = {"Play", "Mirror", "Audio", "HostPage", "NowPlaying", "UpNext", "SourceInfo", "ControlSurface", "AudioLatency", "TouchSurface", "TouchSurfaceRevoked", "Pause", "Stop", "End"}
    HasDisplay = TRUE
    Capacity = 2
    EndsDepth = 2
    MaxMessages = 2
    Playlist = 2
SPECIFICATION Spec
INVARIANTS
    TypeOK
    OnlyTheActiveSourceShows
    CastingIsActive
PROPERTIES
    ImplementsScreen
CHECK_DEADLOCK FALSE
