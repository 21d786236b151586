CONSTANTS
    Sources = {a, b}
    NoSource = none
    Emitters = {a}
    Players = {}
    Events = {"Play", "ControlSurface"}
    HasDisplay = FALSE
    Capacity = 2
    EndsDepth = 2
    MaxMessages = 3
    Playlist = 0
SPECIFICATION Spec
PROPERTIES
    ManagerReturns
CHECK_DEADLOCK FALSE
