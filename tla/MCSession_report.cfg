CONSTANTS
    Sources = {a, b}
    NoSource = none
    Emitters = {}
    Players = {}
    Events = {"Play"}
    HasDisplay = FALSE
    Capacity = 2
    EndsDepth = 2
    MaxMessages = 2
    Playlist = 0
SPECIFICATION Spec
PROPERTIES
    ReportEndsItsOwnItem
CHECK_DEADLOCK FALSE
