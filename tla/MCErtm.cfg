CONSTANTS
    Modulo = 6
    Window = 3
    MaxTransmit = 2
    SduFrames <- MCBothWays
    MaxLosses = 2
    QuickPeer = TRUE
SPECIFICATION Spec
INVARIANTS
    TypeOK
    NeitherEndIsAhead
    OutstandingIsTimed
    OneRejectPerGap
PROPERTIES
    ImplementsStream
    ArrivesOrBothClose
CHECK_DEADLOCK FALSE
