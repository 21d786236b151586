CONSTANTS
    Modulo = 8
    Window = 3
    MaxTransmit = 3
    SduFrames <- MCThree
    MaxLosses = 2
    QuickPeer = TRUE
SPECIFICATION Spec
INVARIANTS
    DiesOfItsLossesOnly
CHECK_DEADLOCK FALSE
