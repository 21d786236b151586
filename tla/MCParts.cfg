CONSTANTS
    Handles = {h1, h2}
    Buffers = 2
    MaxLinks = 2
    MaxPdus = 3
    MaxFragments = 2
    Window = 1
    MaxCommands = 5
    MaxLosses = 5
    SeqSpace = 18
    MaxDepth = 2
    FirstPacket = 15
    LastPacket = 33
    Behind = 5
    Ahead = 3
SPECIFICATION Spec
INVARIANTS
    TypeOK
    NoCreditLeaks
    ControllerHasRoom
    HolesAreCounted
    SentOnceInOrder
PROPERTIES
    NothingIsStuck
    DeliversInOrder
CHECK_DEADLOCK FALSE
