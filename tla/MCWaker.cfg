CONSTANTS
    Producers = {p1, p2}
    MaxSends = 2
SPECIFICATION Spec
INVARIANTS
    TypeOK
    NoSleepOnCommands
PROPERTIES
    CommandsAreDrawn
    ExitCloses
CHECK_DEADLOCK FALSE
