CONSTANTS
    MaxSeeks = 2
    AudioQueue = 2
SPECIFICATION Spec
INVARIANTS
    TypeOK
    AnsweredMeansClean
    WaitingSeekIsAnnounced
    NoSnapBack
PROPERTIES
    RunningSessionSeeks
    PreemptedSessionEnds
CHECK_DEADLOCK FALSE
