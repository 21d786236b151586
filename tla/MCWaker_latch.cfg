CONSTANTS
    Producers = {p1, p2}
    MaxSends = 1
SPECIFICATION Spec
INVARIANT EarlyWakesFire
CHECK_DEADLOCK FALSE
