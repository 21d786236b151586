CONSTANTS
    Producers = {p1, p2}
    MaxSends = 2
SPECIFICATION Spec
INVARIANT
    GuardsSuffice
CHECK_DEADLOCK FALSE
