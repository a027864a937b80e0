CONSTANTS
    Egress = {e1}
    User = {u1, u2, u3}
    Caps = {0, 1}
SPECIFICATION LimiterSpec
PROPERTIES
    DialsWithinCap
CHECK_DEADLOCK FALSE
