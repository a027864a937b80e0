CONSTANTS
    MaxRelease = 1
    Conns = {c1, c2}
SPECIFICATION ProcessFair
INVARIANT
    ShutdownKeepsItsWord
PROPERTIES
    IdentityMovesForward
    ProcessEnds
CHECK_DEADLOCK FALSE
