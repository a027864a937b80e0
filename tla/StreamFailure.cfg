CONSTANTS
    Payload <- LineKind
    Residue <- TailKind
    LinesCap = 1
    Stall = 2
    MaxReads = 2
    LinesPerRead = 1
    MaxLines = 2
SPECIFICATION Spec
INVARIANT FailureOnlyWithoutTerminal
CHECK_DEADLOCK FALSE
