CONSTANTS
    Payload <- LineKind
    Residue <- TailKind
    LinesCap = 1
    Stall = 2
    MaxReads = 3
    LinesPerRead = 1
    MaxLines = 2
SPECIFICATION FairSpec
INVARIANTS
    RelayIsFaithful
    EndMarksAreUnique
    CleanEndIsMarkedOnce
PROPERTIES
    StallNamesTheCulprit
    StreamAndReaderEnd
CHECK_DEADLOCK FALSE
