CONSTANTS
    c1 = c1
    c2 = c2
    c3 = c3
    Content = {c1, c2, c3, torn}
    ValidContent = {c1, c2, c3}
    Missing = Missing
    LevelOf <- MCLevelOf
    MaxWrites = 4
SPECIFICATION FairSpec
INVARIANTS
    StampDescribesSnapshot
PROPERTIES
    ImplementsRegister
    EditsAreAdopted
    StoppedForGood
CHECK_DEADLOCK FALSE
