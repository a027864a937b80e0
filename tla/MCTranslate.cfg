CONSTANTS
    ChoiceIds = {0, 1}
    CallSlots = {0, 1}
    MaxOutputIndex = 4
    ChatKinds <- MCChatKinds
    PlainKinds <- MCPlainKinds
    VariedEvents <- MCVariedEvents
    MaxEvents <- MCMaxEvents
    LateEvents = 2
    MaxBytes = 2
    Window = 1
SPECIFICATION FairSpec
INVARIANTS
    ItemsEnd
    
    NothingIsLost
    ArgumentsReachTheirCall
    OneFinish
    ReadIsExact
    ForcedTellsTheSame
PROPERTIES
    ForcedEnds
CHECK_DEADLOCK FALSE
