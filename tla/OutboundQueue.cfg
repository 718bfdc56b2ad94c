\* Every group, three attempts (the code has five: the fourth and fifth repeat
\* the third), two troubles of either scenario anywhere.
SPECIFICATION FairSpec
CONSTANTS
    Slots = {s1, s2}
    NoSlot = NoSlot
    MaxAttempts = 3
    MaxStalls = 1
    MaxTrouble = 2
    Groups <- AllGroups
    Scenarios <- AllTroubles
INVARIANTS
    TypeOK
    DeliveredInOrder
    FailedIsDeadLettered
PROPERTIES
    RecordedNotResent
    SentIsFinal
    EventuallyDecided
\* The system stops when the group is decided.
CHECK_DEADLOCK FALSE
