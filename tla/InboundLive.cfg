\* One crash, every kind of processing failure, and fair scheduling.
SPECIFICATION FairSpec
CONSTANTS
    Messages = {m1, m2}
    Slots = {s1, s2}
    Requests = {r1}
    NoLease = NoLease
    NoMessage = NoMessage
    NoSlot = NoSlot
    MaxAttempts = 2
    MaxStalls = 1
    Scenarios = {{"crash"}}
    MaxTrouble = 1
PROPERTIES
    EveryTurnEnds
\* The system stops when every message is settled and nothing redelivers.
CHECK_DEADLOCK FALSE
