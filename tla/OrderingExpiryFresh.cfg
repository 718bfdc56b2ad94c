SPECIFICATION TtlSpec
CONSTANTS
    Messages = {m1, m2}
    Slots = {s1}
    NoLease = NoLease
    KeyLife = 3
    LeaseLife = 1
PROPERTIES
    FreshTurnIsDue
CHECK_DEADLOCK FALSE
