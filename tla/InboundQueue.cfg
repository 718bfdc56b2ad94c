\* Two messages, two slots, concurrent deliveries, any two troubles, except that a worker whose
\* job stalls renews its lease in time.
SPECIFICATION Spec
CONSTANTS
    Messages = {m1, m2}
    Slots = {s1, s2}
    Requests = {r1, r2}
    NoLease = NoLease
    NoMessage = NoMessage
    NoSlot = NoSlot
    MaxAttempts = 2
    MaxStalls = 1
    Scenarios = {{"fault", "crash", "lapse", "lostAck"}, {"fault", "crash", "stall"}}
    MaxTrouble = 2
INVARIANTS
    TypeOK
    HandledInTurnOrder
    OneAtATime
    NoSilentLoss
PROPERTIES
    FinishedNotHandledAgain
\* The system stops when every message is settled and nothing redelivers.
CHECK_DEADLOCK FALSE
SYMMETRY Symmetry
