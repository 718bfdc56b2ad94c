\* One lease lapses, at the worst moment of the last attempt.
SPECIFICATION Spec
CONSTANTS
    Messages = {m1, m2}
    Slots = {s1, s2}
    Requests = {r1}
    NoLease = NoLease
    NoMessage = NoMessage
    NoSlot = NoSlot
    MaxAttempts = 3
    MaxStalls = 1
    Scenarios = {{"lapse"}}
    MaxTrouble = 1
INVARIANTS
    DeadLetteredTurnAdvanced
\* The system stops when every message is settled and nothing redelivers.
CHECK_DEADLOCK FALSE
