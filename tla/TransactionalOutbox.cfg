\* Two orders, two writers, the publishers of two processes, two troubles anywhere.
SPECIFICATION FairSpec
CONSTANTS
    Orders = {o1, o2}
    Writers = {w1, w2}
    Publishers = {p1, p2}
    Nobody = Nobody
    Gone = Gone
    BatchSize = 2
    Kinds = {"crash", "slow", "queue", "database", "evict"}
    MaxTrouble = 2
INVARIANTS
    TypeOK
    HandedOverInOrder
    EnqueuedOnce
PROPERTIES
    LiveClaimKept
    ImplementsHandoff
    EventuallyPublished
\* The system stops when every order is published and its job decided.
CHECK_DEADLOCK FALSE
