\* Three messages of one conversation and three executor slots: a lapsed
\* holder, the slot that took over and a third that waits.  With the clock a
\* lease lives two ticks and a key three: a lease lapses before its keys, as
\* 2 s does before 3 h.
SPECIFICATION MCSpec
CONSTANTS
    Messages = {m1, m2, m3}
    Slots = {s1, s2, s3}
    NoLease = NoLease
    KeyLife = 3
    LeaseLife = 2
INVARIANTS
    TypeOK
    TurnsAreDistinct
    LeaseOnDueTurn
    NoTurnSkipped
    TtlTypeOK
    LeaseOutlivedByExpected
PROPERTIES
    StaleHolderFenced
    ImplementsTurnOrder
