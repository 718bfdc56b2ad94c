\* No trouble is needed: a retryable answer of the API is enough.
SPECIFICATION Spec
CONSTANTS
    Slots = {s1, s2}
    NoSlot = NoSlot
    MaxAttempts = 3
    MaxStalls = 1
    MaxTrouble = 0
    Groups <- StagedReceipt
    Scenarios <- NoTroubles
INVARIANT
    RetryHasDocument
CHECK_DEADLOCK FALSE
