\* The seller changes nothing, and one thing goes wrong once
CONSTANTS
    Items = {red, blue}
    NoItems = NoItems
    Products = {p1}
    NoProduct = NoProduct
    Codes = {c1}
    NoCode = NoCode
    NoOrder = NoOrder
    MaxEdits = 0
    MaxBranding = 0
    Kinds = {"crash", "database", "reply", "document", "session"}
    MaxTrouble = 1
SPECIFICATION Spec
INVARIANT RetainedKeyFits
CHECK_DEADLOCK FALSE
