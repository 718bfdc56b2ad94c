\* Confirmation: two carts to choose from, two products and two codes; one edit of
\* the catalog, of the fields or of the binding, and one of the branding: enough
\* for a key to be dropped, or lost with its session, after its order was stored,
\* and for the second order to be confirmed while the first receipt is recorded.
\* Collection: two groups of two values, one asked by quick buttons; two lines and
\* three pieces, so that the limit of lines and that of pieces are both met and an
\* offer of two alike pieces is kept, broken and mended; four pieces are started.
CONSTANTS
    Items = {red, blue}
    NoItems = NoItems
    Products = {p1, p2}
    NoProduct = NoProduct
    Codes = {c1, c2}
    NoCode = NoCode
    NoOrder = NoOrder
    MaxEdits = 1
    MaxBranding = 1
    Kinds = {"crash", "database", "reply", "document", "session"}
    MaxTrouble = 2
    Groups = 2
    QuickGroups <- QuickFirst
    Values = {v1, v2}
    Unset = Unset
    MaxLines = 2
    MaxTarget = 3
    Required = 2
    MixedAllowed = FALSE
    MaxPieces = 4
SPECIFICATION MCSpec
SYMMETRY Alternatives
INVARIANT TypeOK
INVARIANT ConfirmedIsStored
INVARIANT SecondOrderWasDropped
INVARIANT SentIsDelivered
PROPERTY ConfirmedIsFinal
INVARIANT CartTypeOK
INVARIANT StageMatchesCart
INVARIANT ThrownOnlyIfAlike
PROPERTY OnlyOpenedLineChanges
\* Only a rebinding leads out of RECOVERY_REQUIRED, and the seller's edits are bounded
CHECK_DEADLOCK FALSE
