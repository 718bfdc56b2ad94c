\* Two requests on two connections, two sellers, two phones that every token
\* manages, two PINs.
CONSTANTS
    Conns = {c1, c2}
    Sellers = {a, b}
    Phones = {p1, p2}
    Pins = {x, y}
    Creds = {k1}
    Requests = {r1, r2}
    None = None
    p1 = p1
    p2 = p2
    k1 = k1
    k2 = k2
    Reach <- EveryPhone
    Scenarios <- MCScenarios
SYMMETRY Symmetric
SPECIFICATION Spec
INVARIANTS
    TypeOK
    OneConnectionEach
    ActiveIsReady
    PinKept
PROPERTIES
    ActiveLeftOnlyBy
\* A connection may be ACTIVE with nothing more asked.
CHECK_DEADLOCK FALSE
