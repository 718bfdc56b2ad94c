\* One manual connection, two requests, tokens of one phone each.
SPECIFICATION Spec
CONSTANTS
    Conns = {c1, c2}
    Sellers = {a}
    Phones = {p1, p2}
    Pins = {x}
    Creds = {k1, k2}
    Requests = {r1, r2}
    None = None
    p1 = p1
    p2 = p2
    k1 = k1
    k2 = k2
    Reach <- OnePhoneEach
    Scenarios <- Selecting
INVARIANT AssetsOfCredentials
\* The seller may ask for nothing more.
CHECK_DEADLOCK FALSE
