SPECIFICATION Spec
CONSTANTS
    Tokens = {t1, t2, t3}
    Customers = {k1, k2}
    Requests = {r1, r2}
    None = None
SYMMETRY Symmetry
INVARIANTS
    DefaultKept
    CardsOfCustomer
