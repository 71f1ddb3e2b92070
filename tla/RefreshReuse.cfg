SPECIFICATION Spec
CONSTANTS
    Tokens = {t1, t2}
    Families = {f1}
    Requests = {r1, r2}
    None = None
INVARIANT
    ReuseEndsSession
