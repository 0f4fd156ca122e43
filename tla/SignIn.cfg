CONSTANTS
    d1 = d1
    d2 = d2
    s1 = s1
    s2 = s2
    Devices = {d1, d2}
    Requests = {r1, r2, r3}
    Seeds = {s1, s2}
    Stocks <- MCStocks
    MaxActive = 2
    Lifetime = 1
    MaxTime = 1
    None = None
SYMMETRY Alike
SPECIFICATION Spec
CHECK_DEADLOCK FALSE
INVARIANTS
    SessionsBounded
    CookieWorks
PROPERTIES
    LostForCause
