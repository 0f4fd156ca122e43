CONSTANTS
    Customers = {c1, c2}
    Consoles = {o1}
    Calls = {r1, r2}
    Keys = {k1}
    MaxPending = 2
    None = None
SYMMETRY Alike
SPECIFICATION NotifySpec
CHECK_DEADLOCK FALSE
INVARIANTS
    EveryoneIsTold
    RoomsAsWanted
