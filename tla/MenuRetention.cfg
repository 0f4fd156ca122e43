CONSTANTS
    m1 = m1
    m2 = m2
    k1 = k1
    Menus = {m1, m2}
    Images = {k1}
    Stocks <- MCStocks
    Variants = {hero, thumbnail}
    Senders = {r1, r2}
    Purgers = {p1, p2}
    Retention = 1
    BatchSize = 1
    MaxTime = 2
    MaxFaults = 1
    None = None
    Invalid = Invalid
SPECIFICATION RetentionSpec
INVARIANTS
    ImagesStand
    NothingLost
PROPERTIES
    OnlyOverdueLeave
    OverdueIsPurged
