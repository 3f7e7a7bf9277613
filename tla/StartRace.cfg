SPECIFICATION Spec
CONSTANTS
    r1 = r1
    r2 = r2
    x = x
    y = y
    Rep = {r1, r2}
    Convertible = {}
    NoRep = NoRep
    CacheSlots = 1
    SpoolSlots = 1
    QueueSlots = 1
    MaxAttempts = 2
    MaxFaults = 0
    Content = {x, y}
INVARIANT GivenUpIsGone
CONSTRAINTS FirstIsX
CHECK_DEADLOCK FALSE
