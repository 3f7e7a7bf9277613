SPECIFICATION FairSpec
CONSTANTS
    r1 = r1
    r2 = r2
    x = x
    y = y
    Rep = {r1, r2}
    Convertible = {r1}
    NoRep = NoRep
    CacheSlots = 1
    SpoolSlots = 1
    QueueSlots = 1
    MaxAttempts = 2
    MaxFaults = 2
    Content = {x, y}
INVARIANTS TypeOK OneEntryPerContent NoPhantomEntry LostIsGone
PROPERTIES UpgradesOnlyTheMissing QueuedIsSettled
CONSTRAINTS FirstIsX ApartAreLocal FewAtOnce
CHECK_DEADLOCK FALSE
