SPECIFICATION FairSpec
CONSTANTS
    x = x
    y = y
    Device <- TwoDevices
    Hash = {x, y}
    NoActivation = NoActivation
    NoHash = NoHash
    Link <- Mesh
    Forgettable = {x}
    FutureTolerance = 0
    CoarseClock = FALSE
    MaxTime = 1
    MaxOps = 2
    MaxFaults = 3
INVARIANTS TypeOK Genuine NamedContentWasStored FutureStatesWait
PROPERTIES RegisterNeverRegresses ImplementsLww EventuallyConverged EventuallyAtRest
ACTION_CONSTRAINT Apart
CHECK_DEADLOCK FALSE
