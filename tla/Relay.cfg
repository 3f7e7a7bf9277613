SPECIFICATION FairSpec
CONSTANTS
    Device <- ThreeDevices
    Hash = {x}
    NoActivation = NoActivation
    NoHash = NoHash
    Link <- Chain
    Forgettable = {}
    FutureTolerance = 0
    CoarseClock = FALSE
    MaxTime = 0
    MaxOps = 1
    MaxFaults = 0
PROPERTIES EventuallyConverged RelaysOnlyItsRegister
CHECK_DEADLOCK FALSE
