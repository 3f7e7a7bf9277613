SPECIFICATION FairSpec
CONSTANTS
    Content = {x, y}
    Attached = {y}
    NoContent = NoContent
    Empty = Empty
    FlipThreshold = 1
    MaxActs = 4
    MaxFaults = 2
INVARIANT SyncInv
PROPERTY NothingIsMissed
CONSTRAINTS FewAtOnce MoreWhenTorn
CHECK_DEADLOCK FALSE
