SPECIFICATION FairSpec
CONSTANTS
    Content = {x, y}
    Attached = {y}
    NoContent = NoContent
    Empty = Empty
    FlipThreshold = 1
    MaxActs = 1
    MaxFaults = 1
PROPERTY FailedWriteIsRetried
CHECK_DEADLOCK FALSE
