SPECIFICATION FairSpec
CONSTANTS
    Conn = {n1, n2}
    NoConn = NoConn
    Worker = worker
    Other = {t1}
    EventCapacity = 2
    SleepAfter = 2
    MaxFlips = 2
    MaxFaults = 1
INVARIANTS TypeOK SleepersAreOffline
PROPERTIES EventuallyOnline EventuallyOffline
