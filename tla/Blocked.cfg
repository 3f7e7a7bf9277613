SPECIFICATION FairSpec
CONSTANTS
    Peer = {p1}
    MaxFanouts = 2
    MaxFaults = 1
PROPERTY StragglersEnd
CHECK_DEADLOCK FALSE
