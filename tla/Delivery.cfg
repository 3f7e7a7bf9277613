SPECIFICATION FairSpec
CONSTANTS
    near = near
    far = far
    Peer = {near, far}
    MaxFanouts = 2
    MaxFaults = 2
INVARIANTS TypeOK SingleDial DeliveredWasReceived
PROPERTY OutcomesAreRecorded
CONSTRAINT Apart
CHECK_DEADLOCK FALSE
