SPECIFICATION Spec
CONSTANTS
    beacon = beacon
    beacon2 = beacon2
    timeServer = timeServer
    hybrid = hybrid
    NoPeer = NoPeer
    Peers = {beacon, timeServer}
    Profile <- MCProfile
    Handles = {1, 2}
    MAX_CONNECTS = 2
    GATT_MAY_FAIL = TRUE
    LINKS_DROP = TRUE
    QUEUE_SIZE = 4
    PERIOD_READ = 2
INVARIANT StopIsClean
