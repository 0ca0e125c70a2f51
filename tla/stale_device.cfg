SPECIFICATION Spec
CONSTANTS
    beacon = beacon
    beacon2 = beacon2
    timeServer = timeServer
    hybrid = hybrid
    NoPeer = NoPeer
    Peers = {beacon, beacon2}
    Profile <- MCProfile
    Handles = {1}
    MAX_CONNECTS = 2
    GATT_MAY_FAIL = FALSE
    LINKS_DROP = TRUE
    QUEUE_SIZE = 5
    PERIOD_READ = 2
INVARIANT StoresAddress
