SPECIFICATION Spec
CONSTANTS
    beacon = beacon
    beacon2 = beacon2
    timeServer = timeServer
    hybrid = hybrid
    NoPeer = NoPeer
    Peers = {beacon, hybrid}
    Profile <- MCProfile
    Handles = {1, 2}
    MAX_CONNECTS = 3
    GATT_MAY_FAIL = TRUE
    LINKS_DROP = TRUE
    QUEUE_SIZE = 3
    PERIOD_READ = 2
INVARIANTS SensorTable RecordsAttributed
CHECK_DEADLOCK FALSE
