SPECIFICATION FairSpec
CONSTANTS
    beacon = beacon
    beacon2 = beacon2
    timeServer = timeServer
    hybrid = hybrid
    NoPeer = NoPeer
    Peers = {beacon, beacon2, timeServer}
    Profile <- MCProfile
    Handles = {1, 2, 3}
    MAX_CONNECTS = 3
    GATT_MAY_FAIL = FALSE
    LINKS_DROP = FALSE
    QUEUE_SIZE = 6
    PERIOD_READ = 2
INVARIANTS TypeOK OneReadPerLink ReadsFollowCommands RecordsAttributed
PROPERTIES PollingGoesOn ImplementsPolling
