SPECIFICATION FairSpec
CONSTANTS
    beacon = beacon
    beacon2 = beacon2
    Beacons = {beacon}
    SlotTypes <- MCSlotTypes
    MAX_READ_BYTES = 2
    MAX_CHARACTERISTIC_NUM = 2
    MAX_UNHANDLED = 2
    MAX_ROUNDS = 3
    MAX_ERASES = 1
    MAX_RESTARTS = 1
    MAX_FAULTS = 1
INVARIANTS TypeOK ServedInOrder
PROPERTIES EverythingServed LogOnlyGrows ImplementsService
CHECK_DEADLOCK FALSE
