SPECIFICATION Spec
CONSTANTS
    beacon = beacon
    beacon2 = beacon2
    Beacons = {beacon}
    SlotTypes <- MCSlotTypes
    MAX_READ_BYTES = 2
    MAX_CHARACTERISTIC_NUM = 2
    MAX_UNHANDLED = 1
    MAX_ROUNDS = 1
    MAX_ERASES = 1
    MAX_RESTARTS = 1
    MAX_FAULTS = 0
INVARIANT ServedFilesOpen
CHECK_DEADLOCK FALSE
