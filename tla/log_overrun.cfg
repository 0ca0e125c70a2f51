SPECIFICATION Spec
CONSTANTS
    beacon = beacon
    beacon2 = beacon2
    Beacons = {beacon, beacon2}
    SlotTypes <- MCSlotTypes
    MAX_READ_BYTES = 2
    MAX_CHARACTERISTIC_NUM = 2
    MAX_UNHANDLED = 1
    MAX_ROUNDS = 2
    MAX_ERASES = 0
    MAX_RESTARTS = 1
    MAX_FAULTS = 0
INVARIANT FilesFitArrays
CHECK_DEADLOCK FALSE
