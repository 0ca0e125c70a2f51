SPECIFICATION FairSpec
CONSTANTS
    QUEUE_SIZE = 6
    MODE_DURATION = 2
    TIME_BETWEEN_MODES = 1
    LED_BLINK_INTERVAL = 1
    MAX_LINKS = 1
    MAX_RADIO_EVENTS = 2
    GAP_MAY_FAIL = TRUE
INVARIANTS TypeOK ModeChainAlive LossNeedsRadio
PROPERTIES ModesAlternate OverlapEnds CycleStabilises
CHECK_DEADLOCK FALSE
