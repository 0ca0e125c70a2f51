SPECIFICATION Spec
CONSTANTS
    QUEUE_SIZE = 6
    MODE_DURATION = 3
    TIME_BETWEEN_MODES = 1
    LED_BLINK_INTERVAL = 1
    MAX_LINKS = 1
    MAX_RADIO_EVENTS = 2
    GAP_MAY_FAIL = FALSE
INVARIANT OneModeAtATime
