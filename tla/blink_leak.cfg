SPECIFICATION Spec
CONSTANTS
    QUEUE_SIZE = 8
    MODE_DURATION = 2
    TIME_BETWEEN_MODES = 1
    LED_BLINK_INTERVAL = 1
    MAX_LINKS = 1
    MAX_RADIO_EVENTS = 4
    GAP_MAY_FAIL = FALSE
PROPERTY BlinkStopsOnDisconnect
