SPECIFICATION FairSpec
CONSTANTS
    SizeOfBuffer = 6
    PRINTF_BUFFER_SIZE = 2
    TERMINALS = 2
    MAX_LENGTH = 3
    MAX_TEXT = 1
    MAX_WRITES = 3
    MAX_MODE_CHANGES = 1
    WORD = 256
    MAX_FIELD_WIDTH = 5
    MAX_PRECISION = 3
INVARIANTS TypeOK WritesStayWhole EachTerminalItsText WaitsOnlyWhenBlocking NumbersPrinted
PROPERTIES ImplementsStream CallsEnd
CHECK_DEADLOCK FALSE
