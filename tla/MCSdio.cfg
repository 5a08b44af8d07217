SPECIFICATION Spec
CONSTANTS
    BITS = 2
    SHORT_RESPONSE_LENGTH = 2
    LONG_RESPONSE_LENGTH = 3
    CRC_BITS = 1
    BLOCK = 2
    SDIO_WORK_CLOCK = 2
    SDIO_RESPONSE_TIME = 1
    SDIO_READ_TIME = 3
    SDIO_BUSY_TIME = 2
    INIT_CLOCKS = 2
    CLOCK_DIV = 0
    Requests <- MCRequests
    ROUNDS = 2
INVARIANTS
    ResultsTrue
    NothingLeft
PROPERTIES
    RequestsEnd
CHECK_DEADLOCK FALSE
