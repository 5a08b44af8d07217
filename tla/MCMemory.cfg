SPECIFICATION Spec
CONSTANTS
    PAGES = 3
    PROGRAMS = 2
    PROGRAM_SIZE = 1
    VERIFY_SIZE = 1
    RADIX = 2
    ERASED = ERASED
    MIXED = MIXED
    Writes <- MCWrites
    Reads <- MCReads
    RIVALS = 3
INVARIANTS
    StoredAsWritten
    DriverAtRest
PROPERTIES
    ReadReturnsContent
    RequestsEnd
CHECK_DEADLOCK FALSE
