SPECIFICATION Spec
CONSTANTS
    NUMBERS = 6
    SOH = 1
    STX = 2
    EOT = 4
    CAN = 5
    SHORT = 1
    LONG = 2
    BLOCKS = 6
    MAX_TRY_AGAN = 6
    C_TRYING_COUNT = 3
    FAULTS = 2
INVARIANTS
    SavedIsFile
    FaultsAreSurvived
PROPERTIES
    TransferEnds
CHECK_DEADLOCK FALSE
