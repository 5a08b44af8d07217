SPECIFICATION FairSpec
CONSTANTS
    NULL = NULL
    Blocks = {b1, b2, b3}
    BlockSize = 2
    MaxBytes = 5
    Configs <- MCConfigs
INVARIANTS
    BlocksInPlace
PROPERTIES
    ImplementsChannel
    ReceivedIsRead
CHECK_DEADLOCK FALSE
