SPECIFICATION FairSpec
CONSTANTS
    NULL = NULL
    Blocks = {b1, b2, b3}
    BlockSize = 2
    MaxBytes = 4
    Configs <- MCConfigs
INVARIANTS
    TypeOK
    OneOwner
    PortAwake
    LimitRespected
    FlushTruth
PROPERTIES
    ImplementsChannel
    FlushedIsSent
    WriteBlockReturns
