SPECIFICATION Spec
CONSTANTS
    c_tCMDMap <- CmdMap
    c_tMemory <- MCMemory
    IAP_RSP_OK <- Ok
    IAP_RSP_ERROR <- Err
    EMPTY <- Empty
    INFO <- MCInfo
    BASE = 4
    NSIZE = 3
    HEAD <- Head1
    ERROR <- Err
    SumValues <- MCSumValues
    Streams <- MCStreams
    UserFrames <- MCUserFrames
INVARIANTS
    OutputWhole
    ParsedIsSent
    AnswersRight
PROPERTIES
    AllSent
CHECK_DEADLOCK FALSE
