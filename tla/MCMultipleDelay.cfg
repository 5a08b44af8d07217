SPECIFICATION FairSpec
CONSTANTS
    Items = {i1, i2}
    NULL = NULL
    Width = 2
    MaxDelay = 2
    Configs <- MCConfigs
INVARIANTS
    OnePlace
    NeverEarly
PROPERTIES
    OnTime
    RequestsEnd
