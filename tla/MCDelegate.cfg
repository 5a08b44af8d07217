SPECIFICATION FairSpec
CONSTANTS
    Handlers = {h1, h2, h3, h4}
    NULL = NULL
    MaxCalls = 7
    TornCalls = 4
INVARIANTS
    OneList
PROPERTIES
    CompletesOnce
    RaiseReturns
