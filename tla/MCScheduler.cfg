SPECIFICATION FairSpec
CONSTANTS
    NumTasks = 3
    StackSize = 1
    Event = Event
    Section = Section
    Configs <- MCConfigs
INVARIANTS
    OnePlace
    MutualExclusion
PROPERTIES
    TasksProceed
CHECK_DEADLOCK FALSE
