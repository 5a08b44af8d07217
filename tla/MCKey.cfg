SPECIFICATION Spec
CONSTANTS
    Keys = {1, 2}
    KEY_COUNT = 2
    KEY_LONG_TIME = 6
    KEY_REPEAT_TIME = 2
    KEY_QUEUE_SIZE = 2
    CHANGES = 3
INVARIANTS
    OnlyWhatWasRead
    EventsFit
PROPERTIES
    UserKnows
