SPECIFICATION Spec
CONSTANTS
    Telegraphs = {t1, t2}
    Delays = {d1, d2}
    NULL = NULL
INVARIANTS
    WaitingIsListed
CHECK_DEADLOCK FALSE
