CONSTANTS
    t1 = t1
    t2 = t2
    t3 = t3
    Timers = {t1, t2}
    TQ = TQ
    NULL = NULL
    Intervals = {1, 2}
    Horizon = 3
    DecMin = 1
    DecMax = 3
    ThreadOps <- Schedule
    CallbackOps <- Schedule
    HandlerOps <- Nothing
SPECIFICATION FairSpec
CHECK_DEADLOCK FALSE
PROPERTY
    EveryTimerFires
