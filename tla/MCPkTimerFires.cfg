CONSTANTS
    t1 = t1
    t2 = t2
    t3 = t3
    Timers = {t1, t2, t3}
    TQ = TQ
    NULL = NULL
    Intervals = {1, 3}
    Horizon = 3
    DecMin = 1
    DecMax = 2
    ThreadOps <- Both
    CallbackOps <- Both
    HandlerOps <- Schedule
SPECIFICATION RecurringSpec
CHECK_DEADLOCK FALSE
INVARIANT
    TimeQueueSound
PROPERTY
    EveryTimerFires
