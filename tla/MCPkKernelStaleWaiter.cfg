CONSTANTS
    t1 = t1
    t2 = t2
    t3 = t3
    s1 = s1
    Threads = {t1, t2}
    Semaphores = {s1}
    PK_THREADS = 3
    InitialPriority <- DistinctPriorities
    InitialCount <- NoCount
    MaxCount <- MaxOne
    CountMod = 4
    Timeouts <- AllTimeouts
    NewPriorities <- Priorities
    NULL = NULL
SPECIFICATION Spec
CHECK_DEADLOCK FALSE
INVARIANTS
    RunQueueMapped
