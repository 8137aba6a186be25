CONSTANTS
    t1 = t1
    t2 = t2
    t3 = t3
    s1 = s1
    Threads = {t1, t2}
    Semaphores = {s1}
    PK_THREADS = 2
    InitialPriority <- SamePriority
    InitialCount <- NoCount
    MaxCount <- MaxOne
    CountMod = 3
    Timeouts <- AllTimeouts
    NewPriorities <- Priorities
    NULL = NULL
SPECIFICATION Spec
SYMMETRY Alike
CHECK_DEADLOCK FALSE
INVARIANTS
    PriorityMapExact
    NoWaiterWithCount
    HighestPriorityRuns
    BlockedIsWakeable
