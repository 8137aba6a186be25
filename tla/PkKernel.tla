------------------------------ MODULE PkKernel ------------------------------
(***************************************************************************)
(* The PK real-time kernel that runs on every PPE engine of the chip       *)
(* (SGPE, PGPE, CME, I/O PPEs): priority-preemptive threads, counting      *)
(* semaphores, sleep and timeout, and the deferred context switch at the   *)
(* end of interrupt processing (ppe/pk/kernel, ppe/pk/ppe42).              *)
(*                                                                         *)
(* Every API body is a critical section (MSR[EE] = 0), so a call is one    *)
(* step.  A call that blocks is two: the step that ends in __pk_switch(),  *)
(* and the step that executes the rest of the function when the thread is  *)
(* switched in again.  The saved MSR of such a thread has EE = 0, so that  *)
(* second step runs before any interrupt: see Masked.                      *)
(*                                                                         *)
(* PK_ERROR_CHECK_API and PK_ERROR_PANIC have their default value 1: an    *)
(* API error halts the engine (panic).  Time is abstract: a queued thread  *)
(* timer may expire in any interrupt.                                      *)
(***************************************************************************)
EXTENDS Naturals

CONSTANTS
    Threads,           \* the PkThread control blocks of the application
    Semaphores,        \* the PkSemaphore objects of the application
    PK_THREADS,        \* number of priorities; also the idle priority
    InitialPriority,   \* [Threads -> priorities]: argument of pk_thread_create
    InitialCount,      \* [Semaphores -> Nat]: arguments of
    MaxCount,          \*   pk_semaphore_create; 0 is "no maximum"
    CountMod,          \* 2^32 in the code: the width of PkSemaphoreCount
    Timeouts,          \* the timeouts the application gives pk_semaphore_pend
    NewPriorities,     \* the priorities it gives pk_thread_priority_change
    NULL

PkPriority == 0 .. PK_THREADS - 1
TimeoutKinds == {"NO_WAIT", "TIMED", "WAIT_FOREVER"}

ASSUME KernelAssumption ==
    /\ PK_THREADS \in Nat \ {0}
    /\ NULL \notin Threads
    /\ NULL \notin Semaphores
    /\ InitialPriority \in [Threads -> PkPriority]
    /\ CountMod \in Nat \ {0}
    /\ MaxCount \in [Semaphores -> 0 .. CountMod - 1]
    /\ InitialCount \in [Semaphores -> 0 .. CountMod - 1]
    /\ Timeouts \subseteq TimeoutKinds
    /\ NewPriorities \subseteq 0 .. PK_THREADS

VARIABLES
    state,             \* thread->state
    priority,          \* thread->priority
    flags,             \* thread->flags
    semaphore,         \* thread->semaphore
    timer,             \* thread->timer: idle, queued, or expired (unqueued,
                       \*   its callback not yet called)
    pc,                \* what a thread executes when it is switched in
    granted,           \* history: the pend in progress was given a token
    priority_map,      \* __pk_priority_map
    run_queue,         \* __pk_run_queue, the set of priorities whose bit is 1
    pending,           \* semaphore->pending_threads, likewise
    count,             \* semaphore->count
    current,           \* __pk_current_thread; NULL is the idle thread
    next_thread,       \* __pk_next_thread
    delayed_switch,    \* __pk_delayed_switch
    thread_mode,       \* SPRG0 thread_mode
    processing_interrupt,  \* SPRG0 processing_interrupt
    panic              \* FALSE, or the engine has halted in PK_PANIC

tableVars == <<state, priority, flags, priority_map, run_queue, pending,
               count, granted>>
schedVars == <<current, next_thread, delayed_switch>>
contextVars == <<thread_mode, processing_interrupt>>
vars == <<tableVars, semaphore, timer, pc, schedVars, contextVars, panic>>

-----------------------------------------------------------------------------
(* Thread queues: a PkThreadQueue is a 32-bit word, bit 0 (the MSB) the    *)
(* highest priority.  The shift of the idle priority yields no bit.        *)

QueueInsert(q, p) == q \union ({p} \ {PK_THREADS})
QueueDelete(q, p) == q \ {p}
QueueMin(q) ==
    IF q = {} THEN PK_THREADS ELSE CHOOSE p \in q : \A r \in q : p <= r

(* The kernel tables as a value: __pk_thread_map and __pk_thread_unmap are *)
(* functions of it, composed by the APIs that call both.                   *)

Tables == [state |-> state, priority |-> priority, flags |-> flags,
           map |-> priority_map, run |-> run_queue, pending |-> pending,
           count |-> count, granted |-> granted]

Install(k) ==
    /\ state' = k.state
    /\ priority' = k.priority
    /\ flags' = k.flags
    /\ priority_map' = k.map
    /\ run_queue' = k.run
    /\ pending' = k.pending
    /\ count' = k.count
    /\ granted' = k.granted

IsActive(t) == state[t] \notin {"COMPLETED", "DELETED"}
IsMapped(t) == state[t] = "MAPPED"
Runnable(k, t) == k.priority[t] \in k.run

(* Mutant of MapThread: a resumed waiter queues without looking at the     *)
(* count.                                                                  *)
MapThreadIgnoresCount(k, t) ==
    LET p == k.priority[t]
        mapped == [k EXCEPT !.map[p] = t, !.state[t] = "MAPPED"]
    IN IF k.state[t] = "SUSPENDED_RUNNABLE"
       THEN [mapped EXCEPT !.run = QueueInsert(@, p)]
       ELSE IF "SEMAPHORE_PEND" \in k.flags[t]
            THEN [mapped EXCEPT !.pending[semaphore[t]] = QueueInsert(@, p)]
            ELSE mapped

(* __pk_thread_map: a runnable thread enters the run queue; one suspended  *)
(* inside pk_semaphore_pend takes a count or queues again; a sleeping one  *)
(* only claims its priority.                                               *)
Claim(k, t) == [k EXCEPT !.map[k.priority[t]] = t, !.state[t] = "MAPPED"]

MapThread(k, t) ==
    LET p == k.priority[t]
        s == semaphore[t]
    IN CASE k.state[t] = "SUSPENDED_RUNNABLE" ->
              [Claim(k, t) EXCEPT !.run = QueueInsert(@, p)]
         [] k.state[t] # "SUSPENDED_RUNNABLE"
            /\ "SEMAPHORE_PEND" \in k.flags[t] /\ k.count[s] > 0 ->
              [Claim(k, t) EXCEPT !.count[s] = @ - 1,
                                  !.granted[t] = TRUE,
                                  !.run = QueueInsert(@, p)]
         [] k.state[t] # "SUSPENDED_RUNNABLE"
            /\ "SEMAPHORE_PEND" \in k.flags[t] /\ k.count[s] = 0 ->
              [Claim(k, t) EXCEPT !.pending[s] = QueueInsert(@, p)]
         [] OTHER -> Claim(k, t)

(* Mutants of UnmapThread: the priority stays claimed; the bit stays in    *)
(* the run queue.                                                          *)
UnmapThreadKeepsPriority(k, t) ==
    IF Runnable(k, t)
    THEN [k EXCEPT !.state[t] = "SUSPENDED_RUNNABLE",
                   !.run = QueueDelete(@, k.priority[t])]
    ELSE [k EXCEPT !.state[t] = "SUSPENDED_BLOCKED"]
UnmapThreadStaysRunnable(k, t) ==
    [k EXCEPT !.map[k.priority[t]] = NULL,
              !.state[t] = IF Runnable(k, t) THEN "SUSPENDED_RUNNABLE"
                           ELSE "SUSPENDED_BLOCKED"]

(* __pk_thread_unmap: a blocked thread also leaves its semaphore's queue.  *)
UnmapThread(k, t) ==
    LET p == k.priority[t]
        s == semaphore[t]
        unmapped == [k EXCEPT !.map[p] = NULL]
    IN CASE Runnable(k, t) ->
              [unmapped EXCEPT !.state[t] = "SUSPENDED_RUNNABLE",
                               !.run = QueueDelete(@, p)]
         [] ~Runnable(k, t) /\ "SEMAPHORE_PEND" \in k.flags[t] ->
              [unmapped EXCEPT !.state[t] = "SUSPENDED_BLOCKED",
                               !.pending[s] = QueueDelete(@, p)]
         [] OTHER -> [unmapped EXCEPT !.state[t] = "SUSPENDED_BLOCKED"]

(* Mutant of Schedule: an interrupt handler's choice is not deferred.      *)
ScheduleForgets(k, cur) ==
    LET next == k.map[QueueMin(k.run)]
    IN /\ next_thread' = next
       /\ current' = IF (next = NULL \/ next # cur)
                        /\ thread_mode /\ ~processing_interrupt
                     THEN next ELSE cur
       /\ delayed_switch' = delayed_switch

(* __pk_schedule, after the tables have become k and the current thread    *)
(* cur: in a thread the switch happens at once, in an interrupt it is      *)
(* deferred, and before pk_start_threads() there is none.                  *)
Schedule(k, cur) ==
    LET next == k.map[QueueMin(k.run)]
        switch == next = NULL \/ next # cur
    IN /\ next_thread' = next
       /\ current' = IF switch /\ thread_mode /\ ~processing_interrupt
                     THEN next ELSE cur
       /\ delayed_switch' = (delayed_switch
                             \/ (switch /\ thread_mode /\ processing_interrupt))

-----------------------------------------------------------------------------
Init ==
    /\ state = [t \in Threads |-> "SUSPENDED_RUNNABLE"]
    /\ priority = InitialPriority
    /\ flags = [t \in Threads |-> {}]
    /\ semaphore = [t \in Threads |-> NULL]
    /\ timer = [t \in Threads |-> "idle"]
    /\ pc = [t \in Threads |-> "run"]
    /\ granted = [t \in Threads |-> FALSE]
    /\ priority_map = [p \in 0 .. PK_THREADS |-> NULL]
    /\ run_queue = {}
    /\ pending = [s \in Semaphores |-> {}]
    /\ count = InitialCount
    /\ current = NULL
    /\ next_thread = NULL
    /\ delayed_switch = FALSE
    /\ thread_mode = FALSE
    /\ processing_interrupt = FALSE
    /\ panic = FALSE

InThread == thread_mode /\ ~processing_interrupt /\ current # NULL
(* The current thread has been switched in inside pk_semaphore_pend or     *)
(* pk_sleep: interrupts stay disabled until that call returns.             *)
Masked == InThread /\ pc[current] # "run"
(* An API can be called: by main(), by the current thread, or by an        *)
(* interrupt handler or bottom half; the idle thread calls none.           *)
CanCall ==
    /\ ~panic
    /\ ~Masked
    /\ thread_mode /\ ~processing_interrupt => current # NULL

Panic == panic' = TRUE /\ UNCHANGED <<tableVars, semaphore, timer, pc,
                                      schedVars, contextVars>>

-----------------------------------------------------------------------------
(* Kernel context: interrupts and the start of threads.                    *)

StartThreads ==
    /\ ~panic /\ ~thread_mode /\ ~processing_interrupt
    /\ thread_mode' = TRUE
    /\ current' = next_thread
    /\ UNCHANGED <<tableVars, semaphore, timer, pc, next_thread,
                   delayed_switch, processing_interrupt, panic>>

InterruptEntry ==
    /\ ~panic /\ ~processing_interrupt /\ ~Masked
    /\ processing_interrupt' = TRUE
    /\ UNCHANGED <<tableVars, semaphore, timer, pc, schedVars, thread_mode,
                   panic>>

(* check_thread_mode .. ctx_pop: all handlers and bottom halves are done;  *)
(* perform the deferred switch.                                            *)
InterruptExit ==
    /\ ~panic /\ processing_interrupt
    /\ \A t \in Threads : timer[t] # "expired"
    /\ processing_interrupt' = FALSE
    /\ delayed_switch' = (delayed_switch /\ ~thread_mode)
    /\ current' = IF thread_mode /\ delayed_switch THEN next_thread ELSE current
    /\ UNCHANGED <<tableVars, semaphore, timer, pc, next_thread, thread_mode,
                   panic>>

-----------------------------------------------------------------------------
(* pk_thread_create on the control block of a finished thread.             *)
Create(t, p) ==
    /\ CanCall /\ ~IsActive(t) /\ timer[t] # "expired"
    /\ state' = [state EXCEPT ![t] = "SUSPENDED_RUNNABLE"]
    /\ priority' = [priority EXCEPT ![t] = p]
    /\ flags' = [flags EXCEPT ![t] = {}]
    /\ semaphore' = [semaphore EXCEPT ![t] = NULL]
    /\ timer' = [timer EXCEPT ![t] = "idle"]
    /\ pc' = [pc EXCEPT ![t] = "run"]
    /\ granted' = [granted EXCEPT ![t] = FALSE]
    /\ UNCHANGED <<priority_map, run_queue, pending, count, schedVars,
                   contextVars, panic>>

Resume(t) ==
    /\ CanCall
    /\ ~IsMapped(t)
    /\ IF ~IsActive(t) \/ priority_map[priority[t]] # NULL
       THEN Panic
       ELSE LET k == MapThread(Tables, t)
            IN /\ Install(k)
               /\ Schedule(k, current)
               /\ UNCHANGED <<semaphore, timer, pc, contextVars, panic>>

Suspend(t) ==
    /\ CanCall
    /\ state[t] \in {"MAPPED", "COMPLETED", "DELETED"}
    /\ IF ~IsActive(t)
       THEN Panic
       ELSE LET k == UnmapThread(Tables, t)
            IN /\ Install(k)
               /\ Schedule(k, current)
               /\ UNCHANGED <<semaphore, timer, pc, contextVars, panic>>

(* __pk_thread_delete, for pk_thread_delete and pk_complete.  A timer that *)
(* has expired is no longer queued and __pk_timer_cancel leaves it alone.  *)
Remove(t, final) ==
    LET k == IF IsMapped(t) THEN UnmapThread(Tables, t) ELSE Tables
    IN /\ Install([k EXCEPT !.state[t] = final])
       /\ timer' = [timer EXCEPT ![t] = IF @ = "queued" THEN "idle" ELSE @]
       /\ IF IsMapped(t)
          THEN Schedule(k, IF t = current THEN NULL ELSE current)
          ELSE UNCHANGED schedVars
       /\ UNCHANGED <<semaphore, pc, contextVars, panic>>

Delete(t) == CanCall /\ Remove(t, "DELETED")
Complete == CanCall /\ InThread /\ Remove(current, "COMPLETED")

PriorityChange(t, p) ==
    /\ CanCall
    /\ priority[t] # p
    /\ IF ~IsMapped(t)
       THEN /\ priority' = [priority EXCEPT ![t] = p]
            /\ UNCHANGED <<state, flags, priority_map, run_queue, pending,
                           count, granted, semaphore, timer, pc, schedVars,
                           contextVars, panic>>
       ELSE IF priority_map[p] # NULL
            THEN Panic
            ELSE LET k == MapThread([UnmapThread(Tables, t)
                                       EXCEPT !.priority[t] = p], t)
                 IN /\ Install(k)
                    /\ Schedule(k, current)
                    /\ UNCHANGED <<semaphore, timer, pc, contextVars, panic>>

PrioritySwap(a, b) ==
    LET mappedA == IsMapped(a)
        mappedB == IsMapped(b)
        inUse == \/ mappedA /\ ~mappedB /\ priority_map[priority[b]] # NULL
                 \/ ~mappedA /\ mappedB /\ priority_map[priority[a]] # NULL
        k1 == IF mappedA THEN UnmapThread(Tables, a) ELSE Tables
        k2 == IF mappedB THEN UnmapThread(k1, b) ELSE k1
        k3 == [k2 EXCEPT !.priority[a] = priority[b],
                         !.priority[b] = priority[a]]
        k4 == IF mappedA THEN MapThread(k3, a) ELSE k3
        k5 == IF mappedB THEN MapThread(k4, b) ELSE k4
    IN /\ CanCall
       /\ a # b
       /\ IF inUse
          THEN Panic
          ELSE /\ Install(k5)
               /\ Schedule(k5, current)
               /\ UNCHANGED <<semaphore, timer, pc, contextVars, panic>>

-----------------------------------------------------------------------------
(* pk_sleep, up to the context switch, and what follows it.                *)
Sleep ==
    LET k == [Tables EXCEPT !.flags[current] = @ \union {"TIMER_PEND"},
                            !.run = QueueDelete(@, priority[current])]
    IN /\ CanCall /\ InThread
       /\ timer' = [timer EXCEPT ![current] = "queued"]
       /\ pc' = [pc EXCEPT ![current] = "sleep"]
       /\ Install(k)
       /\ Schedule(k, current)
       /\ UNCHANGED <<semaphore, contextVars, panic>>

SleepReturn ==
    /\ ~panic /\ InThread /\ pc[current] = "sleep"
    /\ flags' = [flags EXCEPT ![current] = @ \ {"TIMER_PEND", "TIMED_OUT"}]
    /\ pc' = [pc EXCEPT ![current] = "run"]
    /\ UNCHANGED <<state, priority, priority_map, run_queue, pending, count,
                   granted, semaphore, timer, schedVars, contextVars, panic>>

(* The timer bottom half takes an expired timer off the time queue, then   *)
(* enables interrupts and calls its callback; other handlers can run in    *)
(* between.  The bottom half handles one timer at a time.                  *)
TimerExpire(t) ==
    /\ ~panic /\ processing_interrupt
    /\ timer[t] = "queued"
    /\ \A u \in Threads : timer[u] # "expired"
    /\ timer' = [timer EXCEPT ![t] = "expired"]
    /\ UNCHANGED <<tableVars, semaphore, pc, schedVars, contextVars, panic>>

(* __pk_thread_timeout.                                                    *)
ThreadTimeout(t) ==
    /\ ~panic /\ processing_interrupt
    /\ timer[t] = "expired"
    /\ timer' = [timer EXCEPT ![t] = "idle"]
    /\ UNCHANGED <<semaphore, pc, contextVars>>
    /\ \/ /\ IsMapped(t) /\ ~Runnable(Tables, t)
          /\ LET k == [Tables EXCEPT !.flags[t] = @ \union {"TIMED_OUT"},
                                     !.run = QueueInsert(@, priority[t])]
             IN Install(k) /\ Schedule(k, current)
          /\ UNCHANGED panic
       \/ /\ \/ IsMapped(t) /\ Runnable(Tables, t)
             \/ state[t] = "SUSPENDED_RUNNABLE"
          /\ UNCHANGED <<tableVars, schedVars, panic>>
       \/ /\ state[t] = "SUSPENDED_BLOCKED"
          /\ Install([Tables EXCEPT !.flags[t] = @ \union {"TIMED_OUT"},
                                    !.state[t] = "SUSPENDED_RUNNABLE"])
          /\ UNCHANGED <<schedVars, panic>>
       \/ /\ ~IsActive(t)
          /\ panic' = TRUE
          /\ UNCHANGED <<tableVars, schedVars>>

-----------------------------------------------------------------------------
(* The threads whose pend a queued priority of s stands for.               *)
Waiter(s, p) ==
    {t \in Threads : /\ priority_map[p] = t
                     /\ "SEMAPHORE_PEND" \in flags[t]
                     /\ semaphore[t] = s}

(* Mutant of SemaphorePost: the woken thread stays queued.                 *)
SemaphorePostKeepsWaiter(s) ==
    LET p == QueueMin(pending[s])
        k == [Tables EXCEPT !.run = QueueInsert(@, p)]
    IN /\ CanCall /\ p # PK_THREADS
       /\ Install(k) /\ Schedule(k, current)
       /\ UNCHANGED <<semaphore, timer, pc, contextVars, panic>>

SemaphorePost(s) ==
    LET p == QueueMin(pending[s])
        woken == [Tables EXCEPT
                    !.pending[s] = QueueDelete(@, p),
                    !.run = QueueInsert(@, p),
                    !.granted = [t \in Threads |-> @[t] \/ t \in Waiter(s, p)]]
        posted == (count[s] + 1) % CountMod
    IN /\ CanCall
       /\ IF p # PK_THREADS
          THEN /\ Install(woken)
               /\ Schedule(woken, current)
               /\ UNCHANGED panic
          ELSE /\ count' = [count EXCEPT ![s] = posted]
               /\ panic' = (MaxCount[s] > 0 /\ posted > MaxCount[s])
               /\ UNCHANGED <<state, priority, flags, priority_map, run_queue,
                              pending, granted, schedVars>>
       /\ UNCHANGED <<semaphore, timer, pc, contextVars>>

(* Mutant of SemaphoreReleaseAll: the queue is cleared before the union.   *)
SemaphoreReleaseAllClearsFirst(s) ==
    LET k == [Tables EXCEPT !.pending[s] = {}]
    IN /\ CanCall
       /\ Install(k) /\ Schedule(k, current)
       /\ UNCHANGED <<semaphore, timer, pc, contextVars, panic>>

SemaphoreReleaseAll(s) ==
    LET released == UNION {Waiter(s, p) : p \in pending[s]}
        k == [Tables EXCEPT
                !.run = @ \union pending[s],
                !.pending[s] = {},
                !.granted = [t \in Threads |-> @[t] \/ t \in released]]
    IN /\ CanCall
       /\ Install(k)
       /\ Schedule(k, current)
       /\ UNCHANGED <<semaphore, timer, pc, contextVars, panic>>

(* Mutant of SemaphoreTake: the count is taken without a look at it.       *)
SemaphoreTakeUnchecked(s) ==
    /\ CanCall
    /\ count' = [count EXCEPT ![s] = @ - 1]
    /\ UNCHANGED <<state, priority, flags, priority_map, run_queue, pending,
                   granted, semaphore, timer, pc, schedVars, contextVars, panic>>

(* pk_semaphore_pend that returns at once (count available, or PK_NO_WAIT) *)
SemaphoreTake(s) ==
    /\ CanCall /\ count[s] > 0
    /\ count' = [count EXCEPT ![s] = @ - 1]
    /\ UNCHANGED <<state, priority, flags, priority_map, run_queue, pending,
                   granted, semaphore, timer, pc, schedVars, contextVars, panic>>

(* ... that blocks, or that would block in a context that cannot.          *)
SemaphorePend(s, timeout) ==
    LET t == current
        k == [Tables EXCEPT
                !.pending[s] = QueueInsert(@, priority[t]),
                !.flags[t] = @ \union {"SEMAPHORE_PEND"}
                               \union (IF timeout = "TIMED"
                                       THEN {"TIMER_PEND"} ELSE {}),
                !.granted[t] = FALSE,
                !.run = QueueDelete(@, priority[t])]
    IN /\ CanCall /\ count[s] = 0 /\ timeout # "NO_WAIT"
       /\ IF ~InThread
          THEN Panic
          ELSE /\ semaphore' = [semaphore EXCEPT ![t] = s]
               /\ timer' = [timer EXCEPT
                              ![t] = IF timeout = "TIMED" THEN "queued" ELSE @]
               /\ pc' = [pc EXCEPT ![t] = "pend"]
               /\ Install(k)
               /\ Schedule(k, current)
               /\ UNCHANGED <<contextVars, panic>>

(* The rest of pk_semaphore_pend, when the thread is switched in again.    *)
SemaphorePendReturn ==
    LET t == current
        s == semaphore[t]
        timed == "TIMER_PEND" \in flags[t]
        timedOut == timed /\ "TIMED_OUT" \in flags[t]
    IN /\ ~panic /\ InThread /\ pc[t] = "pend"
       /\ pending' = [pending EXCEPT
                        ![s] = IF timedOut THEN QueueDelete(@, priority[t])
                               ELSE @]
       /\ timer' = [timer EXCEPT
                      ![t] = IF timed /\ ~timedOut /\ @ = "queued"
                             THEN "idle" ELSE @]
       /\ flags' = [flags EXCEPT
                      ![t] = @ \ ({"SEMAPHORE_PEND"} \union
                                  IF timed THEN {"TIMER_PEND", "TIMED_OUT"}
                                  ELSE {})]
       /\ pc' = [pc EXCEPT ![t] = "run"]
       /\ UNCHANGED <<state, priority, priority_map, run_queue, count, granted,
                      semaphore, schedVars, contextVars, panic>>

-----------------------------------------------------------------------------
Next ==
    \/ StartThreads \/ InterruptEntry \/ InterruptExit
    \/ Complete \/ Sleep \/ SleepReturn \/ SemaphorePendReturn
    \/ \E t \in Threads :
         \/ Resume(t) \/ Suspend(t) \/ Delete(t)
         \/ TimerExpire(t) \/ ThreadTimeout(t)
         \/ \E p \in PkPriority : Create(t, p)
         \/ \E p \in NewPriorities : PriorityChange(t, p)
         \/ \E u \in Threads : PrioritySwap(t, u)
    \/ \E s \in Semaphores :
         \/ SemaphorePost(s) \/ SemaphoreReleaseAll(s) \/ SemaphoreTake(s)
         \/ \E timeout \in Timeouts : SemaphorePend(s, timeout)

Spec == Init /\ [][Next]_vars

-----------------------------------------------------------------------------
(* Every variable has its type, and the engine's queues hold priorities.   *)
TypeOK ==
    /\ state \in [Threads -> {"SUSPENDED_RUNNABLE", "MAPPED",
                              "SUSPENDED_BLOCKED", "COMPLETED", "DELETED"}]
    /\ priority \in [Threads -> 0 .. PK_THREADS]
    /\ flags \in [Threads -> SUBSET {"SEMAPHORE_PEND", "TIMER_PEND",
                                     "TIMED_OUT"}]
    /\ semaphore \in [Threads -> Semaphores \union {NULL}]
    /\ timer \in [Threads -> {"idle", "queued", "expired"}]
    /\ pc \in [Threads -> {"run", "pend", "sleep"}]
    /\ granted \in [Threads -> BOOLEAN]
    /\ priority_map \in [0 .. PK_THREADS -> Threads \union {NULL}]
    /\ run_queue \subseteq PkPriority
    /\ pending \in [Semaphores -> SUBSET PkPriority]
    /\ count \in [Semaphores -> 0 .. CountMod - 1]
    /\ current \in Threads \union {NULL}
    /\ next_thread \in Threads \union {NULL}
    /\ delayed_switch \in BOOLEAN
    /\ thread_mode \in BOOLEAN
    /\ processing_interrupt \in BOOLEAN
    /\ panic \in BOOLEAN

(* A priority is claimed by exactly the mapped thread that has it: two     *)
(* threads never share a priority, whatever the APIs that resume, swap and *)
(* change priorities are called on (pk_thread_core.c, pk_thread_util.c).   *)
PriorityMapExact ==
    \A t \in Threads, p \in 0 .. PK_THREADS :
        priority_map[p] = t <=> state[t] = "MAPPED" /\ priority[t] = p

(* No thread waits on a semaphore that has a count to give: nothing is     *)
(* added to pending_threads unless the count is 0, and a post counts only  *)
(* when nobody waits.                                                      *)
NoWaiterWithCount ==
    \A s \in Semaphores : count[s] > 0 => pending[s] = {}

(* Outside interrupt processing the engine executes the thread mapped at   *)
(* the highest priority of the run queue; no deferred switch is forgotten  *)
(* at the end of an interrupt.                                             *)
HighestPriorityRuns ==
    thread_mode /\ ~processing_interrupt =>
        /\ current = priority_map[QueueMin(run_queue)]
        /\ ~delayed_switch

(* The run queue holds the priorities of mapped threads only: otherwise    *)
(* __pk_schedule() would pick the idle thread while others are runnable.   *)
RunQueueMapped == \A p \in run_queue : priority_map[p] # NULL

(* A queued priority stands for the thread mapped there, which is blocked  *)
(* in pk_semaphore_pend on that semaphore and on nothing else.             *)
WaitersAreBlocked ==
    \A s \in Semaphores : \A p \in pending[s] :
        /\ Waiter(s, p) # {}
        /\ p \notin run_queue

(* No thread is lost: one that is blocked, mapped or suspended, is still   *)
(* known to what will make it runnable, its semaphore or its timer.        *)
BlockedIsWakeable ==
    \A t \in Threads :
        LET waits == /\ "SEMAPHORE_PEND" \in flags[t]
                     /\ state[t] = "MAPPED" =>
                          priority[t] \in pending[semaphore[t]]
            sleeps == timer[t] # "idle"
        IN (\/ state[t] = "MAPPED" /\ priority[t] \notin run_queue
            \/ state[t] = "SUSPENDED_BLOCKED") => waits \/ sleeps

(* pk_semaphore_pend returns PK_OK exactly when the thread was given a     *)
(* count: by a post, by a release, or by __pk_thread_map.                  *)
OkMeansGranted ==
    Masked /\ pc[current] = "pend" =>
        (granted[current] <=> "TIMED_OUT" \notin flags[current])

(* So the run queue, the queues of the semaphores and what pends return    *)
(* agree, whoever is suspended, posted, deleted or moved to another        *)
(* priority meanwhile (__pk_thread_unmap, __pk_thread_map).                *)
PendsAreSound == RunQueueMapped /\ WaitersAreBlocked /\ OkMeansGranted

(* Every post has one effect: it is counted, or it makes one blocked       *)
(* thread runnable (pk_semaphore_core.c:39-42).                            *)
PostTakesEffect ==
    [][\A s \in Semaphores :
         SemaphorePost(s) => count' # count \/ run_queue' # run_queue]_vars

(* Any active thread can be deleted, and its timer goes with it            *)
(* (pk_thread_core.c:503-506): no timer callback finds a dead thread.      *)
TimeoutFindsThread ==
    [][\A t \in Threads : ThreadTimeout(t) => ~panic']_vars

(* pk_kernel.h:164-166: the last entry of the map is always null.          *)
IdlePriorityIsFree == priority_map[PK_THREADS] = NULL
=============================================================================
