------------------------------- MODULE PkTimer -------------------------------
(***************************************************************************)
(* The time queue of the PK kernel (pk/kernel/pk_timer_core.c): an         *)
(* unordered doubly linked ring of timers, the earliest timeout, and the   *)
(* 32-bit decrementer that interrupts when it is due.  The interrupt only  *)
(* queues a bottom half; the bottom half walks the ring with interrupts    *)
(* enabled between two timers, so that handlers (and the callbacks) change *)
(* the ring under its feet.                                                *)
(*                                                                         *)
(* A step is what runs between two points where an interrupt is taken.     *)
(* Threads run only when the bottom half does not; handlers are atomic.    *)
(***************************************************************************)
EXTENDS Integers, FiniteSets

CONSTANTS
    Timers,
    TQ,              \* the sentinel of the ring, in __pk_time_queue
    NULL,
    Intervals,       \* what pk_timer_schedule is called with
    Horizon,         \* bound of the model: the clock stops there
    DecMin, DecMax,  \* 1 (or PK_DEC_MIN) and 0xffff0000: what the
                     \*   decrementer is programmed with
    ThreadOps,       \* what threads, callbacks and preempting handlers do:
    CallbackOps,     \*   subsets of {"schedule", "cancel"}
    HandlerOps

ASSUME TimerAssumption ==
    /\ TQ \notin Timers /\ NULL \notin Timers \union {TQ} /\ TQ # NULL
    /\ Intervals \subseteq Nat /\ Horizon \in Nat
    /\ DecMin \in Nat \ {0} /\ DecMax \in Nat /\ DecMin <= DecMax

Nodes == Timers \union {TQ}
PK_TIMEBASE_MAX == Horizon + 1

VARIABLES
    next, previous,  \* the links of the ring; next is 0 outside it
    timeout,         \* timer->timeout
    next_timeout,    \* __pk_time_queue.next_timeout
    cursor,          \* __pk_time_queue.cursor
    now,             \* the timebase
    dec,             \* ticks until the decrementer interrupts, 0: never
    tsr_dis,         \* the decrementer interrupt is up
    bh_queued,       \* pk_timer_bh is in _pk_bh_queue
    bh,              \* where the bottom half is
    timer_deque,     \* its locals: the timer it looks at, the time it read,
    read_now,        \*   the timeout it is about to program
    new_timeout

ring == <<next, previous>>
queue == <<ring, timeout, next_timeout, cursor>>
locals == <<timer_deque, read_now, new_timeout>>
vars == <<queue, now, dec, tsr_dis, bh_queued, bh, locals>>

-----------------------------------------------------------------------------
Least(a, b) == IF a <= b THEN a ELSE b

IsQueued(t) == next[t] # NULL

PushBack(t) ==
    /\ next' = [next EXCEPT ![previous[TQ]] = t, ![t] = TQ]
    /\ previous' = [previous EXCEPT ![t] = previous[TQ], ![TQ] = t]

DeleteNode(t) ==
    /\ next' = [next EXCEPT ![previous[t]] = next[t], ![t] = NULL]
    /\ previous' = [previous EXCEPT ![next[t]] = previous[t]]

(* What __pk_schedule_hardware_timeout writes to the decrementer.          *)
Ticks(to) ==
    IF to <= now + DecMin THEN DecMin ELSE Least(to - now, DecMax)

Init ==
    /\ next = [n \in Nodes |-> IF n = TQ THEN TQ ELSE NULL]
    /\ previous = next
    /\ timeout = [t \in Timers |-> 0]
    /\ next_timeout = PK_TIMEBASE_MAX
    /\ cursor = NULL
    /\ now = 0 /\ dec = 0 /\ tsr_dis = FALSE
    /\ bh_queued = FALSE /\ bh = "none"
    /\ timer_deque = TQ /\ read_now = 0 /\ new_timeout = PK_TIMEBASE_MAX

-----------------------------------------------------------------------------

(* __pk_timer_cancel                                                       *)
CancelTimer(t) ==
    /\ IsQueued(t)
    /\ cursor' = IF cursor = t THEN next[t] ELSE cursor
    /\ DeleteNode(t)
    /\ UNCHANGED <<timeout, next_timeout, dec>>

(* pk_timer_schedule, __pk_timer_schedule                                  *)
ScheduleTimer(t) ==
    \E i \in Intervals :
        LET to == now + i
        IN /\ to <= Horizon
           /\ timeout' = [timeout EXCEPT ![t] = to]
           /\ IF IsQueued(t) THEN UNCHANGED ring ELSE PushBack(t)
           /\ next_timeout' = Least(to, next_timeout)
           /\ dec' = IF to < next_timeout /\ cursor = NULL
                     THEN Ticks(to) ELSE dec
           /\ UNCHANGED cursor

TimerCall(ops) ==
    /\ \E t \in Timers :
          \/ "schedule" \in ops /\ ScheduleTimer(t)
          \/ "cancel" \in ops /\ CancelTimer(t)
    /\ UNCHANGED <<now, tsr_dis, locals>>

ThreadCall == bh = "none" /\ TimerCall(ThreadOps) /\ UNCHANGED <<bh_queued, bh>>

-----------------------------------------------------------------------------
(* Interrupts.  When a handler returns, an interrupted bottom half goes    *)
(* on; otherwise a queued one is run (check_interrupted_bh, check_for_bh). *)
InterruptsEnabled == bh \notin {"check", "scan"}
ReturnTo(queued) == IF bh = "none" /\ queued THEN "pop" ELSE bh

Tick ==
    /\ now < Horizon \/ dec > 0
    /\ now' = Least(now + 1, Horizon)
    /\ dec' = IF dec > 0 THEN dec - 1 ELSE dec
    /\ tsr_dis' = (tsr_dis \/ dec = 1)
    /\ UNCHANGED <<queue, bh_queued, bh, locals>>

(* dec_handler, __pk_timer_handler, pk_bh_schedule                         *)
DecInterrupt ==
    /\ InterruptsEnabled /\ tsr_dis
    /\ tsr_dis' = FALSE
    /\ bh_queued' = TRUE
    /\ bh' = ReturnTo(TRUE)
    /\ UNCHANGED <<queue, now, dec, locals>>

(* Any other interrupt; its handler may use the timer interface.           *)
ExternalInterrupt ==
    /\ InterruptsEnabled
    /\ \/ TimerCall(HandlerOps)
       \/ UNCHANGED <<queue, now, dec, tsr_dis, locals>>
    /\ bh' = ReturnTo(bh_queued)
    /\ UNCHANGED bh_queued

-----------------------------------------------------------------------------
(* _pk_process_bh takes the bottom half, or finds none and returns.  (An   *)
(* interrupt inside the pop finds the bottom half still queued, and it is  *)
(* run after it: the pop of a queue of one element is a single step.)      *)
PopBottomHalf ==
    /\ bh = "pop"
    /\ bh' = IF bh_queued THEN "start" ELSE "leave"
    /\ bh_queued' = FALSE
    /\ UNCHANGED <<queue, now, dec, tsr_dis, locals>>

(* wrteei 0, and back to the interrupted context.                          *)
LeaveBottomHalf ==
    /\ bh = "leave"
    /\ bh' = "none"
    /\ UNCHANGED <<queue, now, dec, tsr_dis, bh_queued, locals>>

(* __pk_timer_bh_handler: while ((now = pk_timebase_get()) >= next_timeout)*)
CheckTime ==
    /\ bh \in {"start", "check"}
    /\ IF now >= next_timeout
       THEN /\ read_now' = now
            /\ next_timeout' = PK_TIMEBASE_MAX
            /\ timer_deque' = next[TQ]
            /\ bh' = "scan"
            /\ UNCHANGED new_timeout
       ELSE /\ bh' = "clear"
            /\ UNCHANGED <<next_timeout, locals>>
    /\ UNCHANGED <<ring, timeout, cursor, now, dec, tsr_dis, bh_queued>>

(* One round of the inner while, up to the end of its critical section.    *)
ScanDone ==
    /\ bh \in {"scan", "element"} /\ timer_deque = TQ
    /\ bh' = "check"
    /\ UNCHANGED <<queue, now, dec, tsr_dis, bh_queued, locals>>

(* Mutants of ScanElement: a timer that is not due does not count for the  *)
(* next timeout; the earliest timeout is replaced, not lowered.            *)
ScanElementForgets ==
    /\ bh \in {"scan", "element"} /\ timer_deque \in Timers
    /\ cursor' = next[timer_deque]
    /\ IF timeout[timer_deque] <= read_now
       THEN DeleteNode(timer_deque) /\ bh' = "callback"
       ELSE UNCHANGED ring /\ bh' = "advance"
    /\ UNCHANGED <<next_timeout, timeout, now, dec, tsr_dis, bh_queued, locals>>

ScanElementReplaces ==
    /\ bh \in {"scan", "element"} /\ timer_deque \in Timers
    /\ cursor' = next[timer_deque]
    /\ IF timeout[timer_deque] <= read_now
       THEN /\ DeleteNode(timer_deque)
            /\ bh' = "callback"
            /\ UNCHANGED next_timeout
       ELSE /\ next_timeout' = timeout[timer_deque]
            /\ bh' = "advance"
            /\ UNCHANGED ring
    /\ UNCHANGED <<timeout, now, dec, tsr_dis, bh_queued, locals>>

ScanElement ==
    /\ bh \in {"scan", "element"} /\ timer_deque \in Timers
    /\ cursor' = next[timer_deque]
    /\ IF timeout[timer_deque] <= read_now
       THEN /\ DeleteNode(timer_deque)
            /\ bh' = "callback"
            /\ UNCHANGED next_timeout
       ELSE /\ next_timeout' = Least(timeout[timer_deque], next_timeout)
            /\ bh' = "advance"
            /\ UNCHANGED ring
    /\ UNCHANGED <<timeout, now, dec, tsr_dis, bh_queued, locals>>

(* The callback runs with interrupts enabled ...                           *)
CallbackCall ==
    bh = "callback" /\ TimerCall(CallbackOps) /\ UNCHANGED <<bh_queued, bh>>
CallbackReturn ==
    /\ bh = "callback"
    /\ bh' = "advance"
    /\ UNCHANGED <<queue, now, dec, tsr_dis, bh_queued, locals>>

(* ... and so does timer_deque = tq->cursor.                               *)
Advance ==
    /\ bh = "advance"
    /\ timer_deque' = cursor
    /\ bh' = "element"
    /\ UNCHANGED <<queue, now, dec, tsr_dis, bh_queued, read_now, new_timeout>>

(* The end of the handler, outside its critical section: the cursor, the   *)
(* argument of __pk_schedule_hardware_timeout, the decrementer.            *)
ClearCursor ==
    /\ bh = "clear"
    /\ cursor' = NULL
    /\ bh' = "program"
    /\ UNCHANGED <<ring, timeout, next_timeout, now, dec, tsr_dis, bh_queued,
                   locals>>
ReadTimeout ==
    /\ bh = "program"
    /\ new_timeout' = next_timeout
    /\ bh' = "write"
    /\ UNCHANGED <<queue, now, dec, tsr_dis, bh_queued, timer_deque, read_now>>

WriteDec ==
    /\ bh = "write"
    /\ dec' = IF new_timeout = PK_TIMEBASE_MAX THEN dec ELSE Ticks(new_timeout)
    /\ bh' = "pop"
    /\ UNCHANGED <<queue, now, tsr_dis, bh_queued, locals>>

BottomHalf ==
    \/ PopBottomHalf \/ LeaveBottomHalf \/ CheckTime \/ ScanDone
    \/ ScanElement \/ CallbackReturn \/ Advance
    \/ ClearCursor \/ ReadTimeout \/ WriteDec

Next ==
    \/ ThreadCall \/ CallbackCall \/ Tick
    \/ DecInterrupt \/ ExternalInterrupt \/ BottomHalf

Spec == Init /\ [][Next]_vars

(* Time goes on, an interrupt that is up is taken once interrupts are      *)
(* enabled, the bottom half runs.  Other interrupts need not come ...      *)
FairSpec ==
    Spec /\ WF_vars(Tick) /\ SF_vars(DecInterrupt) /\ WF_vars(BottomHalf)

(* ... but where the product runs, they do.                                *)
RecurringSpec == FairSpec /\ WF_vars(ExternalInterrupt)

-----------------------------------------------------------------------------
TypeOK ==
    /\ next \in [Nodes -> Nodes \union {NULL}]
    /\ previous \in [Nodes -> Nodes \union {NULL}]
    /\ timeout \in [Timers -> 0 .. Horizon]
    /\ next_timeout \in 0 .. PK_TIMEBASE_MAX
    /\ cursor \in Nodes \union {NULL}
    /\ now \in 0 .. Horizon /\ dec \in 0 .. DecMax
    /\ tsr_dis \in BOOLEAN /\ bh_queued \in BOOLEAN
    /\ bh \in {"none", "pop", "start", "check", "scan", "element", "callback",
               "advance", "clear", "program", "write", "leave"}
    /\ timer_deque \in Nodes \union {NULL}
    /\ read_now \in 0 .. Horizon /\ new_timeout \in 0 .. PK_TIMEBASE_MAX

QueuedTimers == {t \in Timers : IsQueued(t)}

(* The queue is one ring through the sentinel and exactly the queued       *)
(* timers, linked the same both ways, however threads, callbacks and       *)
(* preempting handlers interleave with the walk (pk_deque_push_back,       *)
(* pk_deque_delete).                                                       *)
QueueIsRing ==
    /\ \A n \in QueuedTimers \union {TQ} :
          /\ next[n] \in QueuedTimers \union {TQ}
          /\ previous[next[n]] = n
    /\ \A S \in (SUBSET QueuedTimers) \ {{}} : \E n \in S : next[n] \notin S

(* The bottom half never looks at a timer that has left the queue: what it *)
(* looks at next, and the cursor while it is in the walk, are in the ring. *)
CursorIsQueued ==
    /\ bh \in {"scan", "element"} =>
          timer_deque \in QueuedTimers \union {TQ}
    /\ bh \in {"callback", "advance"} =>
          cursor \in QueuedTimers \union {TQ}

(* The timers the walk still has to look at.                               *)
Position == IF bh \in {"scan", "element"} THEN timer_deque ELSE cursor
Unvisited ==
    IF bh \notin {"scan", "element", "callback", "advance"} THEN {}
    ELSE {t \in QueuedTimers :
             \A S \in SUBSET QueuedTimers :
                Position \in S /\ (\A n \in S : next[n] \in S \union {TQ})
                => t \in S} \ (IF Position = TQ THEN QueuedTimers ELSE {})

(* No queued timer is due before next_timeout, except one that the walk    *)
(* has still to look at: not one that was scheduled, or moved to an        *)
(* earlier time, behind the walk's back.                                   *)
NextTimeoutIsEarliest ==
    \A t \in QueuedTimers \ Unvisited : next_timeout <= timeout[t]

(* The time queue as a whole: one ring, walked within, and next_timeout    *)
(* not later than any timer of it that the walk has passed                 *)
(* (__pk_timer_bh_handler, __pk_timer_schedule, pk_timer_cancel).          *)
TimeQueueSound ==
    TypeOK /\ QueueIsRing /\ CursorIsQueued /\ NextTimeoutIsEarliest

(* Whenever the bottom half is neither at work nor about to be, the        *)
(* decrementer interrupts no later than the first queued timer is due, or  *)
(* DecMin ticks from now if it is overdue.                                 *)
TimerCovered ==
    bh = "none" /\ ~bh_queued /\ ~tsr_dis =>
        \A t \in QueuedTimers :
            /\ dec > 0
            /\ dec <= timeout[t] - now \/ dec <= DecMin

(* Every timer fires, or is cancelled.                                     *)
EveryTimerFires == \A t \in Timers : IsQueued(t) ~> ~IsQueued(t)
=============================================================================
