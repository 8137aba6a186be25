--------------------------- MODULE PkKernelProofs ---------------------------
(***************************************************************************)
(* Proofs about PkKernel, for every set of threads and semaphores, every   *)
(* number of priorities, and every kind of timeout.  The safety properties *)
(* are proved of the tables first (what __pk_thread_map and                *)
(* __pk_thread_unmap preserve), then of every kernel call.                 *)
(***************************************************************************)
EXTENDS PkKernel, WellFoundedInduction, TLAPS

ThreadStates == {"SUSPENDED_RUNNABLE", "MAPPED", "SUSPENDED_BLOCKED",
                 "COMPLETED", "DELETED"}
Flags == {"SEMAPHORE_PEND", "TIMER_PEND", "TIMED_OUT"}

(* The type of the kernel tables as a value.                               *)
TablesType ==
    [state : [Threads -> ThreadStates],
     priority : [Threads -> 0 .. PK_THREADS],
     flags : [Threads -> SUBSET Flags],
     map : [0 .. PK_THREADS -> Threads \union {NULL}],
     run : SUBSET PkPriority,
     pending : [Semaphores -> SUBSET PkPriority],
     count : [Semaphores -> 0 .. CountMod - 1],
     granted : [Threads -> BOOLEAN]]

-----------------------------------------------------------------------------
(* A nonempty thread queue has a highest priority, an empty one yields the *)
(* idle priority (__pk_thread_queue_min).                                  *)
LEMMA QueueMinLemma ==
    ASSUME NEW q \in SUBSET PkPriority
    PROVE  /\ QueueMin(q) \in 0 .. PK_THREADS
           /\ q # {} => QueueMin(q) \in q
           /\ QueueMin(q) = PK_THREADS <=> q = {}
<1>1. PK_THREADS \in Nat
  BY KernelAssumption
<1>2. q \subseteq Nat
  BY <1>1 DEF PkPriority
<1>3. CASE q = {}
  BY <1>1, <1>3 DEF QueueMin
<1>4. CASE q # {}
  <2>1. PICK x \in q : \A y \in q : ~ (<<y, x>> \in OpToRel(<, Nat))
    BY <1>2, <1>4, NatLessThanWellFounded, WFMin
  <2>2. ASSUME NEW r \in q PROVE x <= r
    <3>1. r \in Nat /\ x \in Nat
      BY <1>2
    <3>2. ~ (r < x)
      BY <2>1, <3>1 DEF OpToRel
    <3>. QED  BY <3>1, <3>2
  <2>3. QueueMin(q) \in q
    BY <2>2, <1>4 DEF QueueMin
  <2>4. QueueMin(q) \in 0 .. PK_THREADS - 1
    BY <2>3 DEF PkPriority
  <2>. QED  BY <2>3, <2>4, <1>1, <1>4
<1>. QED  BY <1>3, <1>4

LEMMA QueueTypes ==
    ASSUME NEW q \in SUBSET PkPriority, NEW p \in 0 .. PK_THREADS
    PROVE  /\ QueueInsert(q, p) \in SUBSET PkPriority
           /\ QueueDelete(q, p) \in SUBSET PkPriority
BY KernelAssumption DEF QueueInsert, QueueDelete, PkPriority

(* Taking a count that is there leaves a count.                            *)
LEMMA CountTakeType ==
    ASSUME NEW c \in [Semaphores -> 0 .. CountMod - 1], NEW s, c[s] > 0
    PROVE  [c EXCEPT ![s] = @ - 1] \in [Semaphores -> 0 .. CountMod - 1]
<1>1. CountMod \in Nat
  BY KernelAssumption
<1>2. CASE s \in Semaphores
  <2>1. c[s] \in 0 .. CountMod - 1
    BY <1>2
  <2>2. c[s] - 1 \in 0 .. CountMod - 1
    BY <1>1, <2>1
  <2>. QED  BY <2>2
<1>3. CASE s \notin Semaphores
  BY <1>3
<1>. QED  BY <1>2, <1>3

(* What it is to claim a priority, field by field.                         *)
LEMMA ClaimFields ==
    ASSUME NEW k \in TablesType, NEW t \in Threads
    PROVE  /\ Claim(k, t) \in TablesType
           /\ Claim(k, t).map = [k.map EXCEPT ![k.priority[t]] = t]
           /\ Claim(k, t).state = [k.state EXCEPT ![t] = "MAPPED"]
           /\ Claim(k, t).priority = k.priority
           /\ Claim(k, t).run = k.run
           /\ Claim(k, t).count = k.count
           /\ Claim(k, t).pending = k.pending
  BY DEF Claim, TablesType, ThreadStates

(* The cases of __pk_thread_map: into the run queue, at once or with a     *)
(* count, into the semaphore's queue, or into none.                        *)
LEMMA MapThreadCases ==
    ASSUME NEW k \in TablesType, NEW t \in Threads
    PROVE  LET c == Claim(k, t)
               m == MapThread(k, t)
               p == k.priority[t]
               s == semaphore[t]
           IN \/ m = c
              \/ m = [c EXCEPT !.run = QueueInsert(@, p)]
              \/ k.count[s] > 0
                 /\ m = [c EXCEPT !.count[s] = @ - 1, !.granted[t] = TRUE,
                                  !.run = QueueInsert(@, p)]
              \/ k.count[s] = 0
                 /\ m = [c EXCEPT !.pending[s] = QueueInsert(@, p)]
  BY SMTT(60) DEF MapThread

(* Mapping a thread keeps the types of the tables, whatever its state.     *)
LEMMA MapThreadType ==
    ASSUME NEW k \in TablesType, NEW t \in Threads
    PROVE  MapThread(k, t) \in TablesType
<1>. DEFINE p == k.priority[t]
            s == semaphore[t]
            c == Claim(k, t)
            m == MapThread(k, t)
<1>1. p \in 0 .. PK_THREADS
  BY DEF TablesType
<1>2. c \in TablesType /\ c.run = k.run /\ c.count = k.count
      /\ c.pending = k.pending
  BY ClaimFields
<1>3. QueueInsert(k.run, p) \in SUBSET PkPriority
  BY <1>1, QueueTypes DEF TablesType
<1>4. \/ m = c
      \/ m = [c EXCEPT !.run = QueueInsert(@, p)]
      \/ k.count[s] > 0
         /\ m = [c EXCEPT !.count[s] = @ - 1, !.granted[t] = TRUE,
                          !.run = QueueInsert(@, p)]
      \/ k.count[s] = 0
         /\ m = [c EXCEPT !.pending[s] = QueueInsert(@, p)]
  BY MapThreadCases, Zenon
<1>. HIDE DEF c, m
<1>5. CASE m = c
  BY <1>2, <1>5 DEF m
<1>6. CASE m = [c EXCEPT !.run = QueueInsert(@, p)]
  BY <1>2, <1>3, <1>6, ZenonT(60) DEF m, TablesType
<1>7. CASE k.count[s] > 0
           /\ m = [c EXCEPT !.count[s] = @ - 1, !.granted[t] = TRUE,
                            !.run = QueueInsert(@, p)]
  <2>1. [k.count EXCEPT ![s] = @ - 1] \in [Semaphores -> 0 .. CountMod - 1]
    BY <1>7, CountTakeType DEF TablesType
  <2>. DEFINE counted == [c EXCEPT !.count[s] = @ - 1]
              granted_ == [counted EXCEPT !.granted[t] = TRUE]
  <2>2. counted \in TablesType /\ counted.run = k.run
    BY <1>2, <2>1 DEF TablesType
  <2>3. m = [granted_ EXCEPT !.run = QueueInsert(@, p)]
    BY <1>7
  <2>. HIDE DEF counted
  <2>4. granted_ \in TablesType /\ granted_.run = k.run
    BY <2>2 DEF TablesType
  <2>. HIDE DEF granted_
  <2>5. m \in TablesType
    BY <1>3, <2>3, <2>4 DEF TablesType
  <2>. QED  BY <2>5 DEF m
<1>8. CASE m = [c EXCEPT !.pending[s] = QueueInsert(@, p)]
  <2>1. [k.pending EXCEPT ![s] = QueueInsert(@, p)]
          \in [Semaphores -> SUBSET PkPriority]
    BY <1>1, QueueTypes DEF TablesType
  <2>2. m \in TablesType
    BY <1>2, <1>8, <2>1 DEF TablesType
  <2>. QED  BY <2>2 DEF m
<1>. QED  BY <1>4, <1>5, <1>6, <1>7, <1>8

LEMMA UnmapThreadType ==
    ASSUME NEW k \in TablesType, NEW t \in Threads
    PROVE  UnmapThread(k, t) \in TablesType
<1>. DEFINE p == k.priority[t]
            s == semaphore[t]
            unmapped == [k EXCEPT !.map[p] = NULL]
<1>1. p \in 0 .. PK_THREADS
  BY DEF TablesType
<1>2. unmapped \in TablesType
  BY <1>1 DEF TablesType
<1>3. CASE Runnable(k, t)
  BY <1>1, <1>2, <1>3, QueueTypes DEF UnmapThread, TablesType, ThreadStates
<1>4. CASE ~Runnable(k, t) /\ "SEMAPHORE_PEND" \in k.flags[t]
  <2>. DEFINE gone == [unmapped EXCEPT !.state[t] = "SUSPENDED_BLOCKED",
                                       !.pending[s] = QueueDelete(@, p)]
  <2>1. UnmapThread(k, t) = gone
    BY <1>4 DEF UnmapThread
  <2>2. [k.pending EXCEPT ![s] = QueueDelete(@, p)]
          \in [Semaphores -> SUBSET PkPriority]
    BY <1>1, QueueTypes DEF TablesType
  <2>3. gone \in TablesType
    BY <1>2, <2>2 DEF TablesType, ThreadStates
  <2>. QED  BY <2>1, <2>3
<1>5. CASE ~Runnable(k, t) /\ "SEMAPHORE_PEND" \notin k.flags[t]
  BY <1>2, <1>5 DEF UnmapThread, TablesType, ThreadStates
<1>. QED  BY <1>3, <1>4, <1>5
-----------------------------------------------------------------------------
(* The priority map of the tables k is exact.                              *)
Exact(k) ==
    \A t \in Threads, p \in 0 .. PK_THREADS :
        k.map[p] = t <=> k.state[t] = "MAPPED" /\ k.priority[t] = p

(* What __pk_thread_map and __pk_thread_unmap do to the map.               *)
LEMMA MapThreadMap ==
    ASSUME NEW k \in TablesType, NEW t \in Threads
    PROVE  /\ MapThread(k, t).map = [k.map EXCEPT ![k.priority[t]] = t]
           /\ MapThread(k, t).state = [k.state EXCEPT ![t] = "MAPPED"]
           /\ MapThread(k, t).priority = k.priority
<1>. DEFINE p == k.priority[t]
            s == semaphore[t]
            c == Claim(k, t)
            m == MapThread(k, t)
<1>1. \/ m = c
      \/ m = [c EXCEPT !.run = QueueInsert(@, p)]
      \/ m = [c EXCEPT !.count[s] = @ - 1, !.granted[t] = TRUE,
                       !.run = QueueInsert(@, p)]
      \/ m = [c EXCEPT !.pending[s] = QueueInsert(@, p)]
  BY MapThreadCases, Zenon
<1>2. c \in TablesType
  BY ClaimFields
<1>. HIDE DEF c, m
<1>3. m.map = c.map /\ m.state = c.state /\ m.priority = c.priority
  BY <1>1, <1>2, ZenonT(60) DEF TablesType
<1>. QED  BY <1>3, ClaimFields DEF c, m

LEMMA UnmapThreadMap ==
    ASSUME NEW k \in TablesType, NEW t \in Threads
    PROVE  /\ UnmapThread(k, t).map = [k.map EXCEPT ![k.priority[t]] = NULL]
           /\ UnmapThread(k, t).state[t] # "MAPPED"
           /\ \A u \in Threads \ {t} : UnmapThread(k, t).state[u] = k.state[u]
           /\ UnmapThread(k, t).priority = k.priority
<1>1. CASE Runnable(k, t)
  BY <1>1 DEF UnmapThread, TablesType
<1>2. CASE ~Runnable(k, t) /\ "SEMAPHORE_PEND" \in k.flags[t]
  BY <1>2 DEF UnmapThread, TablesType
<1>3. CASE ~Runnable(k, t) /\ "SEMAPHORE_PEND" \notin k.flags[t]
  BY <1>3 DEF UnmapThread, TablesType
<1>. QED  BY <1>1, <1>2, <1>3

(* A thread may be mapped at a priority nobody has claimed.                *)
LEMMA MapThreadExact ==
    ASSUME NEW k \in TablesType, NEW t \in Threads, Exact(k),
           k.state[t] # "MAPPED", k.map[k.priority[t]] = NULL
    PROVE  Exact(MapThread(k, t))
<1>. DEFINE n == MapThread(k, t)
<1>0. /\ n.map = [k.map EXCEPT ![k.priority[t]] = t]
      /\ n.state = [k.state EXCEPT ![t] = "MAPPED"]
      /\ n.priority = k.priority
  BY MapThreadMap
<1>. HIDE DEF n
<1>. SUFFICES ASSUME NEW u \in Threads, NEW p \in 0 .. PK_THREADS
              PROVE  n.map[p] = u <=> n.state[u] = "MAPPED" /\ n.priority[u] = p
  BY DEF Exact, n
<1>1. u # NULL
  BY KernelAssumption
<1>2. \A q \in 0 .. PK_THREADS :
        k.map[q] = u <=> k.state[u] = "MAPPED" /\ k.priority[u] = q
  BY DEF Exact
<1>. QED  BY <1>0, <1>1, <1>2, ZenonT(120) DEF TablesType

LEMMA UnmapThreadExact ==
    ASSUME NEW k \in TablesType, NEW t \in Threads, Exact(k),
           k.state[t] = "MAPPED"
    PROVE  Exact(UnmapThread(k, t))
<1>. DEFINE n == UnmapThread(k, t)
<1>. SUFFICES ASSUME NEW u \in Threads, NEW p \in 0 .. PK_THREADS
              PROVE  n.map[p] = u <=> n.state[u] = "MAPPED" /\ n.priority[u] = p
  BY DEF Exact
<1>0. /\ n.map = [k.map EXCEPT ![k.priority[t]] = NULL]
      /\ n.state[t] # "MAPPED"
      /\ \A v \in Threads \ {t} : n.state[v] = k.state[v]
      /\ n.priority = k.priority
  BY UnmapThreadMap
<1>. HIDE DEF n
<1>1. k.priority[t] \in 0 .. PK_THREADS /\ u # NULL
  BY KernelAssumption DEF TablesType
<1>2. k.map[k.priority[t]] = t
  BY <1>1 DEF Exact
<1>3. k.map[p] = u <=> k.state[u] = "MAPPED" /\ k.priority[u] = p
  BY DEF Exact
<1>4. n.map[p] = IF p = k.priority[t] THEN NULL ELSE k.map[p]
  BY <1>0, <1>1 DEF TablesType
<1>5. n.state[t] # "MAPPED" /\ (u # t => n.state[u] = k.state[u])
      /\ n.priority[u] = k.priority[u]
  BY <1>0
<1>. QED  BY <1>1, <1>2, <1>3, <1>4, <1>5
(* In the tables k nobody waits beside a count.                            *)
NoWait(k) == \A s \in Semaphores : k.count[s] > 0 => k.pending[s] = {}

(* __pk_thread_map queues a waiter only when it finds the count 0.         *)
LEMMA MapThreadNoWait ==
    ASSUME NEW k \in TablesType, NEW t \in Threads, NoWait(k)
    PROVE  NoWait(MapThread(k, t))
<1>. DEFINE p == k.priority[t]
            s == semaphore[t]
            c == Claim(k, t)
            m == MapThread(k, t)
<1>. SUFFICES ASSUME NEW r \in Semaphores, m.count[r] > 0
              PROVE  m.pending[r] = {}
  BY DEF NoWait
<1>0. k.count[r] \in Nat
  BY KernelAssumption DEF TablesType
<1>1. \/ m = c
      \/ m = [c EXCEPT !.run = QueueInsert(@, p)]
      \/ k.count[s] > 0
         /\ m = [c EXCEPT !.count[s] = @ - 1, !.granted[t] = TRUE,
                          !.run = QueueInsert(@, p)]
      \/ k.count[s] = 0
         /\ m = [c EXCEPT !.pending[s] = QueueInsert(@, p)]
  BY MapThreadCases, Zenon
<1>2. c \in TablesType /\ c.count = k.count /\ c.pending = k.pending
  BY ClaimFields
<1>3. k.count[r] > 0 => k.pending[r] = {}
  BY DEF NoWait
<1>. HIDE DEF c, m
<1>4. CASE m = c
  BY <1>2, <1>3, <1>4
<1>5. CASE m = [c EXCEPT !.run = QueueInsert(@, p)]
  BY <1>2, <1>3, <1>5 DEF TablesType
<1>6. CASE k.count[s] > 0
           /\ m = [c EXCEPT !.count[s] = @ - 1, !.granted[t] = TRUE,
                            !.run = QueueInsert(@, p)]
  <2>1. m.count = [k.count EXCEPT ![s] = @ - 1] /\ m.pending = k.pending
    BY <1>2, <1>6 DEF TablesType
  <2>2. k.count[r] > 0
    BY <1>0, <1>6, <2>1 DEF TablesType
  <2>. QED  BY <1>3, <2>1, <2>2
<1>7. CASE k.count[s] = 0 /\ m = [c EXCEPT !.pending[s] = QueueInsert(@, p)]
  <2>1. m.count = k.count /\ m.pending = [k.pending EXCEPT ![s] = QueueInsert(@, p)]
    BY <1>2, <1>7 DEF TablesType
  <2>2. r # s
    BY <1>0, <1>7, <2>1
  <2>. QED  BY <1>3, <2>1, <2>2 DEF TablesType
<1>. QED  BY <1>1, <1>4, <1>5, <1>6, <1>7

LEMMA UnmapThreadNoWait ==
    ASSUME NEW k \in TablesType, NEW t \in Threads, NoWait(k)
    PROVE  NoWait(UnmapThread(k, t))
<1>. DEFINE n == UnmapThread(k, t)
<1>1. CASE Runnable(k, t)
  <2>1. n.count = k.count /\ n.pending = k.pending
    BY <1>1 DEF UnmapThread, TablesType
  <2>. QED  BY <2>1 DEF NoWait
<1>2. CASE ~Runnable(k, t) /\ "SEMAPHORE_PEND" \in k.flags[t]
  <2>. DEFINE u == [k EXCEPT !.map[k.priority[t]] = NULL]
  <2>0. n = [u EXCEPT !.state[t] = "SUSPENDED_BLOCKED",
                      !.pending[semaphore[t]] = QueueDelete(@, k.priority[t])]
    BY <1>2 DEF UnmapThread
  <2>01. u.count = k.count /\ u.pending = k.pending /\ u \in TablesType
    BY DEF TablesType
  <2>. HIDE DEF n, u
  <2>1. /\ n.count = k.count
        /\ n.pending = [k.pending EXCEPT
                          ![semaphore[t]] = QueueDelete(@, k.priority[t])]
    BY <2>0, <2>01 DEF TablesType
  <2>2. \A s \in Semaphores : k.pending[s] = {} => n.pending[s] = {}
    BY <2>1 DEF QueueDelete, TablesType
  <2>. QED  BY <2>1, <2>2 DEF NoWait, n
<1>3. CASE ~Runnable(k, t) /\ "SEMAPHORE_PEND" \notin k.flags[t]
  <2>1. n.count = k.count /\ n.pending = k.pending
    BY <1>3 DEF UnmapThread, TablesType
  <2>. QED  BY <2>1 DEF NoWait
<1>. QED  BY <1>1, <1>2, <1>3

-----------------------------------------------------------------------------
(* The inductive invariant: next_thread is always the scheduler's choice,  *)
(* and a choice not yet switched to is remembered in delayed_switch.       *)
NextIsBest == next_thread = priority_map[QueueMin(run_queue)]

SwitchState ==
    /\ ~thread_mode => ~delayed_switch
    /\ thread_mode /\ ~delayed_switch => current = next_thread
    /\ thread_mode /\ ~processing_interrupt => ~delayed_switch

KernelInv ==
    /\ TypeOK
    /\ PriorityMapExact
    /\ NoWaiterWithCount
    /\ NextIsBest
    /\ SwitchState

(* The types of the variables that are not kernel tables.                  *)
RestOK ==
    /\ semaphore \in [Threads -> Semaphores \union {NULL}]
    /\ timer \in [Threads -> {"idle", "queued", "expired"}]
    /\ pc \in [Threads -> {"run", "pend", "sleep"}]
    /\ panic \in BOOLEAN

Good(k) == k \in TablesType /\ Exact(k) /\ NoWait(k)

(* What __pk_thread_unmap and __pk_thread_map preserve, all together.      *)
LEMMA UnmapThreadGood ==
    ASSUME NEW k, NEW t \in Threads, Good(k), k.state[t] = "MAPPED"
    PROVE  /\ Good(UnmapThread(k, t))
           /\ UnmapThread(k, t).priority = k.priority
           /\ UnmapThread(k, t).state[t] # "MAPPED"
           /\ \A u \in Threads \ {t} : UnmapThread(k, t).state[u] = k.state[u]
           /\ UnmapThread(k, t).map = [k.map EXCEPT ![k.priority[t]] = NULL]
<1>1. k \in TablesType /\ Exact(k) /\ NoWait(k)
  BY DEF Good
<1>2. Good(UnmapThread(k, t))
  BY <1>1, UnmapThreadType, UnmapThreadExact, UnmapThreadNoWait DEF Good
<1>. QED  BY <1>1, <1>2, UnmapThreadMap

LEMMA MapThreadGood ==
    ASSUME NEW k, NEW t \in Threads, Good(k), k.state[t] # "MAPPED",
           k.map[k.priority[t]] = NULL
    PROVE  /\ Good(MapThread(k, t))
           /\ MapThread(k, t).priority = k.priority
           /\ MapThread(k, t).state = [k.state EXCEPT ![t] = "MAPPED"]
           /\ MapThread(k, t).map = [k.map EXCEPT ![k.priority[t]] = t]
<1>1. k \in TablesType /\ Exact(k) /\ NoWait(k)
  BY DEF Good
<1>2. Good(MapThread(k, t))
  BY <1>1, MapThreadType, MapThreadExact, MapThreadNoWait DEF Good
<1>. QED  BY <1>1, <1>2, MapThreadMap

LEMMA TablesGood == KernelInv => Good(Tables)
<1>. SUFFICES ASSUME KernelInv PROVE Good(Tables)
  OBVIOUS
<1>1. Tables \in TablesType
  BY DEF KernelInv, TypeOK, Tables, TablesType, ThreadStates, Flags
<1>2. Exact(Tables)
  BY DEF KernelInv, PriorityMapExact, Exact, Tables
<1>3. NoWait(Tables)
  BY DEF KernelInv, NoWaiterWithCount, NoWait, Tables
<1>. QED  BY <1>1, <1>2, <1>3 DEF Good

(* A kernel call that installs good tables and ends in __pk_schedule().    *)
LEMMA CallStep ==
    ASSUME KernelInv, NEW k, Good(k), NEW cur \in Threads \union {NULL},
           Install(k), Schedule(k, cur), UNCHANGED contextVars, RestOK'
    PROVE  KernelInv'
<1>1. /\ state' \in [Threads -> ThreadStates]
      /\ priority' \in [Threads -> 0 .. PK_THREADS]
      /\ flags' \in [Threads -> SUBSET Flags]
      /\ priority_map' \in [0 .. PK_THREADS -> Threads \union {NULL}]
      /\ run_queue' \in SUBSET PkPriority
      /\ pending' \in [Semaphores -> SUBSET PkPriority]
      /\ count' \in [Semaphores -> 0 .. CountMod - 1]
      /\ granted' \in [Threads -> BOOLEAN]
  BY DEF Good, TablesType, Install
<1>2. QueueMin(k.run) \in 0 .. PK_THREADS
  BY QueueMinLemma DEF Good, TablesType
<1>3. k.map[QueueMin(k.run)] \in Threads \union {NULL}
  BY <1>2 DEF Good, TablesType
<1>4. /\ current' \in Threads \union {NULL}
      /\ next_thread' \in Threads \union {NULL}
      /\ delayed_switch' \in BOOLEAN
      /\ thread_mode' \in BOOLEAN
      /\ processing_interrupt' \in BOOLEAN
  BY <1>3 DEF Schedule, KernelInv, TypeOK, contextVars
<1>5. TypeOK'
  BY <1>1, <1>4 DEF TypeOK, RestOK, ThreadStates, Flags
<1>6. PriorityMapExact'
  BY DEF Good, Exact, Install, PriorityMapExact
<1>7. NoWaiterWithCount'
  BY DEF Good, NoWait, Install, NoWaiterWithCount
<1>8. NextIsBest'
  BY DEF Schedule, Install, NextIsBest
<1>9. SwitchState'
  BY DEF Schedule, KernelInv, SwitchState, TypeOK, contextVars
<1>. QED  BY <1>5, <1>6, <1>7, <1>8, <1>9 DEF KernelInv

(* A step that leaves the map, the queues and the scheduler alone.         *)
LEMMA QuietStep ==
    ASSUME KernelInv, TypeOK',
           UNCHANGED <<priority_map, run_queue, schedVars, contextVars>>,
           PriorityMapExact', NoWaiterWithCount'
    PROVE  KernelInv'
BY DEF KernelInv, NextIsBest, SwitchState, schedVars, contextVars

LEMMA PanicStep == KernelInv /\ Panic => KernelInv'
<1>. SUFFICES ASSUME KernelInv, Panic PROVE KernelInv'
  OBVIOUS
<1>. USE DEF Panic, tableVars, schedVars, contextVars
<1>1. TypeOK'
  BY DEF KernelInv, TypeOK
<1>2. PriorityMapExact' /\ NoWaiterWithCount'
  BY DEF KernelInv, PriorityMapExact, NoWaiterWithCount
<1>. QED  BY <1>1, <1>2, QuietStep

-----------------------------------------------------------------------------
(* One lemma per group of kernel operations.                               *)
LEMMA InitInv == Init => KernelInv
<1>. SUFFICES ASSUME Init PROVE KernelInv
  OBVIOUS
<1>. USE KernelAssumption DEF Init
<1>1. TypeOK
  <2>1. PkPriority \subseteq 0 .. PK_THREADS
    BY DEF PkPriority
  <2>2. priority \in [Threads -> 0 .. PK_THREADS]
    BY <2>1
  <2>3. priority_map \in [0 .. PK_THREADS -> Threads \union {NULL}]
    OBVIOUS
  <2>4. pending \in [Semaphores -> SUBSET PkPriority]
    OBVIOUS
  <2>. QED  BY <2>2, <2>3, <2>4 DEF TypeOK
<1>2. PriorityMapExact
  BY DEF PriorityMapExact
<1>3. NoWaiterWithCount
  BY DEF NoWaiterWithCount
<1>4. NextIsBest
  BY DEF NextIsBest, QueueMin
<1>5. SwitchState
  BY DEF SwitchState
<1>. QED  BY <1>1, <1>2, <1>3, <1>4, <1>5 DEF KernelInv

LEMMA ContextSteps ==
    ASSUME KernelInv, StartThreads \/ InterruptEntry \/ InterruptExit
    PROVE  KernelInv'
<1>. USE DEF StartThreads, InterruptEntry, InterruptExit, tableVars, schedVars
<1>1. TypeOK'
  BY DEF KernelInv, TypeOK
<1>2. PriorityMapExact' /\ NoWaiterWithCount' /\ NextIsBest'
  BY DEF KernelInv, PriorityMapExact, NoWaiterWithCount, NextIsBest
<1>3. SwitchState'
  BY DEF KernelInv, SwitchState, TypeOK
<1>. QED  BY <1>1, <1>2, <1>3 DEF KernelInv

LEMMA CreateStep ==
    ASSUME KernelInv, NEW t \in Threads, NEW p \in PkPriority, Create(t, p)
    PROVE  KernelInv'
<1>1. TypeOK'
  BY KernelAssumption
     DEF Create, KernelInv, TypeOK, PkPriority, schedVars, contextVars
<1>2. PriorityMapExact'
  BY DEF Create, KernelInv, PriorityMapExact, TypeOK, IsActive
<1>3. NoWaiterWithCount'
  BY DEF Create, KernelInv, NoWaiterWithCount
<1>. QED  BY <1>1, <1>2, <1>3, QuietStep DEF Create

LEMMA ResumeStep ==
    ASSUME KernelInv, NEW t \in Threads, Resume(t)
    PROVE  KernelInv'
<1>1. CASE ~IsActive(t) \/ priority_map[priority[t]] # NULL
  BY <1>1, PanicStep DEF Resume
<1>2. CASE ~(~IsActive(t) \/ priority_map[priority[t]] # NULL)
  <2>. DEFINE k == MapThread(Tables, t)
  <2>1. Good(Tables)
    BY TablesGood
  <2>2. Good(k)
    <3>1. Tables.state[t] # "MAPPED" /\ Tables.map[Tables.priority[t]] = NULL
      BY <1>2 DEF Resume, IsMapped, Tables
    <3>. QED  BY <2>1, <3>1, MapThreadGood
  <2>3. /\ Install(k) /\ Schedule(k, current) /\ UNCHANGED contextVars
        /\ UNCHANGED <<semaphore, timer, pc, panic>>
    BY <1>2 DEF Resume
  <2>4. RestOK' /\ current \in Threads \union {NULL}
    BY <2>3 DEF RestOK, KernelInv, TypeOK
  <2>. HIDE DEF k
  <2>. QED  BY <2>2, <2>3, <2>4, CallStep
<1>. QED  BY <1>1, <1>2

LEMMA SuspendStep ==
    ASSUME KernelInv, NEW t \in Threads, Suspend(t)
    PROVE  KernelInv'
<1>1. CASE ~IsActive(t)
  BY <1>1, PanicStep DEF Suspend
<1>2. CASE IsActive(t)
  <2>. DEFINE k == UnmapThread(Tables, t)
  <2>1. Good(Tables)
    BY TablesGood
  <2>2. Good(k)
    <3>1. Tables.state[t] = "MAPPED"
      BY <1>2 DEF Suspend, IsActive, Tables
    <3>. QED  BY <2>1, <3>1, UnmapThreadGood
  <2>3. /\ Install(k) /\ Schedule(k, current) /\ UNCHANGED contextVars
        /\ UNCHANGED <<semaphore, timer, pc, panic>>
    BY <1>2 DEF Suspend
  <2>4. RestOK' /\ current \in Threads \union {NULL}
    BY <2>3 DEF RestOK, KernelInv, TypeOK
  <2>. HIDE DEF k
  <2>. QED  BY <2>2, <2>3, <2>4, CallStep
<1>. QED  BY <1>1, <1>2

(* __pk_thread_delete, for both of its callers.                            *)
LEMMA RemoveStep ==
    ASSUME KernelInv, NEW t \in Threads, NEW final \in {"COMPLETED", "DELETED"},
           Remove(t, final)
    PROVE  KernelInv'
<1>. DEFINE g == IF IsMapped(t) THEN UnmapThread(Tables, t) ELSE Tables
            k == [g EXCEPT !.state[t] = final]
<1>1. Good(Tables) /\ (IsMapped(t) <=> Tables.state[t] = "MAPPED")
  BY TablesGood DEF IsMapped, Tables
<1>2. Good(g) /\ g.state[t] # "MAPPED"
  BY <1>1, UnmapThreadGood
<1>3. /\ Install(k)
      /\ IF IsMapped(t)
         THEN Schedule(g, IF t = current THEN NULL ELSE current)
         ELSE UNCHANGED schedVars
      /\ UNCHANGED <<semaphore, pc, contextVars, panic>>
      /\ timer' = [timer EXCEPT ![t] = IF @ = "queued" THEN "idle" ELSE @]
  BY DEF Remove
<1>4. g \in TablesType
  BY <1>2 DEF Good
<1>. HIDE DEF g
<1>5. Good(k)
  <2>1. k \in TablesType
    BY <1>4 DEF TablesType, ThreadStates
  <2>2. Exact(k)
    BY <1>2, <1>4 DEF Good, Exact, TablesType
  <2>3. NoWait(k)
    BY <1>2, <1>4 DEF Good, NoWait, TablesType
  <2>. QED  BY <2>1, <2>2, <2>3 DEF Good
<1>6. RestOK' /\ current \in Threads \union {NULL}
  BY <1>3 DEF RestOK, KernelInv, TypeOK
<1>7. CASE IsMapped(t)
  <2>1. k.map = g.map /\ k.run = g.run
    BY <1>4 DEF TablesType
  <2>. HIDE DEF k
  <2>2. Schedule(k, IF t = current THEN NULL ELSE current)
    BY <1>3, <1>7, <2>1 DEF Schedule
  <2>. QED  BY <1>3, <1>5, <1>6, <2>2, CallStep
<1>. HIDE DEF k
<1>8. CASE ~IsMapped(t)
  <2>1. g = Tables
    BY <1>8 DEF g
  <2>2. /\ priority_map' = priority_map /\ run_queue' = run_queue
        /\ UNCHANGED <<schedVars, contextVars>>
    BY <1>3, <1>8, <2>1 DEF Install, k, Tables
  <2>3. TypeOK'
    BY <1>3, <1>5, <1>6, <2>2
       DEF Good, TablesType, Install, RestOK, TypeOK, KernelInv, ThreadStates,
           Flags, schedVars, contextVars
  <2>4. PriorityMapExact' /\ NoWaiterWithCount'
    BY <1>3, <1>5 DEF Good, Exact, NoWait, Install, PriorityMapExact,
                      NoWaiterWithCount
  <2>. QED  BY <2>2, <2>3, <2>4, QuietStep
<1>. QED  BY <1>7, <1>8

LEMMA PriorityChangeStep ==
    ASSUME KernelInv, NEW t \in Threads, NEW p \in NewPriorities,
           PriorityChange(t, p)
    PROVE  KernelInv'
<1>0. p \in 0 .. PK_THREADS
  BY KernelAssumption
<1>1. CASE ~IsMapped(t)
  <2>. USE <1>1 DEF PriorityChange
  <2>1. TypeOK'
    BY <1>0, ZenonT(120) DEF KernelInv, TypeOK, schedVars, contextVars
  <2>2. PriorityMapExact'
    BY DEF KernelInv, PriorityMapExact, IsMapped, TypeOK
  <2>3. NoWaiterWithCount'
    BY DEF KernelInv, NoWaiterWithCount
  <2>. QED  BY <2>1, <2>2, <2>3, QuietStep
<1>2. CASE IsMapped(t) /\ priority_map[p] # NULL
  BY <1>2, PanicStep DEF PriorityChange
<1>3. CASE IsMapped(t) /\ ~(priority_map[p] # NULL)
  <2>. DEFINE u == UnmapThread(Tables, t)
              m == [u EXCEPT !.priority[t] = p]
              k == MapThread(m, t)
  <2>1. Good(Tables) /\ Tables.state[t] = "MAPPED" /\ Tables.map[p] = NULL
    BY <1>3, TablesGood DEF IsMapped, Tables
  <2>2. Good(u)
    BY <2>1, UnmapThreadGood
  <2>3. u.state[t] # "MAPPED" /\ u.map = [Tables.map EXCEPT ![Tables.priority[t]] = NULL]
    BY <2>1, UnmapThreadGood
  <2>4. u.map[p] = NULL
    BY <1>0, <2>1, <2>3 DEF Good, TablesType
  <2>5. /\ Install(k) /\ Schedule(k, current) /\ UNCHANGED contextVars
        /\ UNCHANGED <<semaphore, timer, pc, panic>>
    BY <1>3 DEF PriorityChange
  <2>. HIDE DEF u
  <2>6. Good(m) /\ m.state[t] # "MAPPED" /\ m.map[m.priority[t]] = NULL
    <3>1. u \in TablesType
      BY <2>2 DEF Good
    <3>2. m \in TablesType
      BY <1>0, <3>1 DEF TablesType
    <3>3. Exact(m)
      <4>1. m.map = u.map /\ m.state = u.state
            /\ \A v \in Threads \ {t} : m.priority[v] = u.priority[v]
        BY <3>1 DEF TablesType
      <4>. HIDE DEF m
      <4>2. u.state[t] # "MAPPED" /\ Exact(u)
        BY <2>2, <2>3 DEF Good
      <4>. QED  BY <4>1, <4>2 DEF Exact
    <3>4. NoWait(m)
      BY <2>2, <3>1 DEF Good, NoWait, TablesType
    <3>5. m.state[t] # "MAPPED" /\ m.map[m.priority[t]] = NULL
      BY <2>3, <2>4, <3>1 DEF TablesType
    <3>. QED  BY <3>2, <3>3, <3>4, <3>5 DEF Good
  <2>. HIDE DEF m
  <2>7. Good(k)
    BY <2>6, MapThreadGood
  <2>8. RestOK' /\ current \in Threads \union {NULL}
    BY <2>5 DEF RestOK, KernelInv, TypeOK
  <2>. HIDE DEF k
  <2>. QED  BY <2>5, <2>7, <2>8, CallStep
<1>. QED  BY <1>1, <1>2, <1>3

(* A swap unmaps both threads, exchanges their priorities and maps again   *)
(* those that were mapped: the tables in between.                          *)
SwapInUse(a, b) ==
    \/ IsMapped(a) /\ ~IsMapped(b) /\ priority_map[priority[b]] # NULL
    \/ ~IsMapped(a) /\ IsMapped(b) /\ priority_map[priority[a]] # NULL
SwapOut(a) == IF IsMapped(a) THEN UnmapThread(Tables, a) ELSE Tables
SwapOutBoth(a, b) ==
    IF IsMapped(b) THEN UnmapThread(SwapOut(a), b) ELSE SwapOut(a)
Swapped(a, b) == [SwapOutBoth(a, b) EXCEPT !.priority[a] = priority[b],
                                           !.priority[b] = priority[a]]
SwapIn(a, b) ==
    IF IsMapped(a) THEN MapThread(Swapped(a, b), a) ELSE Swapped(a, b)
SwapInBoth(a, b) ==
    IF IsMapped(b) THEN MapThread(SwapIn(a, b), b) ELSE SwapIn(a, b)

LEMMA SwapInstalls ==
    ASSUME NEW a \in Threads, NEW b \in Threads, PrioritySwap(a, b)
    PROVE  /\ a # b
           /\ SwapInUse(a, b) => Panic
           /\ ~SwapInUse(a, b) =>
                 /\ Install(SwapInBoth(a, b))
                 /\ Schedule(SwapInBoth(a, b), current)
                 /\ UNCHANGED <<semaphore, timer, pc, contextVars, panic>>
  BY DEF PrioritySwap, SwapInUse, SwapOut, SwapOutBoth, Swapped, SwapIn,
         SwapInBoth

(* Each thread finds its new priority unclaimed.                           *)
LEMMA SwapGood ==
    ASSUME KernelInv, NEW a \in Threads, NEW b \in Threads, a # b,
           ~SwapInUse(a, b)
    PROVE  /\ Good(SwapOut(a)) /\ SwapOut(a).state[a] # "MAPPED"
           /\ SwapOut(a).state[b] = state[b]
           /\ Good(SwapOutBoth(a, b))
           /\ SwapOutBoth(a, b).priority = priority
           /\ SwapOutBoth(a, b).state[a] # "MAPPED"
           /\ SwapOutBoth(a, b).state[b] # "MAPPED"
           /\ SwapOutBoth(a, b).state[a] = SwapOut(a).state[a]
           /\ Good(Swapped(a, b))
           /\ Swapped(a, b).state = SwapOutBoth(a, b).state
           /\ IsMapped(a) => Swapped(a, b).map[Swapped(a, b).priority[a]] = NULL
           /\ Good(SwapIn(a, b)) /\ SwapIn(a, b).state[b] # "MAPPED"
           /\ SwapIn(a, b).state[b] = Swapped(a, b).state[b]
           /\ IsMapped(b) => SwapIn(a, b).map[SwapIn(a, b).priority[b]] = NULL
           /\ Good(SwapInBoth(a, b))
<1>. DEFINE k1 == SwapOut(a)
            k2 == SwapOutBoth(a, b)
            k3 == Swapped(a, b)
            k4 == SwapIn(a, b)
            k5 == SwapInBoth(a, b)
<1>. HIDE DEF k1, k2, k3, k4, k5
<1>0. priority[a] \in 0 .. PK_THREADS /\ priority[b] \in 0 .. PK_THREADS
  BY DEF KernelInv, TypeOK
<1>2. /\ Good(Tables) /\ Tables.priority = priority
      /\ Tables.map = priority_map /\ Tables.state = state
      /\ \A t \in Threads : IsMapped(t) <=> Tables.state[t] = "MAPPED"
  BY TablesGood DEF IsMapped, Tables
<1>3. IsMapped(a) /\ IsMapped(b) => priority[a] # priority[b]
  BY <1>0 DEF KernelInv, PriorityMapExact, IsMapped
<1>4. /\ Good(k1) /\ k1.priority = priority
      /\ k1.state[a] # "MAPPED" /\ k1.state[b] = state[b]
      /\ \A p \in 0 .. PK_THREADS : priority_map[p] = NULL => k1.map[p] = NULL
      /\ IsMapped(a) => k1.map[priority[a]] = NULL
  <2>1. CASE IsMapped(a)
    <3>. DEFINE u == UnmapThread(Tables, a)
    <3>1. /\ Good(u) /\ u.priority = priority /\ u.state[a] # "MAPPED"
          /\ u.state[b] = Tables.state[b]
          /\ u.map = [priority_map EXCEPT ![priority[a]] = NULL]
      BY <1>0, <1>2, <2>1, UnmapThreadGood
    <3>2. \A p \in 0 .. PK_THREADS :
            u.map[p] = IF p = priority[a] THEN NULL ELSE priority_map[p]
      BY <3>1, <1>2 DEF Good, TablesType
    <3>. HIDE DEF u
    <3>3. k1 = u
      BY <2>1 DEF u, k1, SwapOut
    <3>. QED  BY <1>0, <1>2, <3>1, <3>2, <3>3
  <2>2. CASE ~IsMapped(a)
    <3>1. k1 = Tables
      BY <2>2 DEF k1, SwapOut
    <3>. QED  BY <1>0, <1>2, <2>2, <3>1
  <2>. QED  BY <2>1, <2>2
<1>5. /\ Good(k2) /\ k2.priority = priority
      /\ k2.state[a] # "MAPPED" /\ k2.state[b] # "MAPPED"
      /\ k2.state[a] = k1.state[a]
      /\ \A p \in 0 .. PK_THREADS : k1.map[p] = NULL => k2.map[p] = NULL
      /\ IsMapped(b) => k2.map[priority[b]] = NULL
  <2>1. CASE IsMapped(b)
    <3>. DEFINE u == UnmapThread(k1, b)
    <3>0. k1.state[b] = "MAPPED"
      BY <1>2, <1>4, <2>1
    <3>1. /\ Good(u) /\ u.priority = priority /\ u.state[b] # "MAPPED"
          /\ u.state[a] = k1.state[a]
          /\ u.map = [k1.map EXCEPT ![priority[b]] = NULL]
      BY <1>0, <1>4, <3>0, UnmapThreadGood, SMTT(60)
    <3>2. \A p \in 0 .. PK_THREADS :
            u.map[p] = IF p = priority[b] THEN NULL ELSE k1.map[p]
      BY <3>1, <1>4 DEF Good, TablesType
    <3>. HIDE DEF u
    <3>3. k2 = u
      BY <2>1 DEF u, k1, k2, SwapOutBoth
    <3>. QED  BY <1>0, <1>4, <3>1, <3>2, <3>3
  <2>2. CASE ~IsMapped(b)
    <3>1. k2 = k1
      BY <2>2 DEF k1, k2, SwapOutBoth
    <3>. QED  BY <1>0, <1>2, <1>4, <2>2, <3>1
  <2>. QED  BY <2>1, <2>2
<1>6. /\ IsMapped(a) => k2.map[priority[b]] = NULL
      /\ IsMapped(b) => k2.map[priority[a]] = NULL
  BY <1>0, <1>4, <1>5 DEF SwapInUse
<1>7. /\ Good(k3) /\ k3.map = k2.map /\ k3.state = k2.state
      /\ k3.priority[a] = priority[b] /\ k3.priority[b] = priority[a]
  <2>1. k2 \in TablesType
    BY <1>5 DEF Good
  <2>2. /\ k3 \in TablesType /\ k3.map = k2.map /\ k3.state = k2.state
        /\ k3.count = k2.count /\ k3.pending = k2.pending
        /\ k3.priority[a] = priority[b] /\ k3.priority[b] = priority[a]
        /\ \A t \in Threads \ {a, b} : k3.priority[t] = k2.priority[t]
    <3>1. k3 = [k2 EXCEPT !.priority[a] = priority[b], !.priority[b] = priority[a]]
      BY DEF k2, k3, Swapped
    <3>. QED  BY <1>0, <2>1, <3>1 DEF TablesType
  <2>3. Exact(k3)
    BY <1>5, <2>2 DEF Good, Exact
  <2>4. NoWait(k3)
    BY <1>5, <2>2 DEF Good, NoWait
  <2>. QED  BY <2>2, <2>3, <2>4 DEF Good
<1>8. /\ Good(k4) /\ k4.state[b] # "MAPPED" /\ k4.priority[b] = priority[a]
      /\ k4.state[b] = k3.state[b]
      /\ IsMapped(b) => k4.map[priority[a]] = NULL
  <2>1. CASE IsMapped(a)
    <3>. DEFINE m == MapThread(k3, a)
    <3>1. /\ Good(m) /\ m.priority = k3.priority
          /\ m.state = [k3.state EXCEPT ![a] = "MAPPED"]
          /\ m.map = [k3.map EXCEPT ![priority[b]] = a]
      BY <1>5, <1>6, <1>7, <2>1, MapThreadGood
    <3>2. /\ m.state[b] = k3.state[b]
          /\ priority[a] # priority[b] => m.map[priority[a]] = k3.map[priority[a]]
      BY <1>0, <1>7, <3>1 DEF Good, TablesType
    <3>3. k4 = m
      BY <2>1 DEF k3, k4, SwapIn
    <3>. HIDE DEF m
    <3>. QED  BY <1>3, <1>5, <1>6, <1>7, <2>1, <3>1, <3>2, <3>3, ZenonT(60)
  <2>2. CASE ~IsMapped(a)
    <3>1. k4 = k3
      BY <2>2 DEF k3, k4, SwapIn
    <3>. QED  BY <1>5, <1>6, <1>7, <2>2, <3>1
  <2>. QED  BY <2>1, <2>2
<1>9. Good(k5)
  <2>1. CASE IsMapped(b)
    <3>1. Good(MapThread(k4, b))
      BY <1>8, <2>1, MapThreadGood
    <3>. QED  BY <2>1, <3>1 DEF k4, k5, SwapInBoth
  <2>2. CASE ~IsMapped(b)
    BY <1>8, <2>2 DEF k4, k5, SwapInBoth
  <2>. QED  BY <2>1, <2>2
<1>. QED  BY <1>4, <1>5, <1>6, <1>7, <1>8, <1>9 DEF k1, k2, k3, k4, k5

LEMMA PrioritySwapStep ==
    ASSUME KernelInv, NEW a \in Threads, NEW b \in Threads, PrioritySwap(a, b)
    PROVE  KernelInv'
<1>1. CASE SwapInUse(a, b)
  BY <1>1, SwapInstalls, PanicStep
<1>2. CASE ~SwapInUse(a, b)
  <2>1. /\ Install(SwapInBoth(a, b)) /\ Schedule(SwapInBoth(a, b), current)
        /\ UNCHANGED contextVars /\ UNCHANGED <<semaphore, timer, pc, panic>>
    BY <1>2, SwapInstalls
  <2>2. Good(SwapInBoth(a, b))
    BY <1>2, SwapInstalls, SwapGood
  <2>3. RestOK' /\ current \in Threads \union {NULL}
    BY <2>1 DEF RestOK, KernelInv, TypeOK
  <2>. QED  BY <2>1, <2>2, <2>3, CallStep
<1>. QED  BY <1>1, <1>2

(* Tables that differ from the kernel's in nothing the map depends on.     *)
LEMMA TablesLike ==
    ASSUME KernelInv, NEW k \in TablesType, k.state = state,
           k.priority = priority, k.map = priority_map, NoWait(k)
    PROVE  Good(k)
BY DEF KernelInv, PriorityMapExact, Good, Exact

LEMMA SleepStep ==
    ASSUME KernelInv, Sleep
    PROVE  KernelInv'
<1>. DEFINE k == [Tables EXCEPT !.flags[current] = @ \union {"TIMER_PEND"},
                                !.run = QueueDelete(@, priority[current])]
<1>1. Tables \in TablesType /\ NoWait(Tables)
  BY TablesGood DEF Good
<1>2. k \in TablesType
  BY <1>1 DEF TablesType, Flags, QueueDelete
<1>3. /\ k.state = state /\ k.priority = priority /\ k.map = priority_map
      /\ k.pending = pending /\ k.count = count
  BY DEF Tables
<1>4. /\ Install(k) /\ Schedule(k, current) /\ UNCHANGED contextVars
      /\ RestOK'
  BY DEF Sleep, KernelInv, TypeOK, RestOK
<1>. HIDE DEF k
<1>5. NoWait(k)
  BY <1>3 DEF NoWait, KernelInv, NoWaiterWithCount
<1>6. Good(k)
  BY <1>2, <1>3, <1>5, TablesLike
<1>7. current \in Threads \union {NULL}
  BY DEF KernelInv, TypeOK
<1>. QED  BY <1>4, <1>6, <1>7, CallStep

LEMMA SemaphorePendStep ==
    ASSUME KernelInv, NEW s \in Semaphores, NEW timeout \in Timeouts,
           SemaphorePend(s, timeout)
    PROVE  KernelInv'
<1>. DEFINE t == current
            more == IF timeout = "TIMED" THEN {"TIMER_PEND"} ELSE {}
            k == [Tables EXCEPT
                    !.pending[s] = QueueInsert(@, priority[t]),
                    !.flags[t] = @ \union {"SEMAPHORE_PEND"}
                                   \union more,
                    !.granted[t] = FALSE,
                    !.run = QueueDelete(@, priority[t])]
<1>1. CASE ~InThread
  BY <1>1, PanicStep DEF SemaphorePend
<1>2. CASE InThread
  <2>1. Tables \in TablesType /\ NoWait(Tables)
    BY TablesGood DEF Good
  <2>2. current \in Threads /\ priority[t] \in 0 .. PK_THREADS
    BY <1>2 DEF InThread, KernelInv, TypeOK
  <2>3. QueueInsert(pending[s], priority[t]) \in SUBSET PkPriority
    BY <2>2, QueueTypes DEF KernelInv, TypeOK
  <2>4. k \in TablesType
    <3>1. more \in SUBSET Flags
      BY DEF Flags
    <3>. HIDE DEF more
    <3>2. flags[t] \union {"SEMAPHORE_PEND"} \union more \in SUBSET Flags
      BY <2>2, <3>1 DEF KernelInv, TypeOK, Flags
    <3>3. [flags EXCEPT ![t] = @ \union {"SEMAPHORE_PEND"} \union more]
            \in [Threads -> SUBSET Flags]
      BY <2>2, <3>2 DEF KernelInv, TypeOK, Flags
    <3>4. [pending EXCEPT ![s] = QueueInsert(@, priority[t])]
            \in [Semaphores -> SUBSET PkPriority]
      BY <2>3 DEF KernelInv, TypeOK
    <3>5. [granted EXCEPT ![t] = FALSE] \in [Threads -> BOOLEAN]
      BY DEF KernelInv, TypeOK
    <3>6. QueueDelete(run_queue, priority[t]) \in SUBSET PkPriority
      BY <2>2, QueueTypes DEF KernelInv, TypeOK
    <3>7. /\ Tables.flags = flags /\ Tables.pending = pending
          /\ Tables.granted = granted /\ Tables.run = run_queue
      BY DEF Tables
    <3>. QED  BY <2>1, <3>3, <3>4, <3>5, <3>6, <3>7 DEF TablesType
  <2>5. /\ k.state = state /\ k.priority = priority /\ k.map = priority_map
        /\ k.count = count /\ count[s] = 0
        /\ \A r \in Semaphores \ {s} : k.pending[r] = pending[r]
    BY DEF Tables, SemaphorePend
  <2>6. Install(k) /\ Schedule(k, current) /\ UNCHANGED <<contextVars, panic>>
    BY <1>2 DEF SemaphorePend
  <2>7. RestOK'
    <3>1. /\ semaphore' = [semaphore EXCEPT ![t] = s]
          /\ timer' = [timer EXCEPT ![t] = IF timeout = "TIMED"
                                           THEN "queued" ELSE @]
          /\ pc' = [pc EXCEPT ![t] = "pend"]
      BY <1>2 DEF SemaphorePend
    <3>2. semaphore' \in [Threads -> Semaphores \union {NULL}]
      BY <3>1 DEF KernelInv, TypeOK
    <3>3. timer' \in [Threads -> {"idle", "queued", "expired"}]
      BY <3>1 DEF KernelInv, TypeOK
    <3>4. pc' \in [Threads -> {"run", "pend", "sleep"}]
      BY <3>1 DEF KernelInv, TypeOK
    <3>. QED  BY <2>6, <3>2, <3>3, <3>4 DEF KernelInv, TypeOK, RestOK
  <2>. HIDE DEF k
  <2>8. NoWait(k)
    BY <2>5 DEF NoWait, KernelInv, NoWaiterWithCount
  <2>9. Good(k)
    BY <2>4, <2>5, <2>8, TablesLike
  <2>. QED  BY <2>2, <2>6, <2>7, <2>9, CallStep
<1>. QED  BY <1>1, <1>2

(* A post finds a waiter, and then the count is 0, or counts.              *)
LEMMA SemaphorePostStep ==
    ASSUME KernelInv, NEW s \in Semaphores, SemaphorePost(s)
    PROVE  KernelInv'
<1>. DEFINE p == QueueMin(pending[s])
            k == [Tables EXCEPT
                    !.pending[s] = QueueDelete(@, p),
                    !.run = QueueInsert(@, p),
                    !.granted = [t \in Threads |-> @[t] \/ t \in Waiter(s, p)]]
            posted == (count[s] + 1) % CountMod
<1>0. /\ p \in 0 .. PK_THREADS
      /\ p = PK_THREADS <=> pending[s] = {}
  BY QueueMinLemma DEF KernelInv, TypeOK
<1>. HIDE DEF p
<1>1. CASE p # PK_THREADS
  <2>1. Tables \in TablesType /\ NoWait(Tables)
    BY TablesGood DEF Good
  <2>2. /\ QueueInsert(run_queue, p) \in SUBSET PkPriority
        /\ QueueDelete(pending[s], p) \in SUBSET PkPriority
    BY <1>0, QueueTypes DEF KernelInv, TypeOK
  <2>3. k \in TablesType
    BY <2>1, <2>2 DEF TablesType, Tables
  <2>4. /\ k.state = state /\ k.priority = priority /\ k.map = priority_map
        /\ k.count = count
        /\ \A r \in Semaphores \ {s} : k.pending[r] = pending[r]
    BY DEF Tables
  <2>5. ~ (count[s] > 0)
    BY <1>0, <1>1 DEF KernelInv, NoWaiterWithCount
  <2>6. /\ Install(k) /\ Schedule(k, current) /\ UNCHANGED contextVars
        /\ UNCHANGED <<semaphore, timer, pc, panic>>
    BY <1>1 DEF SemaphorePost, p
  <2>7. RestOK' /\ current \in Threads \union {NULL}
    BY <2>6 DEF KernelInv, TypeOK, RestOK
  <2>. HIDE DEF k
  <2>8. NoWait(k)
    BY <2>4, <2>5 DEF NoWait, KernelInv, NoWaiterWithCount
  <2>9. Good(k)
    BY <2>3, <2>4, <2>8, TablesLike
  <2>. QED  BY <2>6, <2>7, <2>9, CallStep
<1>2. CASE p = PK_THREADS
  <2>1. /\ count' = [count EXCEPT ![s] = posted]
        /\ panic' = (MaxCount[s] > 0 /\ posted > MaxCount[s])
        /\ UNCHANGED <<state, priority, flags, priority_map, run_queue,
                       pending, granted, schedVars>>
        /\ UNCHANGED <<semaphore, timer, pc, contextVars>>
    BY <1>2 DEF SemaphorePost, p
  <2>2. posted \in 0 .. CountMod - 1
    BY KernelAssumption, SMTT(60) DEF KernelInv, TypeOK
  <2>. HIDE DEF posted
  <2>3. TypeOK'
    BY <2>1, <2>2 DEF KernelInv, TypeOK, schedVars, contextVars
  <2>4. PriorityMapExact'
    BY <2>1 DEF KernelInv, PriorityMapExact
  <2>5. NoWaiterWithCount'
    BY <1>0, <1>2, <2>1 DEF KernelInv, NoWaiterWithCount, TypeOK
  <2>. QED  BY <2>1, <2>3, <2>4, <2>5, QuietStep
<1>. QED  BY <1>1, <1>2

LEMMA SemaphoreReleaseAllStep ==
    ASSUME KernelInv, NEW s \in Semaphores, SemaphoreReleaseAll(s)
    PROVE  KernelInv'
<1>. DEFINE released == UNION {Waiter(s, p) : p \in pending[s]}
            k == [Tables EXCEPT
                    !.run = @ \union pending[s],
                    !.pending[s] = {},
                    !.granted = [t \in Threads |-> @[t] \/ t \in released]]
<1>1. Tables \in TablesType /\ NoWait(Tables)
  BY TablesGood DEF Good
<1>2. pending[s] \in SUBSET PkPriority
  BY DEF KernelInv, TypeOK
<1>3. /\ Install(k) /\ Schedule(k, current) /\ UNCHANGED contextVars
      /\ UNCHANGED <<semaphore, timer, pc, panic>>
  BY DEF SemaphoreReleaseAll
<1>. HIDE DEF released
<1>4. k \in TablesType
  BY <1>1, <1>2 DEF TablesType, Tables
<1>5. /\ k.state = state /\ k.priority = priority /\ k.map = priority_map
      /\ k.count = count /\ k.pending[s] = {}
      /\ \A r \in Semaphores \ {s} : k.pending[r] = pending[r]
  BY DEF Tables, KernelInv, TypeOK
<1>6. RestOK' /\ current \in Threads \union {NULL}
  BY <1>3 DEF KernelInv, TypeOK, RestOK
<1>. HIDE DEF k
<1>7. NoWait(k)
  BY <1>5 DEF NoWait, KernelInv, NoWaiterWithCount
<1>8. Good(k)
  BY <1>4, <1>5, <1>7, TablesLike
<1>. QED  BY <1>3, <1>6, <1>8, CallStep

LEMMA SemaphoreTakeStep ==
    ASSUME KernelInv, NEW s \in Semaphores, SemaphoreTake(s)
    PROVE  KernelInv'
<1>1. TypeOK'
  <2>1. count' \in [Semaphores -> 0 .. CountMod - 1]
    BY CountTakeType DEF SemaphoreTake, KernelInv, TypeOK
  <2>. QED  BY <2>1 DEF SemaphoreTake, KernelInv, TypeOK, schedVars, contextVars
<1>2. PriorityMapExact'
  BY DEF SemaphoreTake, KernelInv, PriorityMapExact
<1>3. NoWaiterWithCount'
  BY KernelAssumption DEF SemaphoreTake, KernelInv, NoWaiterWithCount, TypeOK
<1>. QED  BY <1>1, <1>2, <1>3, QuietStep DEF SemaphoreTake

LEMMA ReturnSteps ==
    ASSUME KernelInv, SleepReturn \/ SemaphorePendReturn
    PROVE  KernelInv'
<1>1. CASE SleepReturn
  <2>1. TypeOK'
    BY <1>1 DEF SleepReturn, KernelInv, TypeOK, schedVars, contextVars
  <2>2. PriorityMapExact' /\ NoWaiterWithCount'
    BY <1>1 DEF SleepReturn, KernelInv, PriorityMapExact, NoWaiterWithCount
  <2>. QED  BY <1>1, <2>1, <2>2, QuietStep DEF SleepReturn
<1>2. CASE SemaphorePendReturn
  <2>. DEFINE out == "TIMER_PEND" \in flags[current]
                     /\ "TIMED_OUT" \in flags[current]
  <2>1. /\ pending' = [pending EXCEPT ![semaphore[current]] =
                          IF out THEN QueueDelete(@, priority[current]) ELSE @]
        /\ timer' = [timer EXCEPT ![current] =
                        IF "TIMER_PEND" \in flags[current] /\ ~out
                           /\ @ = "queued" THEN "idle" ELSE @]
        /\ flags' = [flags EXCEPT ![current] =
                        @ \ ({"SEMAPHORE_PEND"} \union
                             IF "TIMER_PEND" \in flags[current]
                             THEN {"TIMER_PEND", "TIMED_OUT"} ELSE {})]
        /\ pc' = [pc EXCEPT ![current] = "run"]
        /\ UNCHANGED <<state, priority, priority_map, run_queue, count,
                       granted, semaphore, schedVars, contextVars, panic>>
    BY <1>2 DEF SemaphorePendReturn
  <2>. HIDE DEF out
  <2>2. /\ pending' \in [Semaphores -> SUBSET PkPriority]
        /\ \A s \in Semaphores : pending'[s] \subseteq pending[s]
    BY <2>1 DEF KernelInv, TypeOK, QueueDelete
  <2>3. timer' \in [Threads -> {"idle", "queued", "expired"}]
    BY <2>1 DEF KernelInv, TypeOK
  <2>4. flags' \in [Threads -> SUBSET {"SEMAPHORE_PEND", "TIMER_PEND",
                                       "TIMED_OUT"}]
    BY <2>1 DEF KernelInv, TypeOK
  <2>5. TypeOK'
    BY <2>1, <2>2, <2>3, <2>4 DEF KernelInv, TypeOK, schedVars, contextVars
  <2>6. PriorityMapExact'
    BY <2>1 DEF KernelInv, PriorityMapExact
  <2>7. NoWaiterWithCount'
    BY <2>1, <2>2 DEF KernelInv, NoWaiterWithCount
  <2>. QED  BY <2>1, <2>5, <2>6, <2>7, QuietStep
<1>. QED  BY <1>1, <1>2

LEMMA TimerExpireStep ==
    ASSUME KernelInv, NEW t \in Threads, TimerExpire(t)
    PROVE  KernelInv'
<1>. USE DEF TimerExpire, tableVars
<1>1. TypeOK'
  BY DEF KernelInv, TypeOK, schedVars, contextVars
<1>2. PriorityMapExact' /\ NoWaiterWithCount'
  BY DEF KernelInv, PriorityMapExact, NoWaiterWithCount
<1>. QED  BY <1>1, <1>2, QuietStep

(* __pk_thread_timeout only makes a thread runnable that is still mapped.  *)
LEMMA ThreadTimeoutStep ==
    ASSUME KernelInv, NEW t \in Threads, ThreadTimeout(t)
    PROVE  KernelInv'
<1>. DEFINE woken == [Tables EXCEPT !.flags[t] = @ \union {"TIMED_OUT"},
                                    !.run = QueueInsert(@, priority[t])]
            freed == [Tables EXCEPT !.flags[t] = @ \union {"TIMED_OUT"},
                                    !.state[t] = "SUSPENDED_RUNNABLE"]
<1>0. /\ timer' = [timer EXCEPT ![t] = "idle"]
      /\ UNCHANGED <<semaphore, pc, contextVars>>
      /\ Tables \in TablesType /\ NoWait(Tables)
  BY TablesGood DEF ThreadTimeout, Good
<1>1. CASE /\ IsMapped(t) /\ ~Runnable(Tables, t)
           /\ Install(woken) /\ Schedule(woken, current) /\ UNCHANGED panic
  <2>1. QueueInsert(run_queue, priority[t]) \in SUBSET PkPriority
    BY QueueTypes DEF KernelInv, TypeOK
  <2>2. Tables.run = run_queue /\ Tables.flags = flags
    BY DEF Tables
  <2>3. woken \in TablesType
    BY <1>0, <2>1, <2>2 DEF TablesType, Flags
  <2>4. /\ woken.state = state /\ woken.priority = priority
        /\ woken.map = priority_map /\ woken.count = count
        /\ woken.pending = pending
    BY DEF Tables
  <2>5. RestOK' /\ current \in Threads \union {NULL}
    BY <1>0, <1>1 DEF KernelInv, TypeOK, RestOK
  <2>. HIDE DEF woken
  <2>6. NoWait(woken)
    BY <2>4 DEF NoWait, KernelInv, NoWaiterWithCount
  <2>7. Good(woken)
    BY <2>3, <2>4, <2>6, TablesLike
  <2>. QED  BY <1>0, <1>1, <2>5, <2>7, CallStep
<1>2. CASE UNCHANGED <<tableVars, schedVars>> /\ panic' \in BOOLEAN
  <2>. USE <1>0, <1>2 DEF tableVars
  <2>1. TypeOK'
    BY DEF KernelInv, TypeOK, schedVars, contextVars
  <2>2. PriorityMapExact' /\ NoWaiterWithCount'
    BY DEF KernelInv, PriorityMapExact, NoWaiterWithCount
  <2>. QED  BY <2>1, <2>2, QuietStep
<1>3. CASE /\ state[t] = "SUSPENDED_BLOCKED" /\ Install(freed)
           /\ UNCHANGED <<schedVars, panic>>
  <2>1. freed \in TablesType
    BY <1>0 DEF TablesType, Flags, ThreadStates
  <2>2. /\ freed.state = [state EXCEPT ![t] = "SUSPENDED_RUNNABLE"]
        /\ freed.priority = priority /\ freed.map = priority_map
        /\ freed.count = count /\ freed.pending = pending
        /\ freed.run = run_queue
    BY DEF Tables
  <2>3. RestOK'
    BY <1>0, <1>3 DEF KernelInv, TypeOK, RestOK
  <2>. HIDE DEF freed
  <2>4. TypeOK'
    BY <1>0, <1>3, <2>1, <2>3
       DEF TablesType, Install, RestOK, TypeOK, KernelInv, ThreadStates, Flags,
           schedVars, contextVars
  <2>5. PriorityMapExact'
    BY <1>3, <2>2 DEF Install, KernelInv, PriorityMapExact, TypeOK
  <2>6. NoWaiterWithCount'
    BY <2>2, <1>3 DEF Install, KernelInv, NoWaiterWithCount
  <2>7. UNCHANGED <<priority_map, run_queue, schedVars, contextVars>>
    BY <1>0, <1>3, <2>2 DEF Install
  <2>. QED  BY <2>4, <2>5, <2>6, <2>7, QuietStep
<1>. QED  BY <1>0, <1>1, <1>2, <1>3 DEF ThreadTimeout, KernelInv, TypeOK

-----------------------------------------------------------------------------
LEMMA NextInv == KernelInv /\ [Next]_vars => KernelInv'
<1>. SUFFICES ASSUME KernelInv, [Next]_vars PROVE KernelInv'
  OBVIOUS
<1>1. CASE StartThreads \/ InterruptEntry \/ InterruptExit
  BY <1>1, ContextSteps
<1>2. CASE Complete
  <2>1. current \in Threads
    BY <1>2 DEF Complete, InThread, KernelInv, TypeOK
  <2>. QED  BY <1>2, <2>1, RemoveStep DEF Complete
<1>3. CASE Sleep
  BY <1>3, SleepStep
<1>4. CASE SleepReturn \/ SemaphorePendReturn
  BY <1>4, ReturnSteps
<1>5. CASE \E t \in Threads : Resume(t)
  BY <1>5, ResumeStep
<1>6. CASE \E t \in Threads : Suspend(t)
  BY <1>6, SuspendStep
<1>7. CASE \E t \in Threads : Delete(t)
  BY <1>7, RemoveStep DEF Delete
<1>8. CASE \E t \in Threads : TimerExpire(t)
  BY <1>8, TimerExpireStep
<1>9. CASE \E t \in Threads : ThreadTimeout(t)
  BY <1>9, ThreadTimeoutStep
<1>10. CASE \E t \in Threads, p \in PkPriority : Create(t, p)
  BY <1>10, CreateStep
<1>11. CASE \E t \in Threads, p \in NewPriorities : PriorityChange(t, p)
  BY <1>11, PriorityChangeStep
<1>12. CASE \E t \in Threads, u \in Threads : PrioritySwap(t, u)
  BY <1>12, PrioritySwapStep
<1>13. CASE \E s \in Semaphores : SemaphorePost(s)
  BY <1>13, SemaphorePostStep
<1>14. CASE \E s \in Semaphores : SemaphoreReleaseAll(s)
  BY <1>14, SemaphoreReleaseAllStep
<1>15. CASE \E s \in Semaphores : SemaphoreTake(s)
  BY <1>15, SemaphoreTakeStep
<1>16. CASE \E s \in Semaphores, timeout \in Timeouts : SemaphorePend(s, timeout)
  BY <1>16, SemaphorePendStep
<1>17. CASE UNCHANGED vars
  <2>. USE <1>17 DEF vars, tableVars, schedVars, contextVars
  <2>1. TypeOK'
    BY DEF KernelInv, TypeOK
  <2>2. PriorityMapExact' /\ NoWaiterWithCount'
    BY DEF KernelInv, PriorityMapExact, NoWaiterWithCount
  <2>. QED  BY <2>1, <2>2, QuietStep
<1>. QED  BY <1>1, <1>2, <1>3, <1>4, <1>5, <1>6, <1>7, <1>8, <1>9, <1>10, <1>11,
             <1>12, <1>13, <1>14, <1>15, <1>16, <1>17 DEF Next

(* The inductive invariant holds throughout.                               *)
THEOREM KernelInvariant == Spec => []KernelInv
<1>1. Init => KernelInv
  BY InitInv
<1>2. KernelInv /\ [Next]_vars => KernelInv'
  BY NextInv
<1>. QED  BY <1>1, <1>2, PTL DEF Spec

(* Type correctness: in particular the run queue and the semaphores'       *)
(* queues only ever hold real priorities, and the count never wraps below  *)
(* zero (pk_semaphore_core.c, pk_thread_core.c).                           *)
THEOREM TypeCorrect == Spec => []TypeOK
<1>1. KernelInv => TypeOK
  BY DEF KernelInv
<1>. QED  BY <1>1, KernelInvariant, PTL

(* A priority is claimed by exactly the mapped thread that has it: what    *)
(* pk_thread_resume, pk_thread_priority_change and pk_thread_priority_swap *)
(* check before they map is enough.                                        *)
THEOREM MapIsExact == Spec => []PriorityMapExact
<1>1. KernelInv => PriorityMapExact
  BY DEF KernelInv
<1>. QED  BY <1>1, KernelInvariant, PTL

(* Nobody waits on a semaphore with a count (pk_semaphore_core.c:58-100,   *)
(* 160-244, pk_thread_core.c:72-92).                                       *)
THEOREM NoMissedCount == Spec => []NoWaiterWithCount
<1>1. KernelInv => NoWaiterWithCount
  BY DEF KernelInv
<1>. QED  BY <1>1, KernelInvariant, PTL

(* Whenever no interrupt is being processed, the thread the engine runs is *)
(* the one the run queue demands: every deferred switch is performed on    *)
(* the way out of the interrupt (pk_thread_core.c:150-179,                 *)
(* ppe42_exceptions.S:473-558).                                            *)
THEOREM PriorityScheduling == Spec => []HighestPriorityRuns
<1>1. KernelInv => HighestPriorityRuns
  BY DEF KernelInv, NextIsBest, SwitchState, HighestPriorityRuns
<1>. QED  BY <1>1, KernelInvariant, PTL

-----------------------------------------------------------------------------
(* No blocked thread is lost, and what the queues of the semaphores say of *)
(* the threads is true: again of the tables first, on that invariant.  The *)
(* idle priority must not be claimed: a thread there is in no queue        *)
(* (MCPkKernelIdlePriority.cfg).                                           *)

Flagged(k, t) == "SEMAPHORE_PEND" \in k.flags[t]

(* What __pk_thread_map does, field by field.                              *)
LEMMA MapFields ==
    ASSUME NEW k \in TablesType, NEW t \in Threads,
           Flagged(k, t) => semaphore[t] \in Semaphores
    PROVE  LET m == MapThread(k, t)
               p == k.priority[t]
               s == semaphore[t]
           IN /\ m.priority = k.priority /\ m.flags = k.flags
              /\ m.map = [k.map EXCEPT ![p] = t]
              /\ m.state = [k.state EXCEPT ![t] = "MAPPED"]
              /\ \/ /\ k.state[t] = "SUSPENDED_RUNNABLE"
                    /\ m.run = QueueInsert(k.run, p)
                    /\ m.pending = k.pending /\ m.granted = k.granted
                 \/ /\ k.state[t] # "SUSPENDED_RUNNABLE" /\ Flagged(k, t)
                    /\ m.run = QueueInsert(k.run, p)
                    /\ m.pending = k.pending
                    /\ m.granted = [k.granted EXCEPT ![t] = TRUE]
                 \/ /\ k.state[t] # "SUSPENDED_RUNNABLE" /\ Flagged(k, t)
                    /\ m.run = k.run /\ m.granted = k.granted
                    /\ m.pending = [k.pending EXCEPT ![s] = QueueInsert(@, p)]
                 \/ /\ k.state[t] # "SUSPENDED_RUNNABLE" /\ ~Flagged(k, t)
                    /\ m.run = k.run /\ m.granted = k.granted
                    /\ m.pending = k.pending
  <1> DEFINE m == MapThread(k, t)
             c == Claim(k, t)
             p == k.priority[t]
             s == semaphore[t]
  <1>1. /\ c \in TablesType /\ c.run = k.run /\ c.pending = k.pending
        /\ c.map = [k.map EXCEPT ![p] = t]
        /\ c.state = [k.state EXCEPT ![t] = "MAPPED"]
        /\ c.priority = k.priority
    BY ClaimFields
  <1>2. c.flags = k.flags /\ c.granted = k.granted
    BY DEF Claim, TablesType
  <1>3. m.map = c.map /\ m.state = c.state /\ m.priority = c.priority
    BY <1>1, MapThreadMap
  <1>4. CASE k.state[t] = "SUSPENDED_RUNNABLE"
    <2>1. m = [c EXCEPT !.run = QueueInsert(@, p)]
      BY <1>4 DEF MapThread
    <2> HIDE DEF m, c
    <2>2. /\ m.run = QueueInsert(c.run, p) /\ m.pending = c.pending
          /\ m.granted = c.granted /\ m.flags = c.flags
      BY <1>1, <2>1 DEF TablesType
    <2> QED BY <1>1, <1>2, <1>3, <1>4, <2>2 DEF m
  <1>5. CASE k.state[t] # "SUSPENDED_RUNNABLE" /\ ~Flagged(k, t)
    <2>1. m = c
      BY <1>5 DEF MapThread, Flagged
    <2> QED BY <1>1, <1>2, <1>3, <1>5, <2>1
  <1>6. CASE k.state[t] # "SUSPENDED_RUNNABLE" /\ Flagged(k, t) /\ k.count[s] > 0
    <2>1. m = [c EXCEPT !.count[s] = @ - 1, !.granted[t] = TRUE,
                        !.run = QueueInsert(@, p)]
      BY <1>6 DEF MapThread, Flagged
    <2> HIDE DEF m, c
    <2>2. /\ m.run = QueueInsert(c.run, p) /\ m.pending = c.pending
          /\ m.granted = [c.granted EXCEPT ![t] = TRUE] /\ m.flags = c.flags
      BY <1>1, <2>1 DEF TablesType
    <2> QED BY <1>1, <1>2, <1>3, <1>6, <2>2 DEF m
  <1>7. CASE k.state[t] # "SUSPENDED_RUNNABLE" /\ Flagged(k, t) /\ k.count[s] = 0
    <2>1. m = [c EXCEPT !.pending[s] = QueueInsert(@, p)]
      BY <1>7 DEF MapThread, Flagged
    <2> HIDE DEF m, c
    <2>2. /\ m.run = c.run /\ m.granted = c.granted /\ m.flags = c.flags
          /\ m.pending = [c.pending EXCEPT ![s] = QueueInsert(@, p)]
      BY <1>1, <2>1 DEF TablesType
    <2> QED BY <1>1, <1>2, <1>3, <1>7, <2>2 DEF m
  <1>8. Flagged(k, t) => k.count[s] \in Nat
    BY KernelAssumption DEF TablesType
  <1> QED BY <1>4, <1>5, <1>6, <1>7, <1>8

(* What __pk_thread_unmap does, field by field.                            *)
LEMMA UnmapFields ==
    ASSUME NEW k \in TablesType, NEW t \in Threads
    PROVE  LET n == UnmapThread(k, t)
               p == k.priority[t]
               s == semaphore[t]
           IN /\ n.priority = k.priority /\ n.flags = k.flags
              /\ n.granted = k.granted
              /\ n.map = [k.map EXCEPT ![p] = NULL]
              /\ \/ /\ p \in k.run
                    /\ n.state = [k.state EXCEPT ![t] = "SUSPENDED_RUNNABLE"]
                    /\ n.run = QueueDelete(k.run, p) /\ n.pending = k.pending
                 \/ /\ p \notin k.run /\ Flagged(k, t)
                    /\ n.state = [k.state EXCEPT ![t] = "SUSPENDED_BLOCKED"]
                    /\ n.run = k.run
                    /\ n.pending = [k.pending EXCEPT ![s] = QueueDelete(@, p)]
                 \/ /\ p \notin k.run /\ ~Flagged(k, t)
                    /\ n.state = [k.state EXCEPT ![t] = "SUSPENDED_BLOCKED"]
                    /\ n.run = k.run /\ n.pending = k.pending
  <1> DEFINE n == UnmapThread(k, t)
             p == k.priority[t]
             s == semaphore[t]
             u == [k EXCEPT !.map[p] = NULL]
  <1>1. /\ u \in TablesType /\ u.map = [k.map EXCEPT ![p] = NULL]
        /\ u.run = k.run /\ u.pending = k.pending /\ u.granted = k.granted
        /\ u.state = k.state /\ u.priority = k.priority /\ u.flags = k.flags
    BY DEF TablesType
  <1>2. CASE Runnable(k, t)
    <2>1. n = [u EXCEPT !.state[t] = "SUSPENDED_RUNNABLE",
                        !.run = QueueDelete(@, p)]
      BY <1>2 DEF UnmapThread
    <2> HIDE DEF n, u
    <2>2. /\ n.priority = u.priority /\ n.flags = u.flags
          /\ n.granted = u.granted /\ n.map = u.map
          /\ n.state = [u.state EXCEPT ![t] = "SUSPENDED_RUNNABLE"]
          /\ n.run = QueueDelete(u.run, p) /\ n.pending = u.pending
      BY <1>1, <2>1 DEF TablesType
    <2> QED BY <1>1, <1>2, <2>2 DEF n, Runnable
  <1>3. CASE ~Runnable(k, t) /\ Flagged(k, t)
    <2>1. n = [u EXCEPT !.state[t] = "SUSPENDED_BLOCKED",
                        !.pending[s] = QueueDelete(@, p)]
      BY <1>3 DEF UnmapThread, Flagged
    <2> HIDE DEF n, u
    <2>2. /\ n.priority = u.priority /\ n.flags = u.flags
          /\ n.granted = u.granted /\ n.map = u.map
          /\ n.state = [u.state EXCEPT ![t] = "SUSPENDED_BLOCKED"]
          /\ n.run = u.run
          /\ n.pending = [u.pending EXCEPT ![s] = QueueDelete(@, p)]
      BY <1>1, <2>1 DEF TablesType
    <2> QED BY <1>1, <1>3, <2>2 DEF n, Runnable
  <1>4. CASE ~Runnable(k, t) /\ ~Flagged(k, t)
    <2>1. n = [u EXCEPT !.state[t] = "SUSPENDED_BLOCKED"]
      BY <1>4 DEF UnmapThread, Flagged
    <2> HIDE DEF n, u
    <2>2. /\ n.priority = u.priority /\ n.flags = u.flags
          /\ n.granted = u.granted /\ n.map = u.map
          /\ n.state = [u.state EXCEPT ![t] = "SUSPENDED_BLOCKED"]
          /\ n.run = u.run /\ n.pending = u.pending
      BY <1>1, <2>1 DEF TablesType
    <2> QED BY <1>1, <1>4, <2>2 DEF n, Runnable
  <1> QED BY <1>2, <1>3, <1>4

-----------------------------------------------------------------------------
(* No blocked thread is lost.                                              *)
Blocked(k, t) ==
    \/ k.state[t] = "MAPPED" /\ k.priority[t] \notin k.run
    \/ k.state[t] = "SUSPENDED_BLOCKED"
Waits(k, sem, t) ==
    /\ Flagged(k, t)
    /\ k.state[t] = "MAPPED" => k.priority[t] \in k.pending[sem[t]]

(* In the tables k, with the semaphores sem and the timers tm.             *)
Wakeable(k, sem, tm) ==
    \A t \in Threads :
        /\ k.priority[t] \in PkPriority
        /\ Flagged(k, t) => sem[t] \in Semaphores
        /\ Blocked(k, t) => Waits(k, sem, t) \/ tm[t] # "idle"

Active(k, t) == k.state[t] \notin {"COMPLETED", "DELETED"}

LEMMA MapWakeable ==
    ASSUME NEW k, Good(k), NEW t \in Threads, NEW tm,
           Wakeable(k, semaphore, tm),
           k.state[t] # "MAPPED", Active(k, t)
    PROVE  Wakeable(MapThread(k, t), semaphore, tm)
  <1> DEFINE m == MapThread(k, t)
             p == k.priority[t]
             s == semaphore[t]
  <1>1. k \in TablesType /\ p \in PkPriority
        /\ (Flagged(k, t) => s \in Semaphores)
    BY DEF Good, Wakeable
  <1>2. /\ m.priority = k.priority /\ m.flags = k.flags
        /\ m.state = [k.state EXCEPT ![t] = "MAPPED"]
        /\ \/ /\ k.state[t] = "SUSPENDED_RUNNABLE"
              /\ m.run = QueueInsert(k.run, p) /\ m.pending = k.pending
           \/ /\ Flagged(k, t)
              /\ m.run = QueueInsert(k.run, p) /\ m.pending = k.pending
           \/ /\ Flagged(k, t) /\ m.run = k.run
              /\ m.pending = [k.pending EXCEPT ![s] = QueueInsert(@, p)]
           \/ /\ k.state[t] # "SUSPENDED_RUNNABLE" /\ ~Flagged(k, t)
              /\ m.run = k.run /\ m.pending = k.pending
    BY <1>1, MapFields, ZenonT(120)
  <1>3. QueueInsert(k.run, p) = k.run \union {p}
    BY <1>1, KernelAssumption DEF QueueInsert, PkPriority
  <1>4. k.state[t] \in {"SUSPENDED_RUNNABLE", "SUSPENDED_BLOCKED"}
    BY <1>1 DEF Active, TablesType, ThreadStates
  <1>41. \A r \in Semaphores : k.pending[r] \subseteq m.pending[r]
    <2>1. k.pending \in [Semaphores -> SUBSET PkPriority]
      BY <1>1 DEF TablesType
    <2>2. CASE m.pending = k.pending
      BY <2>2
    <2>3. CASE m.pending = [k.pending EXCEPT ![s] = QueueInsert(@, p)]
      BY <2>1, <2>3 DEF QueueInsert
    <2> QED BY <1>2, <2>2, <2>3
  <1> HIDE DEF m
  <1>5. ASSUME NEW u \in Threads
        PROVE  /\ m.priority[u] \in PkPriority
               /\ Flagged(m, u) => semaphore[u] \in Semaphores
    BY <1>2 DEF Wakeable, Flagged
  <1>6. ASSUME NEW u \in Threads \ {t}, Blocked(m, u)
        PROVE  Waits(m, semaphore, u) \/ tm[u] # "idle"
    <2>1. m.state[u] = k.state[u] /\ k.run \subseteq m.run
      BY <1>1, <1>2, <1>3 DEF TablesType
    <2>2. Blocked(k, u)
      BY <1>2, <1>6, <2>1 DEF Blocked
    <2>3. Waits(k, semaphore, u) \/ tm[u] # "idle"
      BY <2>2 DEF Wakeable
    <2>4. ASSUME Waits(k, semaphore, u) PROVE Waits(m, semaphore, u)
      <3>1. Flagged(m, u) /\ semaphore[u] \in Semaphores
        BY <1>2, <2>4 DEF Waits, Flagged, Wakeable
      <3>2. k.pending[semaphore[u]] \subseteq m.pending[semaphore[u]]
        BY <1>41, <3>1
      <3> QED BY <1>2, <2>1, <2>4, <3>1, <3>2 DEF Waits
    <2> QED BY <2>3, <2>4
  <1>7. ASSUME Blocked(m, t)
        PROVE  Waits(m, semaphore, t) \/ tm[t] # "idle"
    <2>1. m.state[t] = "MAPPED" /\ p \notin m.run
      BY <1>1, <1>2, <1>7 DEF Blocked, TablesType
    <2>2. CASE Flagged(k, t)
      <3>1. m.pending = [k.pending EXCEPT ![s] = QueueInsert(@, p)]
        BY <1>2, <1>3, <2>1, <2>2
      <3>2. p \in m.pending[s]
        BY <1>1, <2>2, <3>1, KernelAssumption DEF TablesType, QueueInsert, PkPriority
      <3> QED BY <1>2, <2>2, <3>2 DEF Waits, Flagged
    <2>3. CASE ~Flagged(k, t)
      <3>1. k.state[t] = "SUSPENDED_BLOCKED"
        BY <1>2, <1>3, <1>4, <2>1, <2>3
      <3> QED BY <2>3, <3>1 DEF Wakeable, Blocked, Waits
    <2> QED BY <2>2, <2>3
  <1> QED BY <1>5, <1>6, <1>7 DEF Wakeable, m

LEMMA UnmapWakeable ==
    ASSUME NEW k, Good(k), NEW t \in Threads, NEW tm,
           Wakeable(k, semaphore, tm), k.state[t] = "MAPPED"
    PROVE  /\ Wakeable(UnmapThread(k, t), semaphore, tm)
           /\ Active(UnmapThread(k, t), t)
  <1> DEFINE n == UnmapThread(k, t)
             p == k.priority[t]
             s == semaphore[t]
  <1>1. k \in TablesType /\ Exact(k) /\ p \in PkPriority
        /\ (Flagged(k, t) => s \in Semaphores)
    BY DEF Good, Wakeable
  <1>2. /\ n.priority = k.priority /\ n.flags = k.flags
        /\ \/ /\ n.state = [k.state EXCEPT ![t] = "SUSPENDED_RUNNABLE"]
              /\ n.run = QueueDelete(k.run, p) /\ n.pending = k.pending
           \/ /\ Flagged(k, t)
              /\ n.state = [k.state EXCEPT ![t] = "SUSPENDED_BLOCKED"]
              /\ n.run = k.run
              /\ n.pending = [k.pending EXCEPT ![s] = QueueDelete(@, p)]
           \/ /\ p \notin k.run /\ ~Flagged(k, t)
              /\ n.state = [k.state EXCEPT ![t] = "SUSPENDED_BLOCKED"]
              /\ n.run = k.run /\ n.pending = k.pending
    BY <1>1, UnmapFields
  <1> HIDE DEF n
  <1>3. ASSUME NEW u \in Threads
        PROVE  /\ n.priority[u] \in PkPriority
               /\ Flagged(n, u) => semaphore[u] \in Semaphores
    BY <1>2 DEF Wakeable, Flagged
  <1>4. ASSUME NEW u \in Threads \ {t}, Blocked(n, u)
        PROVE  Waits(n, semaphore, u) \/ tm[u] # "idle"
    <2>1. n.state[u] = k.state[u]
      BY <1>1, <1>2 DEF TablesType
    <2>2. k.state[u] = "MAPPED" => k.priority[u] # p
      <3>1. k.priority[u] \in 0 .. PK_THREADS
        BY <1>1 DEF TablesType
      <3> QED BY <1>1, <3>1 DEF Exact
    <2>3. Blocked(k, u)
      BY <1>2, <1>4, <2>1, <2>2 DEF Blocked, QueueDelete
    <2>4. Waits(k, semaphore, u) \/ tm[u] # "idle"
      BY <2>3 DEF Wakeable
    <2>5. ASSUME Waits(k, semaphore, u) PROVE Waits(n, semaphore, u)
      <3>1. Flagged(n, u) /\ semaphore[u] \in Semaphores
        BY <1>2, <2>5 DEF Waits, Flagged, Wakeable
      <3>2. k.pending[semaphore[u]] \ {p} \subseteq n.pending[semaphore[u]]
        BY <1>1, <1>2, <3>1, ZenonT(120) DEF TablesType, QueueDelete
      <3> QED BY <1>2, <2>1, <2>2, <2>5, <3>1, <3>2 DEF Waits
    <2> QED BY <2>4, <2>5
  <1>5. ASSUME Blocked(n, t)
        PROVE  Waits(n, semaphore, t) \/ tm[t] # "idle"
    <2>1. n.state[t] = "SUSPENDED_BLOCKED" /\ (Flagged(k, t) \/ p \notin k.run)
      BY <1>1, <1>2, <1>5 DEF Blocked, TablesType
    <2>2. CASE Flagged(k, t)
      BY <1>2, <2>1, <2>2 DEF Waits, Flagged
    <2>3. CASE ~Flagged(k, t)
      BY <2>1, <2>3 DEF Wakeable, Blocked, Waits
    <2> QED BY <2>2, <2>3
  <1>6. Active(n, t)
    BY <1>1, <1>2 DEF Active, TablesType
  <1> QED BY <1>3, <1>4, <1>5, <1>6 DEF Wakeable, n

-----------------------------------------------------------------------------
(* The invariant of the first theorem, and the steps that preserve it.     *)
WakeInv == KernelInv /\ Wakeable(Tables, semaphore, timer)

LEMMA TablesFields ==
    /\ Tables.state = state /\ Tables.priority = priority
    /\ Tables.flags = flags /\ Tables.map = priority_map
    /\ Tables.run = run_queue /\ Tables.pending = pending
    /\ Tables.count = count /\ Tables.granted = granted
  BY DEF Tables

LEMMA TablesFieldsNext ==
    /\ Tables'.state = state' /\ Tables'.priority = priority'
    /\ Tables'.flags = flags' /\ Tables'.map = priority_map'
    /\ Tables'.run = run_queue' /\ Tables'.pending = pending'
    /\ Tables'.count = count' /\ Tables'.granted = granted'
  BY DEF Tables

LEMMA WakeInstalled ==
    ASSUME NEW k, Install(k), Wakeable(k, semaphore', timer')
    PROVE  Wakeable(Tables, semaphore, timer)'
  <1>1. /\ Tables'.state = k.state /\ Tables'.priority = k.priority
        /\ Tables'.flags = k.flags /\ Tables'.run = k.run
        /\ Tables'.pending = k.pending
    BY TablesFieldsNext DEF Install
  <1> HIDE DEF Tables
  <1> QED BY <1>1 DEF Wakeable, Blocked, Waits, Flagged

LEMMA WakeQuiet ==
    ASSUME WakeInv, UNCHANGED <<state, priority, flags, run_queue, pending,
                                semaphore>>,
           \A t \in Threads : timer'[t] = "idle" =>
              timer[t] = "idle" \/ ~Blocked(Tables, t)
    PROVE  Wakeable(Tables, semaphore, timer)'
  <1>1. /\ Tables'.state = Tables.state /\ Tables'.priority = Tables.priority
        /\ Tables'.flags = Tables.flags /\ Tables'.run = Tables.run
        /\ Tables'.pending = Tables.pending
    BY TablesFieldsNext, TablesFields
  <1> HIDE DEF Tables
  <1> QED BY <1>1 DEF WakeInv, Wakeable, Blocked, Waits, Flagged

(* The thread that runs is queued to run.                                  *)
LEMMA RunningIsQueued ==
    ASSUME KernelInv, \A t \in Threads : priority[t] \in PkPriority, InThread
    PROVE  /\ current \in Threads /\ state[current] = "MAPPED"
           /\ priority[current] \in run_queue
           /\ \A t \in Threads \ {current} :
                 state[t] = "MAPPED" => priority[t] # priority[current]
  <1> DEFINE p == QueueMin(run_queue)
  <1>1. current \in Threads /\ run_queue \in SUBSET PkPriority
        /\ priority \in [Threads -> 0 .. PK_THREADS]
    BY DEF InThread, KernelInv, TypeOK
  <1>2. /\ p \in 0 .. PK_THREADS /\ (run_queue # {} => p \in run_queue)
        /\ (p = PK_THREADS <=> run_queue = {})
    BY <1>1, QueueMinLemma
  <1>3. current = priority_map[p]
    BY DEF InThread, KernelInv, NextIsBest, SwitchState
  <1> HIDE DEF p
  <1>4. state[current] = "MAPPED" /\ priority[current] = p
    BY <1>1, <1>2, <1>3 DEF KernelInv, PriorityMapExact
  <1>5. p # PK_THREADS
    <2>1. p \in PkPriority
      BY <1>1, <1>4
    <2> QED BY <2>1, KernelAssumption DEF PkPriority
  <1>6. \A t \in Threads : state[t] = "MAPPED" /\ priority[t] = p => t = current
    BY <1>2, <1>3 DEF KernelInv, PriorityMapExact
  <1> QED BY <1>1, <1>2, <1>4, <1>5, <1>6

LEMMA WakeRunning ==
    ASSUME WakeInv, InThread
    PROVE  /\ current \in Threads /\ state[current] = "MAPPED"
           /\ priority[current] \in run_queue
           /\ \A t \in Threads \ {current} :
                 state[t] = "MAPPED" => priority[t] # priority[current]
  <1>1. \A t \in Threads : priority[t] \in PkPriority
    BY TablesFields DEF WakeInv, Wakeable
  <1> QED BY <1>1, RunningIsQueued DEF WakeInv

LEMMA WakeCreate ==
    ASSUME WakeInv, NEW t \in Threads, NEW p \in PkPriority, Create(t, p)
    PROVE  Wakeable(Tables, semaphore, timer)'
  <1>1. /\ state' = [state EXCEPT ![t] = "SUSPENDED_RUNNABLE"]
        /\ priority' = [priority EXCEPT ![t] = p]
        /\ flags' = [flags EXCEPT ![t] = {}]
        /\ semaphore' = [semaphore EXCEPT ![t] = NULL]
        /\ timer' = [timer EXCEPT ![t] = "idle"]
        /\ UNCHANGED <<run_queue, pending>>
        /\ TypeOK
    BY DEF Create, WakeInv, KernelInv
  <1>2. ASSUME NEW u \in Threads \ {t}
        PROVE  /\ priority'[u] = priority[u] /\ flags'[u] = flags[u]
               /\ state'[u] = state[u] /\ semaphore'[u] = semaphore[u]
               /\ timer'[u] = timer[u]
    BY <1>1 DEF TypeOK
  <1>3. /\ priority'[t] = p /\ flags'[t] = {}
        /\ state'[t] = "SUSPENDED_RUNNABLE"
    BY <1>1 DEF TypeOK
  <1> QED BY <1>1, <1>2, <1>3, TablesFields, TablesFieldsNext
          DEF WakeInv, Wakeable, Blocked, Waits, Flagged

LEMMA WakeResume ==
    ASSUME WakeInv, NEW t \in Threads, Resume(t)
    PROVE  Wakeable(Tables, semaphore, timer)'
  <1>1. CASE ~IsActive(t) \/ priority_map[priority[t]] # NULL
    BY <1>1, WakeQuiet DEF Resume, Panic, tableVars
  <1>2. CASE IsActive(t) /\ priority_map[priority[t]] = NULL
    <2>1. Install(MapThread(Tables, t)) /\ UNCHANGED <<semaphore, timer>>
      BY <1>2 DEF Resume
    <2>2. Tables.state[t] # "MAPPED" /\ Active(Tables, t)
      BY <1>2, TablesFields DEF Resume, IsMapped, IsActive, Active
    <2>3. Wakeable(MapThread(Tables, t), semaphore, timer)
      BY <2>2, TablesGood, MapWakeable DEF WakeInv
    <2> QED BY <2>1, <2>3, WakeInstalled
  <1> QED BY <1>1, <1>2

LEMMA WakeSuspend ==
    ASSUME WakeInv, NEW t \in Threads, Suspend(t)
    PROVE  Wakeable(Tables, semaphore, timer)'
  <1>1. CASE ~IsActive(t)
    BY <1>1, WakeQuiet DEF Suspend, Panic, tableVars
  <1>2. CASE IsActive(t)
    <2>1. Install(UnmapThread(Tables, t)) /\ UNCHANGED <<semaphore, timer>>
      BY <1>2 DEF Suspend
    <2>2. Tables.state[t] = "MAPPED"
      BY <1>2, TablesFields DEF Suspend, IsActive
    <2>3. Wakeable(UnmapThread(Tables, t), semaphore, timer)
      BY <2>2, TablesGood, UnmapWakeable DEF WakeInv
    <2> QED BY <2>1, <2>3, WakeInstalled
  <1> QED BY <1>1, <1>2

LEMMA WakeRemove ==
    ASSUME WakeInv, NEW t \in Threads, NEW final \in {"COMPLETED", "DELETED"},
           Remove(t, final)
    PROVE  Wakeable(Tables, semaphore, timer)'
  <1> DEFINE g == IF IsMapped(t) THEN UnmapThread(Tables, t) ELSE Tables
             k == [g EXCEPT !.state[t] = final]
  <1>1. Install(k) /\ UNCHANGED semaphore
        /\ timer' = [timer EXCEPT ![t] = IF @ = "queued" THEN "idle" ELSE @]
    BY DEF Remove
  <1>2. g \in TablesType /\ Wakeable(g, semaphore, timer)
    <2>1. CASE IsMapped(t)
      <3>1. Tables.state[t] = "MAPPED"
        BY <2>1, TablesFields DEF IsMapped
      <3> QED BY <2>1, <3>1, TablesGood, UnmapWakeable, UnmapThreadGood
              DEF WakeInv, Good
    <2>2. CASE ~IsMapped(t)
      BY <2>2, TablesGood DEF WakeInv, Good
    <2> QED BY <2>1, <2>2
  <1> HIDE DEF g
  <1>3. /\ k.priority = g.priority /\ k.flags = g.flags /\ k.run = g.run
        /\ k.pending = g.pending /\ k.state = [g.state EXCEPT ![t] = final]
    BY <1>2 DEF TablesType
  <1> HIDE DEF k
  <1>4. ~Blocked(k, t)
    BY <1>2, <1>3 DEF Blocked, TablesType
  <1>5. ASSUME NEW u \in Threads \ {t}
        PROVE  k.state[u] = g.state[u] /\ timer'[u] = timer[u]
    BY <1>1, <1>2, <1>3 DEF TablesType, WakeInv, KernelInv, TypeOK
  <1>6. Wakeable(k, semaphore', timer')
    BY <1>1, <1>2, <1>3, <1>4, <1>5 DEF Wakeable, Blocked, Waits, Flagged
  <1> QED BY <1>1, <1>6, WakeInstalled

LEMMA WakePriorityChange ==
    ASSUME WakeInv, PK_THREADS \notin NewPriorities,
           NEW t \in Threads, NEW p \in NewPriorities, PriorityChange(t, p)
    PROVE  Wakeable(Tables, semaphore, timer)'
  <1>0. p \in PkPriority /\ p \in 0 .. PK_THREADS
    BY KernelAssumption DEF PkPriority
  <1>1. CASE ~IsMapped(t)
    <2>1. /\ priority' = [priority EXCEPT ![t] = p]
          /\ UNCHANGED <<state, flags, run_queue, pending, semaphore, timer>>
          /\ priority \in [Threads -> 0 .. PK_THREADS] /\ state[t] # "MAPPED"
      BY <1>1 DEF PriorityChange, WakeInv, KernelInv, TypeOK, IsMapped
    <2>2. \A u \in Threads : priority'[u] = IF u = t THEN p ELSE priority[u]
      BY <2>1
    <2> QED BY <1>0, <2>1, <2>2, TablesFields, TablesFieldsNext
            DEF WakeInv, Wakeable, Blocked, Waits, Flagged
  <1>2. CASE IsMapped(t) /\ priority_map[p] # NULL
    BY <1>2, WakeQuiet DEF PriorityChange, Panic, tableVars
  <1>3. CASE IsMapped(t) /\ priority_map[p] = NULL
    <2> DEFINE u == UnmapThread(Tables, t)
               m == [u EXCEPT !.priority[t] = p]
               k == MapThread(m, t)
    <2>1. Install(k) /\ UNCHANGED <<semaphore, timer>>
      BY <1>3 DEF PriorityChange
    <2>2. Tables.state[t] = "MAPPED"
      BY <1>3, TablesFields DEF IsMapped
    <2>3. /\ Good(u) /\ Wakeable(u, semaphore, timer) /\ Active(u, t)
          /\ u.state[t] # "MAPPED"
      BY <2>2, TablesGood, UnmapWakeable, UnmapThreadGood DEF WakeInv
    <2> HIDE DEF u
    <2>4. /\ m \in TablesType
          /\ m.priority = [u.priority EXCEPT ![t] = p]
          /\ m.state = u.state /\ m.flags = u.flags /\ m.run = u.run
          /\ m.pending = u.pending /\ m.map = u.map /\ m.count = u.count
      BY <1>0, <2>3 DEF Good, TablesType
    <2> HIDE DEF m
    <2>5. \A v \in Threads : m.priority[v] = IF v = t THEN p ELSE u.priority[v]
      BY <2>3, <2>4 DEF Good, TablesType
    <2>6. Good(m)
      BY <2>3, <2>4, <2>5 DEF Good, Exact, NoWait
    <2>7. Wakeable(m, semaphore, timer) /\ Active(m, t) /\ m.state[t] # "MAPPED"
      BY <1>0, <2>3, <2>4, <2>5 DEF Wakeable, Blocked, Waits, Flagged, Active
    <2>8. Wakeable(k, semaphore, timer)
      BY <2>6, <2>7, MapWakeable
    <2> QED BY <2>1, <2>8, WakeInstalled
  <1> QED BY <1>1, <1>2, <1>3

LEMMA WakePrioritySwap ==
    ASSUME WakeInv, NEW a \in Threads, NEW b \in Threads, PrioritySwap(a, b)
    PROVE  Wakeable(Tables, semaphore, timer)'
  <1>1. CASE SwapInUse(a, b)
    BY <1>1, SwapInstalls, WakeQuiet DEF Panic, tableVars
  <1>2. CASE ~SwapInUse(a, b)
    <2> DEFINE k1 == SwapOut(a)
               k2 == SwapOutBoth(a, b)
               k3 == Swapped(a, b)
               k4 == SwapIn(a, b)
               k5 == SwapInBoth(a, b)
    <2>1. a # b /\ Install(k5) /\ UNCHANGED <<semaphore, timer>>
      BY <1>2, SwapInstalls
    <2> HIDE DEF k1, k2, k3, k4, k5
    <2>2. /\ Good(k1) /\ k1.state[a] # "MAPPED" /\ k1.state[b] = state[b]
          /\ Good(k2) /\ k2.priority = priority
          /\ k2.state[a] # "MAPPED" /\ k2.state[b] # "MAPPED"
          /\ k2.state[a] = k1.state[a]
          /\ Good(k3) /\ k3.state = k2.state
          /\ Good(k4) /\ k4.state[b] # "MAPPED" /\ k4.state[b] = k3.state[b]
      BY <1>2, <2>1, SwapGood DEF WakeInv, k1, k2, k3, k4, k5
    <2>3. Good(Tables) /\ (\A t \in Threads : IsMapped(t) <=> Tables.state[t] = "MAPPED")
      BY TablesGood, TablesFields DEF WakeInv, IsMapped
    <2>4. Wakeable(k1, semaphore, timer) /\ (IsMapped(a) => Active(k1, a))
      <3>1. CASE IsMapped(a)
        <4>1. k1 = UnmapThread(Tables, a)
          BY <3>1 DEF k1, SwapOut
        <4> QED BY <2>3, <3>1, <4>1, UnmapWakeable DEF WakeInv
      <3>2. CASE ~IsMapped(a)
        BY <3>2 DEF k1, SwapOut, WakeInv
      <3> QED BY <3>1, <3>2
    <2>5. Wakeable(k2, semaphore, timer) /\ (IsMapped(b) => Active(k2, b))
      <3>1. CASE IsMapped(b)
        <4>1. k2 = UnmapThread(k1, b) /\ k1.state[b] = "MAPPED"
          BY <2>2, <3>1 DEF k1, k2, SwapOutBoth, IsMapped
        <4> QED BY <2>2, <2>4, <4>1, UnmapWakeable
      <3>2. CASE ~IsMapped(b)
        <4>1. k2 = k1
          BY <3>2 DEF k1, k2, SwapOutBoth
        <4> QED BY <2>4, <3>2, <4>1
      <3> QED BY <3>1, <3>2
    <2>6. Wakeable(k3, semaphore, timer)
      <3>1. k2 \in TablesType
        BY <2>2 DEF Good
      <3>2. k3 = [k2 EXCEPT !.priority[a] = priority[b], !.priority[b] = priority[a]]
        BY DEF k2, k3, Swapped
      <3>3. /\ k3.state = k2.state /\ k3.flags = k2.flags /\ k3.run = k2.run
            /\ k3.pending = k2.pending
            /\ k3.priority = [k2.priority EXCEPT ![a] = priority[b], ![b] = priority[a]]
        BY <3>1, <3>2 DEF TablesType
      <3>4. \A t \in Threads : k3.priority[t] \in PkPriority
                               /\ (t \notin {a, b} => k3.priority[t] = k2.priority[t])
        BY <2>2, <2>5, <3>1, <3>3 DEF TablesType, Wakeable
      <3> QED BY <2>2, <2>5, <3>3, <3>4 DEF Wakeable, Blocked, Waits, Flagged
    <2>7. Wakeable(k4, semaphore, timer)
      <3>1. CASE IsMapped(a)
        <4>1. k4 = MapThread(k3, a)
          BY <3>1 DEF k3, k4, SwapIn
        <4>2. k3.state[a] # "MAPPED" /\ Active(k3, a)
          BY <2>2, <2>4, <3>1 DEF Active
        <4> QED BY <2>2, <2>6, <4>1, <4>2, MapWakeable
      <3>2. CASE ~IsMapped(a)
        BY <2>6, <3>2 DEF k3, k4, SwapIn
      <3> QED BY <3>1, <3>2
    <2>8. Wakeable(k5, semaphore, timer)
      <3>1. CASE IsMapped(b)
        <4>1. k5 = MapThread(k4, b)
          BY <3>1 DEF k4, k5, SwapInBoth
        <4>2. Active(k4, b)
          BY <2>2, <2>5, <3>1 DEF Active
        <4> QED BY <2>2, <2>7, <4>1, <4>2, MapWakeable
      <3>2. CASE ~IsMapped(b)
        BY <2>7, <3>2 DEF k4, k5, SwapInBoth
      <3> QED BY <3>1, <3>2
    <2> QED BY <2>1, <2>8, WakeInstalled
  <1> QED BY <1>1, <1>2

-----------------------------------------------------------------------------
(* Kernel context, sleeping, timers and semaphores.                        *)
WakeableNow(t) ==
    /\ priority[t] \in PkPriority
    /\ "SEMAPHORE_PEND" \in flags[t] => semaphore[t] \in Semaphores
    /\ (state[t] = "MAPPED" /\ priority[t] \notin run_queue)
       \/ state[t] = "SUSPENDED_BLOCKED"
       => \/ /\ "SEMAPHORE_PEND" \in flags[t]
             /\ state[t] = "MAPPED" => priority[t] \in pending[semaphore[t]]
          \/ timer[t] # "idle"

LEMMA WakeableThreads ==
    Wakeable(Tables, semaphore, timer) <=> \A t \in Threads : WakeableNow(t)
  BY TablesFields DEF Wakeable, Blocked, Waits, Flagged, WakeableNow

LEMMA WakeableThreadsNext ==
    ASSUME \A t \in Threads : WakeableNow(t)'
    PROVE  Wakeable(Tables, semaphore, timer)'
  <1> HIDE DEF Tables
  <1> QED BY TablesFieldsNext DEF Wakeable, Blocked, Waits, Flagged, WakeableNow

LEMMA WakeContext ==
    ASSUME WakeInv, StartThreads \/ InterruptEntry \/ InterruptExit
    PROVE  Wakeable(Tables, semaphore, timer)'
  BY WakeQuiet DEF StartThreads, InterruptEntry, InterruptExit, tableVars

LEMMA WakeSleep ==
    ASSUME WakeInv, Sleep
    PROVE  Wakeable(Tables, semaphore, timer)'
  <1>1. /\ current \in Threads
        /\ \A t \in Threads \ {current} :
              state[t] = "MAPPED" => priority[t] # priority[current]
    BY WakeRunning DEF Sleep
  <1>2. /\ timer' = [timer EXCEPT ![current] = "queued"]
        /\ flags' = [flags EXCEPT ![current] = @ \union {"TIMER_PEND"}]
        /\ run_queue' = QueueDelete(run_queue, priority[current])
        /\ UNCHANGED <<state, priority, pending, semaphore>>
    BY DEF Sleep, Install, Tables
  <1>3. TypeOK
    BY DEF WakeInv, KernelInv
  <1>4. ASSUME NEW t \in Threads PROVE WakeableNow(t)'
    <2>1. WakeableNow(t)
      BY WakeableThreads DEF WakeInv
    <2>2. CASE t = current
      BY <1>2, <1>3, <2>1, <2>2 DEF TypeOK, WakeableNow
    <2>3. CASE t # current
      BY <1>1, <1>2, <1>3, <2>1, <2>3 DEF TypeOK, WakeableNow, QueueDelete
    <2> QED BY <2>2, <2>3
  <1> QED BY <1>4, WakeableThreadsNext

LEMMA WakeReturn ==
    ASSUME WakeInv, SleepReturn \/ SemaphorePendReturn
    PROVE  Wakeable(Tables, semaphore, timer)'
  <1>1. /\ current \in Threads /\ state[current] = "MAPPED"
        /\ priority[current] \in run_queue
        /\ \A t \in Threads \ {current} :
              state[t] = "MAPPED" => priority[t] # priority[current]
    BY WakeRunning DEF SleepReturn, SemaphorePendReturn
  <1>2. TypeOK
    BY DEF WakeInv, KernelInv
  <1>3. /\ UNCHANGED <<state, priority, run_queue, semaphore>>
        /\ flags' \in [Threads -> SUBSET Flags]
        /\ flags'[current] \subseteq flags[current]
        /\ \A t \in Threads \ {current} :
              flags'[t] = flags[t] /\ timer'[t] = timer[t]
        /\ \A s \in Semaphores :
              pending[s] \ {priority[current]} \subseteq pending'[s]
    <2>1. CASE SleepReturn
      <3>1. /\ flags' = [flags EXCEPT ![current] =
                            @ \ {"TIMER_PEND", "TIMED_OUT"}]
            /\ UNCHANGED <<state, priority, run_queue, semaphore, timer,
                           pending>>
        BY <2>1 DEF SleepReturn
      <3> QED BY <1>1, <1>2, <3>1 DEF TypeOK, Flags
    <2>2. CASE SemaphorePendReturn
      <3> DEFINE out == "TIMER_PEND" \in flags[current]
                        /\ "TIMED_OUT" \in flags[current]
                 s == semaphore[current]
      <3>1. /\ pending' = [pending EXCEPT ![s] =
                              IF out THEN QueueDelete(@, priority[current])
                              ELSE @]
            /\ timer' = [timer EXCEPT ![current] =
                            IF "TIMER_PEND" \in flags[current] /\ ~out
                               /\ @ = "queued" THEN "idle" ELSE @]
            /\ flags' = [flags EXCEPT ![current] =
                            @ \ ({"SEMAPHORE_PEND"} \union
                                 IF "TIMER_PEND" \in flags[current]
                                 THEN {"TIMER_PEND", "TIMED_OUT"} ELSE {})]
            /\ UNCHANGED <<state, priority, run_queue, semaphore>>
        BY <2>2 DEF SemaphorePendReturn
      <3> HIDE DEF out
      <3>2. \A r \in Semaphores :
              pending[r] \ {priority[current]} \subseteq pending'[r]
        BY <1>2, <3>1 DEF TypeOK, QueueDelete
      <3>3. /\ flags' \in [Threads -> SUBSET Flags]
            /\ flags'[current] \subseteq flags[current]
            /\ \A t \in Threads \ {current} : flags'[t] = flags[t]
        BY <1>1, <1>2, <3>1 DEF TypeOK, Flags
      <3>4. \A t \in Threads \ {current} : timer'[t] = timer[t]
        BY <1>1, <1>2, <3>1 DEF TypeOK
      <3> QED BY <3>1, <3>2, <3>3, <3>4
    <2> QED BY <2>1, <2>2
  <1>4. ASSUME NEW t \in Threads PROVE WakeableNow(t)'
    <2>1. WakeableNow(t)
      BY WakeableThreads DEF WakeInv
    <2>2. CASE t = current
      BY <1>1, <1>3, <2>1, <2>2 DEF WakeableNow
    <2>3. CASE t # current
      <3>1. /\ flags'[t] = flags[t] /\ timer'[t] = timer[t]
            /\ state'[t] = state[t] /\ priority'[t] = priority[t]
            /\ semaphore'[t] = semaphore[t]
        BY <1>3, <2>3
      <3>2. CASE "SEMAPHORE_PEND" \in flags[t]
        BY <1>1, <1>3, <2>1, <2>3, <3>1, <3>2 DEF WakeableNow
      <3>3. CASE "SEMAPHORE_PEND" \notin flags[t]
        BY <1>3, <2>1, <3>1, <3>3 DEF WakeableNow
      <3> QED BY <3>2, <3>3
    <2> QED BY <2>2, <2>3
  <1> QED BY <1>4, WakeableThreadsNext

LEMMA WakeTimerExpire ==
    ASSUME WakeInv, NEW t \in Threads, TimerExpire(t)
    PROVE  Wakeable(Tables, semaphore, timer)'
  <1>1. \A u \in Threads : timer'[u] = "idle" => timer[u] = "idle"
    BY DEF TimerExpire, WakeInv, KernelInv, TypeOK
  <1> QED BY <1>1, WakeQuiet DEF TimerExpire, tableVars

LEMMA WakeThreadTimeout ==
    ASSUME WakeInv, NEW t \in Threads, ThreadTimeout(t)
    PROVE  Wakeable(Tables, semaphore, timer)'
  <1>1. /\ timer' = [timer EXCEPT ![t] = "idle"] /\ semaphore' = semaphore
        /\ TypeOK
    BY DEF ThreadTimeout, WakeInv, KernelInv
  <1>2. \A u \in Threads \ {t} : timer'[u] = timer[u]
    BY <1>1 DEF TypeOK
  <1>3. \A u \in Threads : WakeableNow(u)
    BY WakeableThreads DEF WakeInv
  <1>4. CASE /\ IsMapped(t) /\ ~Runnable(Tables, t)
             /\ Install([Tables EXCEPT !.flags[t] = @ \union {"TIMED_OUT"},
                                       !.run = QueueInsert(@, priority[t])])
    <2>1. /\ UNCHANGED <<state, priority, pending>>
          /\ flags' = [flags EXCEPT ![t] = @ \union {"TIMED_OUT"}]
          /\ run_queue' = QueueInsert(run_queue, priority[t])
      BY <1>4 DEF Install, Tables
    <2>2. state[t] = "MAPPED" /\ priority[t] \in run_queue'
      BY <1>3, <1>4, <2>1, KernelAssumption
         DEF WakeableNow, QueueInsert, PkPriority, IsMapped
    <2>3. /\ \A u \in Threads \ {t} : flags'[u] = flags[u]
          /\ flags'[t] = flags[t] \union {"TIMED_OUT"}
          /\ run_queue \subseteq run_queue'
      BY <1>1, <2>1 DEF TypeOK, QueueInsert
    <2>4. ASSUME NEW u \in Threads PROVE WakeableNow(u)'
      <3>1. CASE u = t
        BY <1>1, <1>3, <2>1, <2>2, <2>3, <3>1 DEF WakeableNow
      <3>2. CASE u # t
        BY <1>1, <1>2, <1>3, <2>1, <2>3, <3>2 DEF WakeableNow
      <3> QED BY <3>1, <3>2
    <2> QED BY <2>4, WakeableThreadsNext
  <1>5. CASE /\ \/ IsMapped(t) /\ Runnable(Tables, t)
                \/ state[t] = "SUSPENDED_RUNNABLE"
                \/ ~IsActive(t)
             /\ UNCHANGED tableVars
    <2>1. ~Blocked(Tables, t)
      BY <1>5, TablesFields DEF Blocked, IsMapped, Runnable, IsActive
    <2> QED BY <1>1, <1>2, <1>5, <2>1, WakeQuiet DEF tableVars
  <1>6. CASE Install([Tables EXCEPT !.flags[t] = @ \union {"TIMED_OUT"},
                                    !.state[t] = "SUSPENDED_RUNNABLE"])
    <2>1. /\ UNCHANGED <<priority, pending, run_queue>>
          /\ flags' = [flags EXCEPT ![t] = @ \union {"TIMED_OUT"}]
          /\ state' = [state EXCEPT ![t] = "SUSPENDED_RUNNABLE"]
      BY <1>6 DEF Install, Tables
    <2>2. /\ \A u \in Threads \ {t} : flags'[u] = flags[u] /\ state'[u] = state[u]
          /\ flags'[t] = flags[t] \union {"TIMED_OUT"}
          /\ state'[t] = "SUSPENDED_RUNNABLE"
      BY <1>1, <2>1 DEF TypeOK
    <2>3. ASSUME NEW u \in Threads PROVE WakeableNow(u)'
      <3>1. CASE u = t
        BY <1>1, <1>3, <2>1, <2>2, <3>1 DEF WakeableNow
      <3>2. CASE u # t
        BY <1>1, <1>2, <1>3, <2>1, <2>2, <3>2 DEF WakeableNow
      <3> QED BY <3>1, <3>2
    <2> QED BY <2>3, WakeableThreadsNext
  <1> QED BY <1>4, <1>5, <1>6 DEF ThreadTimeout

(* A post or a release takes priorities out of a semaphore's queue only to *)
(* put them into the run queue.                                            *)
LEMMA WakeReleased ==
    ASSUME WakeInv,
           UNCHANGED <<state, priority, flags, semaphore, timer>>,
           run_queue \subseteq run_queue',
           \A s \in Semaphores : pending[s] \subseteq pending'[s] \union run_queue'
    PROVE  Wakeable(Tables, semaphore, timer)'
  <1>1. ASSUME NEW t \in Threads PROVE WakeableNow(t)'
    <2>1. WakeableNow(t)
      BY WakeableThreads DEF WakeInv
    <2> QED BY <2>1 DEF WakeableNow
  <1> QED BY <1>1, WakeableThreadsNext

LEMMA WakePost ==
    ASSUME WakeInv, NEW s \in Semaphores, SemaphorePost(s)
    PROVE  Wakeable(Tables, semaphore, timer)'
  <1> DEFINE p == QueueMin(pending[s])
  <1>1. CASE p = PK_THREADS
    BY <1>1, WakeQuiet DEF SemaphorePost
  <1>2. CASE p # PK_THREADS
    <2>1. /\ pending' = [pending EXCEPT ![s] = QueueDelete(@, p)]
          /\ run_queue' = QueueInsert(run_queue, p)
          /\ UNCHANGED <<state, priority, flags, semaphore, timer>>
      BY <1>2 DEF SemaphorePost, Install, Tables
    <2>2. p \in run_queue' /\ run_queue \subseteq run_queue'
      BY <1>2, <2>1 DEF QueueInsert
    <2>3. \A r \in Semaphores : pending[r] \ {p} \subseteq pending'[r]
      BY <2>1 DEF WakeInv, KernelInv, TypeOK, QueueDelete
    <2> QED BY <2>1, <2>2, <2>3, WakeReleased
  <1> QED BY <1>1, <1>2

LEMMA WakeReleaseAll ==
    ASSUME WakeInv, NEW s \in Semaphores, SemaphoreReleaseAll(s)
    PROVE  Wakeable(Tables, semaphore, timer)'
  <1>1. /\ pending' = [pending EXCEPT ![s] = {}]
        /\ run_queue' = run_queue \union pending[s]
        /\ UNCHANGED <<state, priority, flags, semaphore, timer>>
    BY DEF SemaphoreReleaseAll, Install, Tables
  <1>2. \A r \in Semaphores : pending[r] \subseteq pending'[r] \union run_queue'
    BY <1>1 DEF WakeInv, KernelInv, TypeOK
  <1> QED BY <1>1, <1>2, WakeReleased

LEMMA WakePend ==
    ASSUME WakeInv, NEW s \in Semaphores, NEW timeout \in Timeouts,
           SemaphorePend(s, timeout)
    PROVE  Wakeable(Tables, semaphore, timer)'
  <1>1. CASE ~InThread
    BY <1>1, WakeQuiet DEF SemaphorePend, Panic, tableVars
  <1>2. CASE InThread
    <2> DEFINE p == priority[current]
               new == {"SEMAPHORE_PEND"} \union
                      (IF timeout = "TIMED" THEN {"TIMER_PEND"} ELSE {})
    <2>1. /\ current \in Threads /\ TypeOK
          /\ \A t \in Threads \ {current} : state[t] = "MAPPED" => priority[t] # p
      BY <1>2, WakeRunning DEF WakeInv, KernelInv
    <2>2. /\ semaphore' = [semaphore EXCEPT ![current] = s]
          /\ timer' = [timer EXCEPT ![current] =
                          IF timeout = "TIMED" THEN "queued" ELSE @]
          /\ pending' = [pending EXCEPT ![s] = QueueInsert(@, p)]
          /\ run_queue' = QueueDelete(run_queue, p)
          /\ UNCHANGED <<state, priority>>
      BY <1>2 DEF SemaphorePend, Install, Tables
    <2>3. /\ \A t \in Threads \ {current} : flags'[t] = flags[t]
          /\ "SEMAPHORE_PEND" \in flags'[current]
      BY <1>2, <2>1 DEF SemaphorePend, Install, Tables, TypeOK
    <2>4. /\ \A r \in Semaphores : pending[r] \subseteq pending'[r]
          /\ p \in PkPriority => p \in pending'[s]
      BY <2>1, <2>2, KernelAssumption DEF TypeOK, QueueInsert, PkPriority
    <2>5. ASSUME NEW t \in Threads PROVE WakeableNow(t)'
      <3>1. WakeableNow(t)
        BY WakeableThreads DEF WakeInv
      <3>2. CASE t = current
        <4>1. semaphore'[t] = s
          BY <2>1, <2>2, <3>2 DEF TypeOK
        <4> QED BY <2>2, <2>3, <2>4, <3>1, <3>2, <4>1 DEF WakeableNow
      <3>3. CASE t # current
        <4>1. timer'[t] = timer[t] /\ semaphore'[t] = semaphore[t]
          BY <2>1, <2>2, <3>3 DEF TypeOK
        <4>2. state[t] = "MAPPED" /\ priority[t] \notin run_queue' =>
                priority[t] \notin run_queue
          BY <2>1, <2>2, <3>3 DEF QueueDelete
        <4> QED BY <2>2, <2>3, <2>4, <3>1, <3>3, <4>1, <4>2 DEF WakeableNow
      <3> QED BY <3>2, <3>3
    <2> QED BY <2>5, WakeableThreadsNext
  <1> QED BY <1>1, <1>2

LEMMA WakeNext ==
    ASSUME PK_THREADS \notin NewPriorities, WakeInv, [Next]_vars
    PROVE  WakeInv'
  <1>0. KernelInv'
    BY NextInv DEF WakeInv
  <1> SUFFICES Wakeable(Tables, semaphore, timer)'
    BY <1>0 DEF WakeInv
  <1>1. CASE StartThreads \/ InterruptEntry \/ InterruptExit
    BY <1>1, WakeContext
  <1>2. CASE Complete
    <2>1. current \in Threads
      BY <1>2 DEF Complete, InThread, WakeInv, KernelInv, TypeOK
    <2> QED BY <1>2, <2>1, WakeRemove DEF Complete
  <1>3. CASE Sleep
    BY <1>3, WakeSleep
  <1>4. CASE SleepReturn \/ SemaphorePendReturn
    BY <1>4, WakeReturn
  <1>5. CASE \E t \in Threads : Resume(t)
    BY <1>5, WakeResume
  <1>6. CASE \E t \in Threads : Suspend(t)
    BY <1>6, WakeSuspend
  <1>7. CASE \E t \in Threads : Delete(t)
    BY <1>7, WakeRemove DEF Delete
  <1>8. CASE \E t \in Threads : TimerExpire(t)
    BY <1>8, WakeTimerExpire
  <1>9. CASE \E t \in Threads : ThreadTimeout(t)
    BY <1>9, WakeThreadTimeout
  <1>10. CASE \E t \in Threads, p \in PkPriority : Create(t, p)
    BY <1>10, WakeCreate
  <1>11. CASE \E t \in Threads, p \in NewPriorities : PriorityChange(t, p)
    BY <1>11, WakePriorityChange
  <1>12. CASE \E t \in Threads, u \in Threads : PrioritySwap(t, u)
    BY <1>12, WakePrioritySwap
  <1>13. CASE \E s \in Semaphores : SemaphorePost(s)
    BY <1>13, WakePost
  <1>14. CASE \E s \in Semaphores : SemaphoreReleaseAll(s)
    BY <1>14, WakeReleaseAll
  <1>15. CASE \E s \in Semaphores : SemaphoreTake(s)
    BY <1>15, WakeQuiet DEF SemaphoreTake
  <1>16. CASE \E s \in Semaphores, timeout \in Timeouts : SemaphorePend(s, timeout)
    BY <1>16, WakePend
  <1>17. CASE UNCHANGED vars
    BY <1>17, WakeQuiet DEF vars, tableVars
  <1> QED BY <1>1, <1>2, <1>3, <1>4, <1>5, <1>6, <1>7, <1>8, <1>9, <1>10, <1>11,
             <1>12, <1>13, <1>14, <1>15, <1>16, <1>17 DEF Next

(* No blocked thread is lost: through every suspend, resume, delete, swap  *)
(* and post, its semaphore or its timer still knows it (pk_thread_core.c:  *)
(* 55-145, pk_semaphore_core.c).  A thread moved to the idle priority      *)
(* would be in no queue, hence the assumption.                             *)
THEOREM NoThreadLost ==
    ASSUME PK_THREADS \notin NewPriorities
    PROVE  Spec => []BlockedIsWakeable
  <1>1. Init => WakeInv
    <2> SUFFICES ASSUME Init PROVE WakeInv
      OBVIOUS
    <2>1. \A t \in Threads : WakeableNow(t)
      BY KernelAssumption, Zenon DEF Init, WakeableNow
    <2> QED BY <2>1, InitInv, WakeableThreads DEF WakeInv
  <1>2. WakeInv /\ [Next]_vars => WakeInv'
    BY WakeNext
  <1>3. WakeInv => BlockedIsWakeable
    BY WakeableThreads DEF WakeInv, WakeableNow, BlockedIsWakeable
  <1> QED BY <1>1, <1>2, <1>3, PTL DEF Spec

-----------------------------------------------------------------------------
(* What the queues say is true, unless pends have timeouts: a timeout and  *)
(* a post may then both find the thread (MCPkKernelStaleWaiter.cfg).       *)

(* What the flags of an active thread say, wherever it is in its code.     *)
ThreadSound(k, pcs, tm, t) ==
    /\ Flagged(k, t) <=> pcs[t] = "pend"
    /\ pcs[t] # "sleep" => k.flags[t] \subseteq {"SEMAPHORE_PEND"}
    /\ pcs[t] = "pend" => (k.granted[t] <=> ~Blocked(k, t))
    /\ tm[t] # "idle" => pcs[t] = "sleep" /\ Blocked(k, t)

(* What a priority in the queue of s stands for.                           *)
QueuedSound(k, sem, s, p) ==
    /\ k.map[p] \in Threads
    /\ Flagged(k, k.map[p])
    /\ sem[k.map[p]] = s
    /\ p \notin k.run

Sound(k, sem, pcs, tm) ==
    /\ \A t \in Threads : /\ k.priority[t] \in PkPriority
                          /\ Flagged(k, t) => sem[t] \in Semaphores
    /\ \A t \in Threads : Active(k, t) => ThreadSound(k, pcs, tm, t)
    /\ \A p \in k.run : k.map[p] \in Threads
    /\ \A s \in Semaphores : \A p \in k.pending[s] : QueuedSound(k, sem, s, p)

LEMMA MapSound ==
    ASSUME NEW k, Good(k), NEW t \in Threads, NEW pcs, NEW tm,
           Sound(k, semaphore, pcs, tm), Active(k, t),
           k.state[t] # "MAPPED", k.map[k.priority[t]] = NULL
    PROVE  Sound(MapThread(k, t), semaphore, pcs, tm)
  <1> DEFINE m == MapThread(k, t)
             p == k.priority[t]
             s == semaphore[t]
  <1>1. /\ k \in TablesType /\ Exact(k) /\ p \in PkPriority
        /\ p \in 0 .. PK_THREADS /\ p # PK_THREADS
        /\ (Flagged(k, t) => s \in Semaphores)
    BY KernelAssumption DEF Good, Sound, PkPriority
  <1>2. /\ m.priority = k.priority /\ m.flags = k.flags
        /\ m.map = [k.map EXCEPT ![p] = t]
        /\ m.state = [k.state EXCEPT ![t] = "MAPPED"]
        /\ \/ /\ k.state[t] = "SUSPENDED_RUNNABLE"
              /\ m.run = QueueInsert(k.run, p)
              /\ m.pending = k.pending /\ m.granted = k.granted
           \/ /\ k.state[t] # "SUSPENDED_RUNNABLE" /\ Flagged(k, t)
              /\ m.run = QueueInsert(k.run, p)
              /\ m.pending = k.pending
              /\ m.granted = [k.granted EXCEPT ![t] = TRUE]
           \/ /\ k.state[t] # "SUSPENDED_RUNNABLE" /\ Flagged(k, t)
              /\ m.run = k.run /\ m.granted = k.granted
              /\ m.pending = [k.pending EXCEPT ![s] = QueueInsert(@, p)]
           \/ /\ k.state[t] # "SUSPENDED_RUNNABLE" /\ ~Flagged(k, t)
              /\ m.run = k.run /\ m.granted = k.granted
              /\ m.pending = k.pending
    BY <1>1, MapFields
  <1>3. QueueInsert(k.run, p) = k.run \union {p}
    BY <1>1 DEF QueueInsert
  <1>4. p \notin k.run /\ \A r \in Semaphores : p \notin k.pending[r]
    BY KernelAssumption DEF Sound, QueuedSound
  <1>5. k.state[t] \in {"SUSPENDED_RUNNABLE", "SUSPENDED_BLOCKED"}
    BY <1>1 DEF Active, TablesType, ThreadStates
  <1>6. /\ m.state[t] = "MAPPED" /\ m.map[p] = t
        /\ \A u \in Threads \ {t} : m.state[u] = k.state[u]
        /\ \A q \in 0 .. PK_THREADS : q # p => m.map[q] = k.map[q]
        /\ m.run \subseteq PkPriority /\ m.run \subseteq k.run \union {p}
        /\ k.run \subseteq m.run
    <2> HIDE DEF m
    <2>1. /\ m.state[t] = "MAPPED" /\ m.map[p] = t
          /\ \A u \in Threads \ {t} : m.state[u] = k.state[u]
          /\ \A q \in 0 .. PK_THREADS : q # p => m.map[q] = k.map[q]
      BY <1>1, <1>2 DEF TablesType
    <2>2. m.run = k.run \/ m.run = k.run \union {p}
      BY <1>2, <1>3
    <2> QED BY <1>1, <2>1, <2>2 DEF TablesType
  <1>7. \A u \in Threads : k.state[u] = "MAPPED" => k.priority[u] # p
    <2> SUFFICES ASSUME NEW u \in Threads, k.state[u] = "MAPPED",
                        k.priority[u] = p
                 PROVE  FALSE
      OBVIOUS
    <2>1. k.map[p] = u
      BY <1>1 DEF Exact
    <2> QED BY <2>1, KernelAssumption
  <1> HIDE DEF m
  <1>8. ASSUME NEW u \in Threads
        PROVE  /\ m.priority[u] \in PkPriority
               /\ Flagged(m, u) => semaphore[u] \in Semaphores
    BY <1>2 DEF Sound, Flagged
  <1>9. ASSUME NEW u \in Threads \ {t}, Active(m, u)
        PROVE  ThreadSound(m, pcs, tm, u)
    <2>1. Active(k, u) /\ (Blocked(m, u) <=> Blocked(k, u))
      BY <1>2, <1>6, <1>7, <1>9 DEF Active, Blocked
    <2>2. m.granted[u] = k.granted[u]
      BY <1>1, <1>2 DEF TablesType
    <2> QED BY <1>2, <2>1, <2>2 DEF Sound, ThreadSound, Flagged
  <1>10. ThreadSound(m, pcs, tm, t)
    <2>0. ThreadSound(k, pcs, tm, t)
      BY DEF Sound
    <2>1. Blocked(k, t) <=> k.state[t] # "SUSPENDED_RUNNABLE"
      BY <1>5 DEF Blocked
    <2>2. Blocked(m, t) <=> p \notin m.run
      BY <1>2, <1>6 DEF Blocked
    <2>3. Flagged(m, t) <=> Flagged(k, t)
      BY <1>2 DEF Flagged
    <2>4. CASE k.state[t] = "SUSPENDED_RUNNABLE"
      BY <1>2, <1>3, <2>0, <2>1, <2>2, <2>3, <2>4 DEF ThreadSound
    <2>5. CASE k.state[t] # "SUSPENDED_RUNNABLE" /\ Flagged(k, t)
      <3>1. \/ p \in m.run /\ m.granted[t] = TRUE
            \/ p \notin m.run /\ m.granted = k.granted
        BY <1>1, <1>2, <1>3, <1>4, <2>5 DEF TablesType
      <3> QED BY <1>2, <2>0, <2>1, <2>2, <2>3, <2>5, <3>1 DEF ThreadSound
    <2>6. CASE k.state[t] # "SUSPENDED_RUNNABLE" /\ ~Flagged(k, t)
      <3>1. p \notin m.run /\ m.granted = k.granted
        BY <1>2, <1>4, <2>6
      <3> QED BY <1>2, <2>0, <2>1, <2>2, <2>3, <2>6, <3>1 DEF ThreadSound
    <2> QED BY <2>4, <2>5, <2>6
  <1>11. ASSUME NEW q \in m.run PROVE m.map[q] \in Threads
    <2>1. q \in 0 .. PK_THREADS
      BY <1>6, KernelAssumption DEF PkPriority
    <2> QED BY <1>6, <2>1 DEF Sound
  <1>12. ASSUME NEW r \in Semaphores, NEW q \in m.pending[r]
         PROVE  QueuedSound(m, semaphore, r, q)
    <2>1. \/ q \in k.pending[r]
          \/ q = p /\ r = s /\ Flagged(k, t) /\ m.run = k.run
      BY <1>1, <1>2 DEF TablesType, QueueInsert
    <2>2. CASE q \in k.pending[r]
      <3>1. q # p /\ q \in 0 .. PK_THREADS /\ QueuedSound(k, semaphore, r, q)
        BY <1>1, <1>4, <2>2, KernelAssumption DEF TablesType, PkPriority, Sound
      <3> QED BY <1>2, <1>6, <3>1 DEF QueuedSound, Flagged
    <2>3. CASE q = p /\ r = s /\ Flagged(k, t) /\ m.run = k.run
      BY <1>2, <1>4, <1>6, <2>3 DEF QueuedSound, Flagged
    <2> QED BY <2>1, <2>2, <2>3
  <1>13. Sound(m, semaphore, pcs, tm)
    BY <1>8, <1>9, <1>10, <1>11, <1>12 DEF Sound
  <1> QED BY <1>13 DEF m

LEMMA UnmapSound ==
    ASSUME NEW k, Good(k), NEW t \in Threads, NEW pcs, NEW tm,
           Sound(k, semaphore, pcs, tm), k.state[t] = "MAPPED"
    PROVE  Sound(UnmapThread(k, t), semaphore, pcs, tm)
  <1> DEFINE n == UnmapThread(k, t)
             p == k.priority[t]
             s == semaphore[t]
  <1>1. /\ k \in TablesType /\ Exact(k) /\ p \in PkPriority
        /\ p \in 0 .. PK_THREADS
        /\ (Flagged(k, t) => s \in Semaphores)
    BY KernelAssumption DEF Good, Sound, PkPriority
  <1>2. /\ n.priority = k.priority /\ n.flags = k.flags
        /\ n.granted = k.granted
        /\ n.map = [k.map EXCEPT ![p] = NULL]
        /\ \/ /\ p \in k.run
              /\ n.state = [k.state EXCEPT ![t] = "SUSPENDED_RUNNABLE"]
              /\ n.run = QueueDelete(k.run, p) /\ n.pending = k.pending
           \/ /\ p \notin k.run /\ Flagged(k, t)
              /\ n.state = [k.state EXCEPT ![t] = "SUSPENDED_BLOCKED"]
              /\ n.run = k.run
              /\ n.pending = [k.pending EXCEPT ![s] = QueueDelete(@, p)]
           \/ /\ p \notin k.run /\ ~Flagged(k, t)
              /\ n.state = [k.state EXCEPT ![t] = "SUSPENDED_BLOCKED"]
              /\ n.run = k.run /\ n.pending = k.pending
    BY <1>1, UnmapFields
  <1>3. k.map[p] = t
    BY <1>1 DEF Exact
  <1>4. \A u \in Threads \ {t} : k.state[u] = "MAPPED" => k.priority[u] # p
    <2> SUFFICES ASSUME NEW u \in Threads \ {t}, k.state[u] = "MAPPED",
                        k.priority[u] = p
                 PROVE  FALSE
      OBVIOUS
    <2>1. k.map[p] = u
      BY <1>1 DEF Exact
    <2> QED BY <1>3, <2>1
  <1>5. /\ \A u \in Threads \ {t} : n.state[u] = k.state[u]
        /\ \A q \in 0 .. PK_THREADS : q # p => n.map[q] = k.map[q]
        /\ n.run = k.run \ {p}
        /\ k.run \subseteq 0 .. PK_THREADS
        /\ n.state[t] = IF p \in k.run THEN "SUSPENDED_RUNNABLE"
                                       ELSE "SUSPENDED_BLOCKED"
    BY <1>1, <1>2, KernelAssumption, SMTT(60) DEF TablesType, QueueDelete, PkPriority
  <1> HIDE DEF n
  <1>6. ASSUME NEW u \in Threads
        PROVE  /\ n.priority[u] \in PkPriority
               /\ Flagged(n, u) => semaphore[u] \in Semaphores
    BY <1>2 DEF Sound, Flagged
  <1>7. ASSUME NEW u \in Threads, Active(n, u)
        PROVE  ThreadSound(n, pcs, tm, u)
    <2>1. Active(k, u)
      BY <1>5, <1>7 DEF Active
    <2>2. Blocked(n, u) <=> Blocked(k, u)
      <3>1. CASE u = t
        BY <1>5, <3>1 DEF Blocked
      <3>2. CASE u # t
        BY <1>2, <1>4, <1>5, <3>2 DEF Blocked
      <3> QED BY <3>1, <3>2
    <2> QED BY <1>2, <2>1, <2>2 DEF Sound, ThreadSound, Flagged
  <1>8. ASSUME NEW q \in n.run PROVE n.map[q] \in Threads
    BY <1>5 DEF Sound
  <1>9. ASSUME NEW r \in Semaphores, NEW q \in n.pending[r]
        PROVE  QueuedSound(n, semaphore, r, q)
    <2>1. q \in k.pending[r]
      <3>1. k.pending \in [Semaphores -> SUBSET PkPriority]
        BY <1>1 DEF TablesType
      <3>2. CASE n.pending = k.pending
        BY <1>9, <3>2
      <3>3. CASE n.pending = [k.pending EXCEPT ![s] = QueueDelete(@, p)]
        BY <1>9, <3>1, <3>3 DEF QueueDelete
      <3> QED BY <1>2, <3>2, <3>3
    <2>2. QueuedSound(k, semaphore, r, q) /\ q \in 0 .. PK_THREADS
      BY <1>1, <2>1, KernelAssumption DEF Sound, TablesType, PkPriority
    <2>3. q # p
      <3>1. ASSUME q = p PROVE FALSE
        <4>1. Flagged(k, t) /\ r = s /\ p \notin k.run
          BY <1>3, <2>2, <3>1 DEF QueuedSound
        <4>2. n.pending = [k.pending EXCEPT ![s] = QueueDelete(@, p)]
          BY <1>2, <4>1
        <4> QED BY <1>1, <3>1, <4>1, <4>2 DEF TablesType, QueueDelete
      <3> QED BY <3>1
    <2> QED BY <1>2, <1>5, <2>2, <2>3 DEF QueuedSound, Flagged
  <1>10. Sound(n, semaphore, pcs, tm)
    BY <1>6, <1>7, <1>8, <1>9 DEF Sound
  <1> QED BY <1>10 DEF n

-----------------------------------------------------------------------------
(* The invariant of the second theorem, and the steps that preserve it.    *)
InRange(t) ==
    /\ priority[t] \in PkPriority
    /\ "SEMAPHORE_PEND" \in flags[t] => semaphore[t] \in Semaphores
BlockedNow(t) ==
    \/ state[t] = "MAPPED" /\ priority[t] \notin run_queue
    \/ state[t] = "SUSPENDED_BLOCKED"
FlagsTrue(t) ==
    IsActive(t) =>
        /\ "SEMAPHORE_PEND" \in flags[t] <=> pc[t] = "pend"
        /\ pc[t] # "sleep" => flags[t] \subseteq {"SEMAPHORE_PEND"}
        /\ pc[t] = "pend" => (granted[t] <=> ~BlockedNow(t))
        /\ timer[t] # "idle" => pc[t] = "sleep" /\ BlockedNow(t)
QueuedTrue(s, p) ==
    /\ priority_map[p] \in Threads
    /\ "SEMAPHORE_PEND" \in flags[priority_map[p]]
    /\ semaphore[priority_map[p]] = s
    /\ p \notin run_queue

RangesOK == \A t \in Threads : InRange(t)
FlagsOK == \A t \in Threads : FlagsTrue(t)
RunOK == \A p \in run_queue : priority_map[p] \in Threads
QueuesOK == \A s \in Semaphores : \A p \in pending[s] : QueuedTrue(s, p)
QueuesTrue == RangesOK /\ FlagsOK /\ RunOK /\ QueuesOK
PendInv == KernelInv /\ QueuesTrue

LEMMA SoundNow == QueuesTrue => Sound(Tables, semaphore, pc, timer)
  BY TablesFields
     DEF QueuesTrue, RangesOK, FlagsOK, RunOK, QueuesOK, InRange, FlagsTrue,
         QueuedTrue, BlockedNow, IsActive,
         Sound, ThreadSound, QueuedSound, Active, Blocked, Flagged

LEMMA SoundInstalled ==
    ASSUME NEW k, Install(k), Sound(k, semaphore', pc', timer')
    PROVE  QueuesTrue'
  <1> USE DEF Install, Sound, Flagged, Active, Blocked
  <1>1. RangesOK'
    BY DEF RangesOK, InRange
  <1>2. FlagsOK'
    BY DEF FlagsOK, FlagsTrue, BlockedNow, IsActive, ThreadSound
  <1>3. RunOK'
    BY DEF RunOK
  <1>4. QueuesOK'
    BY DEF QueuesOK, QueuedTrue, QueuedSound
  <1> QED BY <1>1, <1>2, <1>3, <1>4 DEF QueuesTrue

LEMMA PendQuiet ==
    ASSUME PendInv, UNCHANGED <<tableVars, semaphore, pc>>,
           \A t \in Threads : timer'[t] = "idle" \/ timer[t] # "idle"
    PROVE  QueuesTrue'
  <1> USE DEF PendInv, QueuesTrue, tableVars
  <1>1. RangesOK'
    BY DEF RangesOK, InRange
  <1>2. FlagsOK'
    BY DEF FlagsOK, FlagsTrue, BlockedNow, IsActive
  <1>3. RunOK'
    BY DEF RunOK
  <1>4. QueuesOK'
    BY DEF QueuesOK, QueuedTrue
  <1> QED BY <1>1, <1>2, <1>3, <1>4

(* What is true of the thread that runs.                                   *)
LEMMA RunningIsSound ==
    ASSUME PendInv, InThread
    PROVE  /\ current \in Threads /\ state[current] = "MAPPED"
           /\ priority[current] \in run_queue
           /\ priority_map[priority[current]] = current
           /\ \A s \in Semaphores : priority[current] \notin pending[s]
           /\ \A t \in Threads \ {current} :
                 state[t] = "MAPPED" => priority[t] # priority[current]
           /\ timer[current] = "idle"
           /\ "SEMAPHORE_PEND" \in flags[current] <=> pc[current] = "pend"
           /\ pc[current] # "sleep" => flags[current] \subseteq {"SEMAPHORE_PEND"}
           /\ pc[current] = "pend" => granted[current]
  <1>1. KernelInv /\ \A t \in Threads : priority[t] \in PkPriority
    BY DEF PendInv, QueuesTrue, RangesOK, InRange
  <1>2. /\ current \in Threads /\ state[current] = "MAPPED"
        /\ priority[current] \in run_queue
        /\ \A t \in Threads \ {current} :
              state[t] = "MAPPED" => priority[t] # priority[current]
    BY <1>1, RunningIsQueued
  <1>3. priority_map[priority[current]] = current
    BY <1>1, <1>2 DEF KernelInv, TypeOK, PriorityMapExact
  <1>4. \A s \in Semaphores : priority[current] \notin pending[s]
    BY <1>2 DEF PendInv, QueuesTrue, QueuesOK, QueuedTrue
  <1>5. FlagsTrue(current) /\ IsActive(current) /\ ~BlockedNow(current)
    BY <1>2 DEF PendInv, QueuesTrue, FlagsOK, IsActive, BlockedNow
  <1> QED BY <1>2, <1>3, <1>4, <1>5 DEF FlagsTrue

LEMMA PendCreate ==
    ASSUME PendInv, NEW t \in Threads, NEW p \in PkPriority, Create(t, p)
    PROVE  QueuesTrue'
  <1>1. /\ state' = [state EXCEPT ![t] = "SUSPENDED_RUNNABLE"]
        /\ priority' = [priority EXCEPT ![t] = p]
        /\ flags' = [flags EXCEPT ![t] = {}]
        /\ semaphore' = [semaphore EXCEPT ![t] = NULL]
        /\ timer' = [timer EXCEPT ![t] = "idle"]
        /\ pc' = [pc EXCEPT ![t] = "run"]
        /\ granted' = [granted EXCEPT ![t] = FALSE]
        /\ UNCHANGED <<run_queue, pending, priority_map>>
        /\ TypeOK /\ PriorityMapExact /\ state[t] # "MAPPED"
    BY DEF Create, PendInv, KernelInv, IsActive
  <1>2. ASSUME NEW u \in Threads \ {t}
        PROVE  /\ priority'[u] = priority[u] /\ flags'[u] = flags[u]
               /\ state'[u] = state[u] /\ semaphore'[u] = semaphore[u]
               /\ timer'[u] = timer[u] /\ pc'[u] = pc[u]
               /\ granted'[u] = granted[u]
    BY <1>1 DEF TypeOK
  <1>3. /\ priority'[t] = p /\ flags'[t] = {} /\ timer'[t] = "idle"
        /\ pc'[t] = "run"
    BY <1>1 DEF TypeOK
  <1>4. \A q \in 0 .. PK_THREADS : priority_map[q] # t
    BY <1>1 DEF PriorityMapExact
  <1> USE DEF PendInv, QueuesTrue
  <1>5. RangesOK'
    BY <1>2, <1>3 DEF RangesOK, InRange
  <1>6. FlagsOK'
    BY <1>1, <1>2, <1>3 DEF FlagsOK, FlagsTrue, BlockedNow, IsActive
  <1>7. RunOK'
    BY <1>1 DEF RunOK
  <1>8. QueuesOK'
    <2> SUFFICES ASSUME NEW s \in Semaphores, NEW q \in pending[s]
                 PROVE  QueuedTrue(s, q)'
      BY <1>1 DEF QueuesOK
    <2>1. QueuedTrue(s, q) /\ q \in 0 .. PK_THREADS
      BY <1>1, KernelAssumption DEF QueuesOK, TypeOK, PkPriority
    <2> QED BY <1>1, <1>2, <1>4, <2>1 DEF QueuedTrue
  <1> QED BY <1>5, <1>6, <1>7, <1>8

LEMMA PendResume ==
    ASSUME PendInv, NEW t \in Threads, Resume(t)
    PROVE  QueuesTrue'
  <1>1. CASE ~IsActive(t) \/ priority_map[priority[t]] # NULL
    BY <1>1, PendQuiet DEF Resume, Panic
  <1>2. CASE IsActive(t) /\ priority_map[priority[t]] = NULL
    <2>1. Install(MapThread(Tables, t)) /\ UNCHANGED <<semaphore, timer, pc>>
      BY <1>2 DEF Resume
    <2>2. /\ Tables.state[t] # "MAPPED" /\ Active(Tables, t)
          /\ Tables.map[Tables.priority[t]] = NULL
      BY <1>2, TablesFields DEF Resume, IsMapped, IsActive, Active
    <2>3. Sound(MapThread(Tables, t), semaphore, pc, timer)
      BY <2>2, TablesGood, SoundNow, MapSound DEF PendInv
    <2> QED BY <2>1, <2>3, SoundInstalled
  <1> QED BY <1>1, <1>2

LEMMA PendSuspend ==
    ASSUME PendInv, NEW t \in Threads, Suspend(t)
    PROVE  QueuesTrue'
  <1>1. CASE ~IsActive(t)
    BY <1>1, PendQuiet DEF Suspend, Panic
  <1>2. CASE IsActive(t)
    <2>1. Install(UnmapThread(Tables, t)) /\ UNCHANGED <<semaphore, timer, pc>>
      BY <1>2 DEF Suspend
    <2>2. Tables.state[t] = "MAPPED"
      BY <1>2, TablesFields DEF Suspend, IsActive
    <2>3. Sound(UnmapThread(Tables, t), semaphore, pc, timer)
      BY <2>2, TablesGood, SoundNow, UnmapSound DEF PendInv
    <2> QED BY <2>1, <2>3, SoundInstalled
  <1> QED BY <1>1, <1>2

LEMMA PendRemove ==
    ASSUME PendInv, NEW t \in Threads, NEW final \in {"COMPLETED", "DELETED"},
           Remove(t, final)
    PROVE  QueuesTrue'
  <1> DEFINE g == IF IsMapped(t) THEN UnmapThread(Tables, t) ELSE Tables
             k == [g EXCEPT !.state[t] = final]
  <1>1. Install(k) /\ UNCHANGED <<semaphore, pc>>
        /\ timer' = [timer EXCEPT ![t] = IF @ = "queued" THEN "idle" ELSE @]
    BY DEF Remove
  <1>2. /\ Good(g) /\ Sound(g, semaphore, pc, timer)
        /\ g.state[t] # "MAPPED"
    <2>1. CASE IsMapped(t)
      <3>1. Tables.state[t] = "MAPPED"
        BY <2>1, TablesFields DEF IsMapped
      <3> QED BY <2>1, <3>1, TablesGood, SoundNow, UnmapSound, UnmapThreadGood
              DEF PendInv
    <2>2. CASE ~IsMapped(t)
      BY <2>2, TablesGood, SoundNow, TablesFields DEF PendInv, IsMapped
    <2> QED BY <2>1, <2>2
  <1> HIDE DEF g
  <1>3. /\ k.priority = g.priority /\ k.flags = g.flags /\ k.run = g.run
        /\ k.pending = g.pending /\ k.state = [g.state EXCEPT ![t] = final]
        /\ k.map = g.map /\ k.granted = g.granted
    BY <1>2 DEF Good, TablesType
  <1> HIDE DEF k
  <1>4. ~Active(k, t)
    BY <1>2, <1>3 DEF Good, Active, TablesType
  <1>5. ASSUME NEW u \in Threads \ {t}
        PROVE  k.state[u] = g.state[u] /\ timer'[u] = timer[u]
    BY <1>1, <1>2, <1>3 DEF Good, TablesType, PendInv, KernelInv, TypeOK
  <1>6. \A u \in Threads : Active(k, u) => ThreadSound(k, pc, timer', u)
    BY <1>2, <1>3, <1>4, <1>5 DEF Sound, ThreadSound, Active, Blocked, Flagged
  <1>7. \A s \in Semaphores : \A p \in k.pending[s] :
          QueuedSound(k, semaphore, s, p)
    BY <1>2, <1>3 DEF Sound, QueuedSound, Flagged
  <1>8. Sound(k, semaphore, pc, timer')
    BY <1>2, <1>3, <1>6, <1>7 DEF Sound, Flagged
  <1> QED BY <1>1, <1>8, SoundInstalled

LEMMA UnmapActive ==
    ASSUME NEW k \in TablesType, NEW t \in Threads
    PROVE  Active(UnmapThread(k, t), t)
  <1> DEFINE n == UnmapThread(k, t)
  <1>1. \/ n.state = [k.state EXCEPT ![t] = "SUSPENDED_RUNNABLE"]
        \/ n.state = [k.state EXCEPT ![t] = "SUSPENDED_BLOCKED"]
    BY UnmapFields
  <1> HIDE DEF n
  <1>2. n.state[t] \in {"SUSPENDED_RUNNABLE", "SUSPENDED_BLOCKED"}
    BY <1>1 DEF TablesType
  <1> QED BY <1>2 DEF Active, n

(* The tables of unmapped threads may change their priorities.             *)
LEMMA MovedSound ==
    ASSUME NEW k, NEW m, Good(k), Sound(k, semaphore, pc, timer),
           m.state = k.state, m.flags = k.flags, m.map = k.map, m.run = k.run,
           m.pending = k.pending, m.granted = k.granted,
           \A t \in Threads : m.priority[t] \in PkPriority,
           \A t \in Threads : k.state[t] = "MAPPED" => m.priority[t] = k.priority[t]
    PROVE  Sound(m, semaphore, pc, timer)
  <1>1. \A t \in Threads : Active(k, t) => ThreadSound(k, pc, timer, t)
    BY DEF Sound
  <1>2. \A t \in Threads : Active(m, t) => ThreadSound(m, pc, timer, t)
    BY <1>1 DEF ThreadSound, Active, Blocked, Flagged
  <1>3. \A s \in Semaphores : \A p \in m.pending[s] :
          QueuedSound(m, semaphore, s, p)
    BY DEF Sound, QueuedSound, Flagged
  <1> QED BY <1>2, <1>3 DEF Sound, Flagged

LEMMA PendPriorityChange ==
    ASSUME PendInv, PK_THREADS \notin NewPriorities,
           NEW t \in Threads, NEW p \in NewPriorities, PriorityChange(t, p)
    PROVE  QueuesTrue'
  <1>0. p \in PkPriority /\ p \in 0 .. PK_THREADS
    BY KernelAssumption DEF PkPriority
  <1>1. CASE ~IsMapped(t)
    <2>1. /\ priority' = [priority EXCEPT ![t] = p]
          /\ UNCHANGED <<state, flags, priority_map, run_queue, pending,
                         granted, semaphore, timer, pc>>
          /\ priority \in [Threads -> 0 .. PK_THREADS] /\ state[t] # "MAPPED"
      BY <1>1 DEF PriorityChange, PendInv, KernelInv, TypeOK, IsMapped
    <2>2. \A u \in Threads : priority'[u] = IF u = t THEN p ELSE priority[u]
      BY <2>1
    <2> USE DEF PendInv, QueuesTrue
    <2>3. RangesOK'
      BY <1>0, <2>1, <2>2 DEF RangesOK, InRange
    <2>4. FlagsOK'
      BY <2>1, <2>2 DEF FlagsOK, FlagsTrue, BlockedNow, IsActive
    <2>5. RunOK' /\ QueuesOK'
      BY <2>1 DEF RunOK, QueuesOK, QueuedTrue
    <2> QED BY <2>3, <2>4, <2>5
  <1>2. CASE IsMapped(t) /\ priority_map[p] # NULL
    BY <1>2, PendQuiet DEF PriorityChange, Panic
  <1>3. CASE IsMapped(t) /\ priority_map[p] = NULL
    <2> DEFINE u == UnmapThread(Tables, t)
               m == [u EXCEPT !.priority[t] = p]
               k == MapThread(m, t)
    <2>1. Install(k) /\ UNCHANGED <<semaphore, timer, pc>>
      BY <1>3 DEF PriorityChange
    <2>2. Tables.state[t] = "MAPPED" /\ Tables.map[p] = NULL
          /\ Tables \in TablesType
      BY <1>3, TablesFields, TablesGood DEF IsMapped, PendInv, Good
    <2>3. /\ Good(u) /\ Sound(u, semaphore, pc, timer)
          /\ u.state[t] # "MAPPED" /\ u.map[p] = NULL
      <3>1. /\ Good(u) /\ Sound(u, semaphore, pc, timer)
            /\ u.state[t] # "MAPPED"
            /\ u.map = [Tables.map EXCEPT ![Tables.priority[t]] = NULL]
        BY <2>2, TablesGood, SoundNow, UnmapSound, UnmapThreadGood DEF PendInv
      <3> QED BY <1>0, <2>2, <3>1 DEF TablesType
    <2>4. Active(u, t)
      BY <2>2, UnmapActive
    <2> HIDE DEF u
    <2>5. /\ m \in TablesType
          /\ m.priority = [u.priority EXCEPT ![t] = p]
          /\ m.state = u.state /\ m.flags = u.flags /\ m.run = u.run
          /\ m.pending = u.pending /\ m.map = u.map /\ m.count = u.count
          /\ m.granted = u.granted
      BY <1>0, <2>3 DEF Good, TablesType
    <2> HIDE DEF m
    <2>6. \A v \in Threads : m.priority[v] = IF v = t THEN p ELSE u.priority[v]
      BY <2>3, <2>5 DEF Good, TablesType
    <2>7. Good(m)
      BY <2>3, <2>5, <2>6 DEF Good, Exact, NoWait
    <2>8. \A v \in Threads : m.priority[v] \in PkPriority
      BY <1>0, <2>3, <2>6 DEF Sound
    <2>9. Sound(m, semaphore, pc, timer)
      BY <2>3, <2>5, <2>6, <2>8, MovedSound
    <2>10. Active(m, t) /\ m.state[t] # "MAPPED" /\ m.map[m.priority[t]] = NULL
      BY <2>3, <2>4, <2>5, <2>6 DEF Active
    <2>11. Sound(k, semaphore, pc, timer)
      BY <2>7, <2>9, <2>10, MapSound
    <2> QED BY <2>1, <2>11, SoundInstalled
  <1> QED BY <1>1, <1>2, <1>3

LEMMA PendPrioritySwap ==
    ASSUME PendInv, NEW a \in Threads, NEW b \in Threads, PrioritySwap(a, b)
    PROVE  QueuesTrue'
  <1>1. CASE SwapInUse(a, b)
    BY <1>1, SwapInstalls, PendQuiet DEF Panic
  <1>2. CASE ~SwapInUse(a, b)
    <2> DEFINE k1 == SwapOut(a)
               k2 == SwapOutBoth(a, b)
               k3 == Swapped(a, b)
               k4 == SwapIn(a, b)
               k5 == SwapInBoth(a, b)
               Fine(k) == Sound(k, semaphore, pc, timer)
    <2>1. a # b /\ Install(k5) /\ UNCHANGED <<semaphore, timer, pc>>
      BY <1>2, SwapInstalls
    <2> HIDE DEF k1, k2, k3, k4, k5
    <2>2. /\ Good(k1) /\ k1.state[a] # "MAPPED" /\ k1.state[b] = state[b]
          /\ Good(k2) /\ k2.priority = priority
          /\ k2.state[a] # "MAPPED" /\ k2.state[b] # "MAPPED"
          /\ k2.state[a] = k1.state[a]
          /\ Good(k3) /\ k3.state = k2.state
          /\ IsMapped(a) => k3.map[k3.priority[a]] = NULL
          /\ Good(k4) /\ k4.state[b] # "MAPPED" /\ k4.state[b] = k3.state[b]
          /\ IsMapped(b) => k4.map[k4.priority[b]] = NULL
      BY <1>2, <2>1, SwapGood DEF PendInv, k1, k2, k3, k4, k5
    <2>3. Good(Tables) /\ (\A t \in Threads : IsMapped(t) <=> Tables.state[t] = "MAPPED")
      BY TablesGood, TablesFields DEF PendInv, IsMapped
    <2>4. Fine(k1) /\ (IsMapped(a) => Active(k1, a))
      <3>1. CASE IsMapped(a)
        <4>1. k1 = UnmapThread(Tables, a)
          BY <3>1 DEF k1, SwapOut
        <4>2. Fine(k1)
          BY <2>3, <3>1, <4>1, SoundNow, UnmapSound DEF PendInv
        <4>3. Active(k1, a)
          BY <2>3, <4>1, UnmapActive DEF Good
        <4> QED BY <4>2, <4>3
      <3>2. CASE ~IsMapped(a)
        BY <3>2, SoundNow DEF k1, SwapOut, PendInv
      <3> QED BY <3>1, <3>2
    <2>5. Fine(k2) /\ (IsMapped(b) => Active(k2, b))
      <3>1. CASE IsMapped(b)
        <4>1. k2 = UnmapThread(k1, b) /\ k1.state[b] = "MAPPED"
          BY <2>2, <3>1 DEF k1, k2, SwapOutBoth, IsMapped
        <4>2. Fine(k2)
          BY <2>2, <2>4, <4>1, UnmapSound
        <4>3. Active(k2, b)
          BY <2>2, <4>1, UnmapActive DEF Good
        <4> QED BY <4>2, <4>3
      <3>2. CASE ~IsMapped(b)
        <4>1. k2 = k1
          BY <3>2 DEF k1, k2, SwapOutBoth
        <4> QED BY <2>4, <3>2, <4>1
      <3> QED BY <3>1, <3>2
    <2>6. Fine(k3)
      <3>1. k2 \in TablesType
        BY <2>2 DEF Good
      <3>2. k3 = [k2 EXCEPT !.priority[a] = priority[b], !.priority[b] = priority[a]]
        BY DEF k2, k3, Swapped
      <3>3. /\ k3.state = k2.state /\ k3.flags = k2.flags /\ k3.run = k2.run
            /\ k3.pending = k2.pending /\ k3.map = k2.map
            /\ k3.granted = k2.granted
            /\ k3.priority = [k2.priority EXCEPT ![a] = priority[b], ![b] = priority[a]]
        BY <3>1, <3>2 DEF TablesType
      <3>4. \A t \in Threads : k3.priority[t] \in PkPriority
                               /\ (t \notin {a, b} => k3.priority[t] = k2.priority[t])
        BY <2>2, <2>5, <3>1, <3>3 DEF TablesType, Sound
      <3> QED BY <2>2, <2>5, <3>3, <3>4, MovedSound, ZenonT(60)
    <2>7. Fine(k4)
      <3>1. CASE IsMapped(a)
        <4>1. k4 = MapThread(k3, a)
          BY <3>1 DEF k3, k4, SwapIn
        <4>2. k3.state[a] # "MAPPED" /\ Active(k3, a)
          BY <2>2, <2>4, <3>1 DEF Active
        <4> QED BY <2>2, <2>6, <3>1, <4>1, <4>2, MapSound
      <3>2. CASE ~IsMapped(a)
        BY <2>6, <3>2 DEF k3, k4, SwapIn
      <3> QED BY <3>1, <3>2
    <2>8. Fine(k5)
      <3>1. CASE IsMapped(b)
        <4>1. k5 = MapThread(k4, b)
          BY <3>1 DEF k4, k5, SwapInBoth
        <4>2. Active(k4, b)
          BY <2>2, <2>5, <3>1 DEF Active
        <4> QED BY <2>2, <2>7, <3>1, <4>1, <4>2, MapSound
      <3>2. CASE ~IsMapped(b)
        BY <2>7, <3>2 DEF k4, k5, SwapInBoth
      <3> QED BY <3>1, <3>2
    <2> QED BY <2>1, <2>8, SoundInstalled
  <1> QED BY <1>1, <1>2

LEMMA PendContext ==
    ASSUME PendInv, StartThreads \/ InterruptEntry \/ InterruptExit
    PROVE  QueuesTrue'
  BY PendQuiet DEF StartThreads, InterruptEntry, InterruptExit

LEMMA PendSleep ==
    ASSUME PendInv, Sleep
    PROVE  QueuesTrue'
  <1> DEFINE p == priority[current]
  <1>1. /\ current \in Threads /\ pc[current] = "run" /\ p \in run_queue
        /\ state[current] = "MAPPED" /\ flags[current] = {}
        /\ \A t \in Threads \ {current} : state[t] = "MAPPED" => priority[t] # p
    BY RunningIsSound DEF Sleep, CanCall, Masked, InThread
  <1>2. /\ timer' = [timer EXCEPT ![current] = "queued"]
        /\ pc' = [pc EXCEPT ![current] = "sleep"]
        /\ flags' = [flags EXCEPT ![current] = @ \union {"TIMER_PEND"}]
        /\ run_queue' = QueueDelete(run_queue, p)
        /\ UNCHANGED <<state, priority, pending, semaphore, priority_map, granted>>
    BY DEF Sleep, Install, Tables
  <1>3. TypeOK
    BY DEF PendInv, KernelInv
  <1>4. /\ \A t \in Threads \ {current} :
             flags'[t] = flags[t] /\ timer'[t] = timer[t] /\ pc'[t] = pc[t]
        /\ flags'[current] = {"TIMER_PEND"} /\ pc'[current] = "sleep"
        /\ run_queue' = run_queue \ {p}
    BY <1>1, <1>2, <1>3 DEF TypeOK, QueueDelete
  <1> USE DEF PendInv, QueuesTrue
  <1>5. ASSUME NEW t \in Threads PROVE InRange(t)' /\ FlagsTrue(t)'
    <2>1. InRange(t) /\ FlagsTrue(t)
      BY DEF RangesOK, FlagsOK
    <2>2. CASE t = current
      BY <1>1, <1>2, <1>4, <2>1, <2>2 DEF InRange, FlagsTrue, BlockedNow
    <2>3. CASE t # current
      <3>1. BlockedNow(t)' <=> BlockedNow(t)
        BY <1>1, <1>2, <1>4, <2>3 DEF BlockedNow
      <3> QED BY <1>2, <1>4, <2>1, <2>3, <3>1 DEF InRange, FlagsTrue, IsActive
    <2> QED BY <2>2, <2>3
  <1>6. RunOK'
    BY <1>2, <1>4 DEF RunOK
  <1>7. QueuesOK'
    <2> SUFFICES ASSUME NEW s \in Semaphores, NEW q \in pending[s]
                 PROVE  QueuedTrue(s, q)'
      BY <1>2 DEF QueuesOK
    <2>1. QueuedTrue(s, q)
      BY DEF QueuesOK
    <2> QED BY <1>1, <1>2, <1>4, <2>1 DEF QueuedTrue
  <1> QED BY <1>5, <1>6, <1>7 DEF RangesOK, FlagsOK

(* The thread that returns was not blocked, so nothing waits for it.       *)
LEMMA PendReturn ==
    ASSUME PendInv, SleepReturn \/ SemaphorePendReturn
    PROVE  QueuesTrue'
  <1>1. /\ current \in Threads /\ state[current] = "MAPPED"
        /\ priority[current] \in run_queue
        /\ \A s \in Semaphores : priority[current] \notin pending[s]
        /\ priority_map[priority[current]] = current
        /\ timer[current] = "idle" /\ TypeOK /\ PriorityMapExact
        /\ "SEMAPHORE_PEND" \in flags[current] <=> pc[current] = "pend"
        /\ pc[current] # "sleep" => flags[current] \subseteq {"SEMAPHORE_PEND"}
    BY RunningIsSound DEF SleepReturn, SemaphorePendReturn, PendInv, KernelInv
  <1>2. /\ UNCHANGED <<state, priority, run_queue, semaphore, priority_map,
                        granted, pending>>
        /\ flags'[current] = {} /\ pc'[current] = "run" /\ timer' = timer
        /\ \A t \in Threads \ {current} : flags'[t] = flags[t] /\ pc'[t] = pc[t]
    <2>1. CASE SleepReturn
      <3>1. /\ flags' = [flags EXCEPT ![current] =
                            @ \ {"TIMER_PEND", "TIMED_OUT"}]
            /\ pc' = [pc EXCEPT ![current] = "run"]
            /\ pc[current] = "sleep"
            /\ UNCHANGED <<state, priority, run_queue, semaphore, timer,
                           pending, priority_map, granted>>
        BY <2>1 DEF SleepReturn
      <3>2. "SEMAPHORE_PEND" \notin flags[current]
        BY <1>1, <3>1
      <3> QED BY <1>1, <3>1, <3>2 DEF TypeOK
    <2>2. CASE SemaphorePendReturn
      <3>0. pc[current] = "pend" /\ flags[current] = {"SEMAPHORE_PEND"}
        BY <1>1, <2>2 DEF SemaphorePendReturn
      <3>1. /\ pending' = [pending EXCEPT ![semaphore[current]] = @]
            /\ timer' = [timer EXCEPT ![current] = @]
            /\ flags' = [flags EXCEPT ![current] = @ \ {"SEMAPHORE_PEND"}]
            /\ pc' = [pc EXCEPT ![current] = "run"]
            /\ UNCHANGED <<state, priority, run_queue, semaphore,
                           priority_map, granted>>
        <4>1. "TIMER_PEND" \notin flags[current]
          BY <3>0
        <4> QED BY <2>2, <4>1 DEF SemaphorePendReturn
      <3>2. pending' = pending /\ timer' = timer
        BY <1>1, <3>1 DEF TypeOK
      <3> QED BY <1>1, <3>0, <3>1, <3>2 DEF TypeOK
    <2> QED BY <2>1, <2>2
  <1> USE DEF PendInv, QueuesTrue
  <1>3. ASSUME NEW t \in Threads PROVE InRange(t)' /\ FlagsTrue(t)'
    <2>1. InRange(t) /\ FlagsTrue(t) /\ (BlockedNow(t)' <=> BlockedNow(t))
      BY <1>2 DEF RangesOK, FlagsOK, BlockedNow
    <2>2. CASE t = current
      BY <1>1, <1>2, <2>1, <2>2 DEF InRange, FlagsTrue
    <2>3. CASE t # current
      BY <1>2, <2>1, <2>3 DEF InRange, FlagsTrue, IsActive
    <2> QED BY <2>2, <2>3
  <1>4. RunOK'
    BY <1>2 DEF RunOK
  <1>5. QueuesOK'
    <2> SUFFICES ASSUME NEW s \in Semaphores, NEW q \in pending[s]
                 PROVE  QueuedTrue(s, q)'
      BY <1>2 DEF QueuesOK
    <2>1. QueuedTrue(s, q) /\ q \in 0 .. PK_THREADS
      BY <1>1, KernelAssumption DEF QueuesOK, TypeOK, PkPriority
    <2>2. priority_map[q] # current
      <3>1. ASSUME priority_map[q] = current PROVE FALSE
        <4>1. priority[current] = q
          BY <1>1, <2>1, <3>1 DEF PriorityMapExact
        <4> QED BY <1>1, <4>1
      <3> QED BY <3>1
    <2> QED BY <1>2, <2>1, <2>2 DEF QueuedTrue
  <1> QED BY <1>3, <1>4, <1>5 DEF RangesOK, FlagsOK

LEMMA PendTimerExpire ==
    ASSUME PendInv, NEW t \in Threads, TimerExpire(t)
    PROVE  QueuesTrue'
  <1>1. \A u \in Threads : timer'[u] = "idle" \/ timer[u] # "idle"
    BY DEF TimerExpire, PendInv, KernelInv, TypeOK
  <1> QED BY <1>1, PendQuiet DEF TimerExpire

(* A timeout finds its thread asleep: it is in no semaphore's queue.       *)
LEMMA PendThreadTimeout ==
    ASSUME PendInv, NEW t \in Threads, ThreadTimeout(t)
    PROVE  QueuesTrue'
  <1>0. /\ timer' = [timer EXCEPT ![t] = "idle"]
        /\ UNCHANGED <<semaphore, pc>> /\ TypeOK /\ PriorityMapExact
        /\ timer[t] # "idle"
    BY DEF ThreadTimeout, PendInv, KernelInv
  <1>1. \A u \in Threads : timer'[u] = IF u = t THEN "idle" ELSE timer[u]
    BY <1>0 DEF TypeOK
  <1>2. ASSUME IsActive(t)
        PROVE  /\ pc[t] = "sleep" /\ BlockedNow(t)
               /\ "SEMAPHORE_PEND" \notin flags[t]
    BY <1>0, <1>2 DEF PendInv, QueuesTrue, FlagsOK, FlagsTrue
  <1> USE DEF PendInv, QueuesTrue
  <1>3. CASE /\ IsMapped(t) /\ ~Runnable(Tables, t)
             /\ Install([Tables EXCEPT !.flags[t] = @ \union {"TIMED_OUT"},
                                       !.run = QueueInsert(@, priority[t])])
    <2>1. /\ UNCHANGED <<state, priority, pending, priority_map, granted>>
          /\ flags' = [flags EXCEPT ![t] = @ \union {"TIMED_OUT"}]
          /\ run_queue' = QueueInsert(run_queue, priority[t])
      BY <1>3 DEF Install, Tables
    <2>2. /\ state[t] = "MAPPED" /\ IsActive(t)
          /\ priority[t] \in PkPriority /\ priority[t] \in 0 .. PK_THREADS
      BY <1>0, <1>3 DEF RangesOK, InRange, IsMapped, IsActive, TypeOK
    <2>3. run_queue' = run_queue \union {priority[t]}
      BY <2>1, <2>2, KernelAssumption DEF QueueInsert, PkPriority
    <2>4. \A u \in Threads : flags'[u] = IF u = t THEN flags[t] \union {"TIMED_OUT"}
                                         ELSE flags[u]
      BY <1>0, <2>1 DEF TypeOK
    <2>5. priority_map[priority[t]] = t
      BY <1>0, <2>2 DEF PriorityMapExact
    <2>6. ASSUME NEW u \in Threads PROVE InRange(u)' /\ FlagsTrue(u)'
      <3>1. InRange(u) /\ FlagsTrue(u)
        BY DEF RangesOK, FlagsOK
      <3>2. CASE u = t
        BY <1>0, <1>1, <1>2, <2>1, <2>2, <2>4, <3>1, <3>2 DEF InRange, FlagsTrue
      <3>3. CASE u # t
        <4>1. state[u] = "MAPPED" => priority[u] # priority[t]
          BY <1>0, <2>2, <2>5, <3>3 DEF PriorityMapExact
        <4>2. BlockedNow(u)' <=> BlockedNow(u)
          BY <2>1, <2>3, <4>1 DEF BlockedNow
        <4> QED BY <1>0, <1>1, <2>1, <2>4, <3>1, <3>3, <4>2
                DEF InRange, FlagsTrue, IsActive
      <3> QED BY <3>2, <3>3
    <2>7. RunOK'
      BY <2>1, <2>3, <2>5 DEF RunOK
    <2>8. QueuesOK'
      <3> SUFFICES ASSUME NEW s \in Semaphores, NEW q \in pending[s]
                   PROVE  QueuedTrue(s, q)'
        BY <2>1 DEF QueuesOK
      <3>1. QueuedTrue(s, q)
        BY DEF QueuesOK
      <3>2. q # priority[t]
        BY <1>2, <2>2, <2>5, <3>1 DEF QueuedTrue
      <3> QED BY <1>0, <2>1, <2>3, <2>4, <3>1, <3>2 DEF QueuedTrue
    <2> QED BY <2>6, <2>7, <2>8 DEF RangesOK, FlagsOK
  <1>4. CASE UNCHANGED tableVars
    BY <1>0, <1>1, <1>4, PendQuiet
  <1>5. CASE /\ state[t] = "SUSPENDED_BLOCKED"
             /\ Install([Tables EXCEPT !.flags[t] = @ \union {"TIMED_OUT"},
                                       !.state[t] = "SUSPENDED_RUNNABLE"])
    <2>1. /\ UNCHANGED <<priority, pending, run_queue, priority_map, granted>>
          /\ flags' = [flags EXCEPT ![t] = @ \union {"TIMED_OUT"}]
          /\ state' = [state EXCEPT ![t] = "SUSPENDED_RUNNABLE"]
      BY <1>5 DEF Install, Tables
    <2>2. \A u \in Threads :
            /\ flags'[u] = IF u = t THEN flags[t] \union {"TIMED_OUT"} ELSE flags[u]
            /\ state'[u] = IF u = t THEN "SUSPENDED_RUNNABLE" ELSE state[u]
      BY <1>0, <2>1 DEF TypeOK
    <2>3. IsActive(t)
      BY <1>5 DEF IsActive
    <2>4. ASSUME NEW u \in Threads PROVE InRange(u)' /\ FlagsTrue(u)'
      <3>1. InRange(u) /\ FlagsTrue(u)
        BY DEF RangesOK, FlagsOK
      <3>2. CASE u = t
        BY <1>0, <1>1, <1>2, <2>1, <2>2, <2>3, <3>1, <3>2 DEF InRange, FlagsTrue
      <3>3. CASE u # t
        BY <1>0, <1>1, <2>1, <2>2, <3>1, <3>3
           DEF InRange, FlagsTrue, IsActive, BlockedNow
      <3> QED BY <3>2, <3>3
    <2>5. RunOK'
      BY <2>1 DEF RunOK
    <2>6. QueuesOK'
      <3> SUFFICES ASSUME NEW s \in Semaphores, NEW q \in pending[s]
                   PROVE  QueuedTrue(s, q)'
        BY <2>1 DEF QueuesOK
      <3>1. QueuedTrue(s, q)
        BY DEF QueuesOK
      <3> QED BY <1>0, <2>1, <2>2, <3>1 DEF QueuedTrue
    <2> QED BY <2>4, <2>5, <2>6 DEF RangesOK, FlagsOK
  <1> QED BY <1>3, <1>4, <1>5 DEF ThreadTimeout

(* The priorities R move from the queue of s to the run queue, and their   *)
(* threads are given their token.                                          *)
LEMMA PendReleased ==
    ASSUME PendInv, NEW s \in Semaphores, NEW R \in SUBSET pending[s],
           UNCHANGED <<state, priority, flags, priority_map, semaphore, timer, pc>>,
           run_queue' = run_queue \union R,
           pending' = [pending EXCEPT ![s] = @ \ R],
           \A t \in Threads :
              granted'[t] <=> granted[t] \/ \E p \in R : t \in Waiter(s, p)
    PROVE  QueuesTrue'
  <1>1. TypeOK /\ PriorityMapExact
    BY DEF PendInv, KernelInv
  <1>2. \A p \in R : QueuedTrue(s, p) /\ p \in 0 .. PK_THREADS
    BY <1>1, KernelAssumption
       DEF PendInv, QueuesTrue, QueuesOK, TypeOK, PkPriority
  <1>3. ASSUME NEW t \in Threads
        PROVE  (\E p \in R : t \in Waiter(s, p))
                 <=> state[t] = "MAPPED" /\ priority[t] \in R
    <2>1. \A p \in R : t \in Waiter(s, p) <=> priority_map[p] = t
      BY <1>2 DEF Waiter, QueuedTrue
    <2> QED BY <1>1, <1>2, <2>1 DEF PriorityMapExact
  <1> USE DEF PendInv, QueuesTrue
  <1>4. ASSUME NEW t \in Threads PROVE InRange(t)' /\ FlagsTrue(t)'
    <2> DEFINE X == state[t] = "MAPPED" /\ priority[t] \in R
    <2>1. InRange(t) /\ FlagsTrue(t)
      BY DEF RangesOK, FlagsOK
    <2>2. InRange(t)' /\ (IsActive(t)' <=> IsActive(t))
      BY <2>1 DEF InRange, IsActive
    <2>3. BlockedNow(t)' <=> BlockedNow(t) /\ ~X
      BY DEF BlockedNow
    <2>4. granted'[t] <=> granted[t] \/ X
      BY <1>3
    <2>5. ASSUME X PROVE "SEMAPHORE_PEND" \in flags[t]
      <3>1. t \in Waiter(s, priority[t])
        <4>1. PICK p \in R : t \in Waiter(s, p)
          BY <1>3, <2>5
        <4>2. p = priority[t]
          BY <1>1, <1>2, <4>1 DEF Waiter, PriorityMapExact
        <4> QED BY <4>1, <4>2
      <3> QED BY <3>1 DEF Waiter
    <2> HIDE DEF X
    <2>6. ASSUME IsActive(t)
          PROVE  /\ pc[t] = "pend" => (granted'[t] <=> ~BlockedNow(t)')
                 /\ timer[t] # "idle" => pc[t] = "sleep" /\ BlockedNow(t)'
      <3>1. /\ "SEMAPHORE_PEND" \in flags[t] <=> pc[t] = "pend"
            /\ pc[t] = "pend" => (granted[t] <=> ~BlockedNow(t))
            /\ timer[t] # "idle" => pc[t] = "sleep" /\ BlockedNow(t)
        BY <2>1, <2>6 DEF FlagsTrue
      <3> HIDE DEF BlockedNow
      <3>2. ASSUME pc[t] = "pend" PROVE granted'[t] <=> ~BlockedNow(t)'
        BY <2>3, <2>4, <3>1, <3>2, Zenon
      <3>3. pc[t] = "sleep" => ~X
        BY <2>5, <3>1
      <3> QED BY <2>3, <3>1, <3>2, <3>3
    <2>7. IsActive(t) =>
            /\ "SEMAPHORE_PEND" \in flags[t] <=> pc[t] = "pend"
            /\ pc[t] # "sleep" => flags[t] \subseteq {"SEMAPHORE_PEND"}
      BY <2>1 DEF FlagsTrue
    <2>8. FlagsTrue(t)'
      BY <2>2, <2>6, <2>7 DEF FlagsTrue
    <2> QED BY <2>2, <2>8
  <1>5. RunOK'
    BY <1>2 DEF RunOK, QueuedTrue
  <1>6. QueuesOK'
    <2> SUFFICES ASSUME NEW r \in Semaphores, NEW q \in pending'[r]
                 PROVE  QueuedTrue(r, q)'
      BY DEF QueuesOK
    <2>1. q \in pending[r] /\ (r = s => q \notin R)
      BY <1>1 DEF TypeOK
    <2>2. QueuedTrue(r, q)
      BY <2>1 DEF QueuesOK
    <2>3. q \notin R
      BY <1>2, <2>1, <2>2 DEF QueuedTrue
    <2> QED BY <2>2, <2>3 DEF QueuedTrue
  <1> QED BY <1>4, <1>5, <1>6 DEF RangesOK, FlagsOK

LEMMA PendPost ==
    ASSUME PendInv, NEW s \in Semaphores, SemaphorePost(s)
    PROVE  QueuesTrue'
  <1> DEFINE p == QueueMin(pending[s])
  <1>0. pending \in [Semaphores -> SUBSET PkPriority]
    BY DEF PendInv, KernelInv, TypeOK
  <1>1. CASE p = PK_THREADS
    <2>1. UNCHANGED <<state, priority, flags, priority_map, run_queue, pending,
                      granted, semaphore, timer, pc>>
      BY <1>1 DEF SemaphorePost
    <2> QED BY <2>1 DEF PendInv, QueuesTrue, RangesOK, InRange, FlagsOK,
                        FlagsTrue, BlockedNow, IsActive, RunOK, QueuesOK,
                        QueuedTrue
  <1>2. CASE p # PK_THREADS
    <2>1. /\ pending' = [pending EXCEPT ![s] = QueueDelete(@, p)]
          /\ run_queue' = QueueInsert(run_queue, p)
          /\ granted' = [t \in Threads |-> granted[t] \/ t \in Waiter(s, p)]
          /\ UNCHANGED <<state, priority, flags, priority_map, semaphore,
                         timer, pc>>
      BY <1>2 DEF SemaphorePost, Install, Tables
    <2>2. p \in pending[s]
      BY <1>0, <1>2, QueueMinLemma
    <2> HIDE DEF p
    <2>3. /\ run_queue' = run_queue \union {p}
          /\ pending' = [pending EXCEPT ![s] = @ \ {p}]
      BY <1>2, <2>1 DEF QueueInsert, QueueDelete
    <2>4. \A t \in Threads :
            granted'[t] <=> granted[t] \/ \E q \in {p} : t \in Waiter(s, q)
      BY <2>1, Zenon
    <2>5. {p} \in SUBSET pending[s]
      BY <2>2
    <2> QED BY <2>1, <2>3, <2>4, <2>5, PendReleased
  <1> QED BY <1>1, <1>2

LEMMA PendReleaseAll ==
    ASSUME PendInv, NEW s \in Semaphores, SemaphoreReleaseAll(s)
    PROVE  QueuesTrue'
  <1> DEFINE R == pending[s]
             released == UNION {Waiter(s, p) : p \in R}
  <1>1. /\ pending' = [pending EXCEPT ![s] = {}]
        /\ run_queue' = run_queue \union R
        /\ granted' = [t \in Threads |-> granted[t] \/ t \in released]
        /\ UNCHANGED <<state, priority, flags, priority_map, semaphore, timer, pc>>
    BY DEF SemaphoreReleaseAll, Install, Tables
  <1>2. \A t : t \in released <=> \E p \in R : t \in Waiter(s, p)
    OBVIOUS
  <1> HIDE DEF released
  <1>3. \A t \in Threads :
          granted'[t] <=> granted[t] \/ \E p \in R : t \in Waiter(s, p)
    BY <1>1, <1>2, Zenon
  <1>4. pending' = [pending EXCEPT ![s] = @ \ R] /\ R \in SUBSET pending[s]
    BY <1>1
  <1> QED BY <1>1, <1>3, <1>4, PendReleased

LEMMA PendTake ==
    ASSUME PendInv, NEW s \in Semaphores, SemaphoreTake(s)
    PROVE  QueuesTrue'
  <1>1. UNCHANGED <<state, priority, flags, priority_map, run_queue, pending,
                    granted, semaphore, timer, pc>>
    BY DEF SemaphoreTake
  <1> QED BY <1>1 DEF PendInv, QueuesTrue, RangesOK, InRange, FlagsOK,
                      FlagsTrue, BlockedNow, IsActive, RunOK, QueuesOK,
                      QueuedTrue

LEMMA PendPend ==
    ASSUME PendInv, NEW s \in Semaphores, NEW timeout \in Timeouts,
           timeout # "TIMED", SemaphorePend(s, timeout)
    PROVE  QueuesTrue'
  <1>1. CASE ~InThread
    BY <1>1, PendQuiet DEF SemaphorePend, Panic
  <1>2. CASE InThread
    <2> DEFINE p == priority[current]
    <2>1. /\ current \in Threads /\ state[current] = "MAPPED" /\ p \in run_queue
          /\ priority_map[p] = current /\ flags[current] = {}
          /\ timer[current] = "idle" /\ TypeOK
          /\ \A r \in Semaphores : p \notin pending[r]
          /\ \A t \in Threads \ {current} : state[t] = "MAPPED" => priority[t] # p
      BY <1>2, RunningIsSound
         DEF SemaphorePend, CanCall, Masked, PendInv, KernelInv
    <2>2. /\ semaphore' = [semaphore EXCEPT ![current] = s]
          /\ timer' = [timer EXCEPT ![current] = @]
          /\ pc' = [pc EXCEPT ![current] = "pend"]
          /\ pending' = [pending EXCEPT ![s] = QueueInsert(@, p)]
          /\ run_queue' = QueueDelete(run_queue, p)
          /\ granted' = [granted EXCEPT ![current] = FALSE]
          /\ flags' = [flags EXCEPT ![current] = @ \union {"SEMAPHORE_PEND"} \union {}]
          /\ UNCHANGED <<state, priority, priority_map>>
      BY <1>2 DEF SemaphorePend, Install, Tables
    <2>3. /\ \A t \in Threads \ {current} :
               /\ flags'[t] = flags[t] /\ pc'[t] = pc[t]
               /\ semaphore'[t] = semaphore[t] /\ granted'[t] = granted[t]
          /\ flags'[current] = {"SEMAPHORE_PEND"} /\ pc'[current] = "pend"
          /\ semaphore'[current] = s /\ granted'[current] = FALSE
      BY <2>1, <2>2 DEF TypeOK
    <2>4. timer' = timer /\ run_queue' = run_queue \ {p}
      BY <2>1, <2>2 DEF TypeOK, QueueDelete
    <2> USE DEF PendInv, QueuesTrue
    <2>5. ASSUME NEW t \in Threads PROVE InRange(t)' /\ FlagsTrue(t)'
      <3>1. InRange(t) /\ FlagsTrue(t)
        BY DEF RangesOK, FlagsOK
      <3>2. CASE t = current
        <4>1. BlockedNow(t)'
          BY <2>1, <2>2, <2>4, <3>2 DEF BlockedNow
        <4> QED BY <2>1, <2>2, <2>3, <2>4, <3>1, <3>2, <4>1 DEF InRange, FlagsTrue
      <3>3. CASE t # current
        <4>1. BlockedNow(t)' <=> BlockedNow(t)
          BY <2>1, <2>2, <2>4, <3>3 DEF BlockedNow
        <4> QED BY <2>2, <2>3, <2>4, <3>1, <3>3, <4>1 DEF InRange, FlagsTrue, IsActive
      <3> QED BY <3>2, <3>3
    <2>6. RunOK'
      BY <2>2, <2>4 DEF RunOK
    <2>7. QueuesOK'
      <3> SUFFICES ASSUME NEW r \in Semaphores, NEW q \in pending'[r]
                   PROVE  QueuedTrue(r, q)'
        BY DEF QueuesOK
      <3>1. q \in pending[r] \/ (q = p /\ r = s)
        BY <2>1, <2>2 DEF TypeOK, QueueInsert
      <3>2. CASE q = p /\ r = s
        BY <2>1, <2>2, <2>3, <2>4, <3>2 DEF QueuedTrue
      <3>3. CASE q \in pending[r]
        <4>1. QueuedTrue(r, q)
          BY <3>3 DEF QueuesOK
        <4>2. priority_map[q] # current
          BY <2>1, <4>1 DEF QueuedTrue
        <4> QED BY <2>2, <2>3, <2>4, <4>1, <4>2 DEF QueuedTrue
      <3> QED BY <3>1, <3>2, <3>3
    <2> QED BY <2>5, <2>6, <2>7 DEF RangesOK, FlagsOK
  <1> QED BY <1>1, <1>2

LEMMA PendNext ==
    ASSUME PK_THREADS \notin NewPriorities, "TIMED" \notin Timeouts,
           PendInv, [Next]_vars
    PROVE  PendInv'
  <1>0. KernelInv'
    BY NextInv DEF PendInv
  <1> SUFFICES QueuesTrue'
    BY <1>0 DEF PendInv
  <1>1. CASE StartThreads \/ InterruptEntry \/ InterruptExit
    BY <1>1, PendContext
  <1>2. CASE Complete
    <2>1. current \in Threads
      BY <1>2 DEF Complete, InThread, PendInv, KernelInv, TypeOK
    <2> QED BY <1>2, <2>1, PendRemove DEF Complete
  <1>3. CASE Sleep
    BY <1>3, PendSleep
  <1>4. CASE SleepReturn \/ SemaphorePendReturn
    BY <1>4, PendReturn
  <1>5. CASE \E t \in Threads : Resume(t)
    BY <1>5, PendResume
  <1>6. CASE \E t \in Threads : Suspend(t)
    BY <1>6, PendSuspend
  <1>7. CASE \E t \in Threads : Delete(t)
    BY <1>7, PendRemove DEF Delete
  <1>8. CASE \E t \in Threads : TimerExpire(t)
    BY <1>8, PendTimerExpire
  <1>9. CASE \E t \in Threads : ThreadTimeout(t)
    BY <1>9, PendThreadTimeout
  <1>10. CASE \E t \in Threads, p \in PkPriority : Create(t, p)
    BY <1>10, PendCreate
  <1>11. CASE \E t \in Threads, p \in NewPriorities : PriorityChange(t, p)
    BY <1>11, PendPriorityChange
  <1>12. CASE \E t \in Threads, u \in Threads : PrioritySwap(t, u)
    BY <1>12, PendPrioritySwap
  <1>13. CASE \E s \in Semaphores : SemaphorePost(s)
    BY <1>13, PendPost
  <1>14. CASE \E s \in Semaphores : SemaphoreReleaseAll(s)
    BY <1>14, PendReleaseAll
  <1>15. CASE \E s \in Semaphores : SemaphoreTake(s)
    BY <1>15, PendTake
  <1>16. CASE \E s \in Semaphores, timeout \in Timeouts : SemaphorePend(s, timeout)
    BY <1>16, PendPend
  <1>17. CASE UNCHANGED vars
    BY <1>17, PendQuiet DEF vars
  <1> QED BY <1>1, <1>2, <1>3, <1>4, <1>5, <1>6, <1>7, <1>8, <1>9, <1>10, <1>11,
             <1>12, <1>13, <1>14, <1>15, <1>16, <1>17 DEF Next

LEMMA PendInvariant ==
    ASSUME PK_THREADS \notin NewPriorities, "TIMED" \notin Timeouts
    PROVE  Spec => []PendInv
  <1>1. Init => PendInv
    <2> SUFFICES ASSUME Init PROVE PendInv
      OBVIOUS
    <2> USE DEF Init
    <2>1. RangesOK
      BY KernelAssumption, Zenon DEF RangesOK, InRange
    <2>2. FlagsOK
      BY DEF FlagsOK, FlagsTrue, BlockedNow
    <2>3. RunOK /\ QueuesOK
      BY DEF RunOK, QueuesOK
    <2> QED BY <2>1, <2>2, <2>3, InitInv DEF PendInv, QueuesTrue
  <1>2. PendInv /\ [Next]_vars => PendInv'
    BY PendNext
  <1> QED BY <1>1, <1>2, PTL DEF Spec

(* The run queue, the queues of the semaphores and what pends return agree *)
(* (pk_thread_core.c:55-145, pk_semaphore_core.c:58-244), for pends that   *)
(* wait forever: the pends of the SGPE, PGPE and CME threads.              *)
THEOREM QueuesAgree ==
    ASSUME PK_THREADS \notin NewPriorities, "TIMED" \notin Timeouts
    PROVE  Spec => []PendsAreSound
  <1>1. PendInv => PendsAreSound
    <2> SUFFICES ASSUME PendInv PROVE PendsAreSound
      OBVIOUS
    <2>1. RunQueueMapped
      BY KernelAssumption DEF PendInv, QueuesTrue, RunOK, RunQueueMapped
    <2>2. WaitersAreBlocked
      <3> SUFFICES ASSUME NEW s \in Semaphores, NEW p \in pending[s]
                   PROVE  Waiter(s, p) # {} /\ p \notin run_queue
        BY DEF WaitersAreBlocked
      <3>1. QueuedTrue(s, p)
        BY DEF PendInv, QueuesTrue, QueuesOK
      <3>2. priority_map[p] \in Waiter(s, p)
        BY <3>1 DEF QueuedTrue, Waiter
      <3> QED BY <3>1, <3>2 DEF QueuedTrue
    <2>3. OkMeansGranted
      <3> SUFFICES ASSUME InThread, pc[current] = "pend"
                   PROVE  granted[current] <=> "TIMED_OUT" \notin flags[current]
        BY DEF OkMeansGranted, Masked
      <3>1. granted[current] /\ flags[current] \subseteq {"SEMAPHORE_PEND"}
        BY RunningIsSound
      <3>2. "TIMED_OUT" \notin flags[current]
        BY <3>1
      <3> QED BY <3>1, <3>2
    <2> QED BY <2>1, <2>2, <2>3 DEF PendsAreSound
  <1> QED BY <1>1, PendInvariant, PTL

(* Every post has one effect, unless pends have timeouts: it is counted,   *)
(* or it makes runnable one thread that was not (pk_semaphore_post); with  *)
(* timeouts a post may find a thread that has just timed out               *)
(* (MCPkKernelLostPost.cfg).  The count has more than one value, as the 32 *)
(* bits of PkSemaphoreCount do.                                            *)
THEOREM PostsTakeEffect ==
    ASSUME PK_THREADS \notin NewPriorities, "TIMED" \notin Timeouts,
           CountMod > 1
    PROVE  Spec => PostTakesEffect
  <1> DEFINE Effect(s) == count' # count \/ run_queue' # run_queue
  <1>1. ASSUME PendInv, NEW s \in Semaphores, SemaphorePost(s)
        PROVE  Effect(s)
    <2> DEFINE p == QueueMin(pending[s])
    <2>0. pending[s] \subseteq PkPriority
      BY <1>1 DEF PendInv, KernelInv, TypeOK
    <2>1. CASE p # PK_THREADS
      <3>1. p \in pending[s]
        BY <2>0, <2>1, QueueMinLemma
      <3>2. p \notin run_queue
        BY <1>1, <3>1 DEF PendInv, QueuesTrue, QueuesOK, QueuedTrue
      <3>3. run_queue' = QueueInsert(run_queue, p)
        BY <1>1, <2>1 DEF SemaphorePost, Install, Tables
      <3> QED BY <2>1, <3>2, <3>3 DEF QueueInsert
    <2>2. CASE p = PK_THREADS
      <3>1. count' = [count EXCEPT ![s] = (count[s] + 1) % CountMod]
        BY <1>1, <2>2 DEF SemaphorePost
      <3>2. count \in [Semaphores -> 0 .. CountMod - 1]
        BY <1>1 DEF PendInv, KernelInv, TypeOK
      <3>3. PICK n \in 0 .. CountMod - 1 : n = count[s]
        BY <3>2
      <3>4. (n + 1) % CountMod = IF n + 1 = CountMod THEN 0 ELSE n + 1
        BY KernelAssumption
      <3>5. count'[s] = (n + 1) % CountMod
        BY <3>1, <3>2, <3>3
      <3> QED BY <3>3, <3>4, <3>5
    <2> QED BY <2>1, <2>2
  <1>2. PendInv /\ [Next]_vars =>
            [\A s \in Semaphores : SemaphorePost(s) =>
                 count' # count \/ run_queue' # run_queue]_vars
    BY <1>1
  <1> QED BY <1>2, PendInvariant, PTL DEF Spec, PostTakesEffect
=============================================================================
