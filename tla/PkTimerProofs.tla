---------------------------- MODULE PkTimerProofs ----------------------------
(***************************************************************************)
(* Proofs about PkTimer: for every set of timers, every interval, horizon  *)
(* and width of the decrementer, the time queue is sound as long as no     *)
(* handler that preempts the bottom half cancels a timer (one that does    *)
(* takes the timer the walk stands on: MCPkTimerCancel.cfg).               *)
(*                                                                         *)
(* The links are argued about as two functions, nx and pv, so that one     *)
(* lemma serves every step that links or unlinks a timer.                  *)
(***************************************************************************)
EXTENDS PkTimer, TLAPS

Links == [Nodes -> Nodes \union {NULL}]
Queued(nx) == {t \in Timers : nx[t] # NULL}
OnRing(nx) == Queued(nx) \union {TQ}

(* QueueIsRing, with the converse for the backward links: both are needed  *)
(* where the walk starts, since Timers need not be finite.                 *)
LinksAgree(nx, pv) ==
    \A n \in OnRing(nx) :
        /\ nx[n] \in OnRing(nx) /\ pv[n] \in OnRing(nx)
        /\ pv[nx[n]] = n /\ nx[pv[n]] = n
LeavesEverySet(lk, Q) ==
    \A S \in SUBSET Q : S # {} => \E n \in S : lk[n] \notin S
IsRing(nx, pv) ==
    /\ LinksAgree(nx, pv)
    /\ LeavesEverySet(nx, Queued(nx))
    /\ LeavesEverySet(pv, Queued(nx))

Pushed(nx, pv, t) == [nx EXCEPT ![pv[TQ]] = t, ![t] = TQ]
PushedBack(pv, t) == [pv EXCEPT ![t] = pv[TQ], ![TQ] = t]
Deleted(nx, pv, t) == [nx EXCEPT ![pv[t]] = nx[t], ![t] = NULL]
DeletedBack(nx, pv, t) == [pv EXCEPT ![nx[t]] = pv[t]]

(* What a walk that stands at p has still to look at.                      *)
ClosedFrom(nx, p, S) == p \in S /\ \A n \in S : nx[n] \in S \union {TQ}
Ahead(nx, p) ==
    IF p = TQ THEN {}
    ELSE {t \in Queued(nx) :
             \A S \in SUBSET Queued(nx) : ClosedFrom(nx, p, S) => t \in S}

-----------------------------------------------------------------------------
(* Linking and unlinking keep a ring.                                      *)
LEMMA PushQueued ==
    ASSUME NEW nx \in Links, NEW pv \in Links, IsRing(nx, pv),
           NEW t \in Timers, nx[t] = NULL
    PROVE  /\ Pushed(nx, pv, t) \in Links
           /\ PushedBack(pv, t) \in Links
           /\ Queued(Pushed(nx, pv, t)) = Queued(nx) \union {t}
  <1>1. TQ \in Nodes /\ t \in Nodes /\ t # TQ /\ TQ # NULL /\ t # NULL
    BY TimerAssumption DEF Nodes
  <1>2. pv[TQ] \in OnRing(nx)
    BY DEF IsRing, LinksAgree, OnRing
  <1>3. pv[TQ] \in Nodes /\ pv[TQ] # NULL /\ (pv[TQ] \in Timers => nx[pv[TQ]] # NULL)
    BY <1>2, TimerAssumption DEF OnRing, Queued, Nodes
  <1> QED BY <1>1, <1>3 DEF Pushed, PushedBack, Queued, Links, Nodes

LEMMA DeleteQueued ==
    ASSUME NEW nx \in Links, NEW pv \in Links, IsRing(nx, pv),
           NEW t \in Queued(nx)
    PROVE  /\ Deleted(nx, pv, t) \in Links
           /\ DeletedBack(nx, pv, t) \in Links
           /\ Queued(Deleted(nx, pv, t)) = Queued(nx) \ {t}
           /\ nx[t] \in OnRing(nx) \ {t}
           /\ pv[t] \in OnRing(nx) \ {t}
  <1>1. t \in Nodes /\ t # TQ /\ TQ # NULL /\ t # NULL /\ t \in OnRing(nx)
    BY TimerAssumption DEF Nodes, Queued, OnRing
  <1>2. nx[t] \in OnRing(nx) /\ pv[t] \in OnRing(nx)
    BY <1>1 DEF IsRing, LinksAgree
  <1>3. nx[t] # t /\ pv[t] # t
    <2>1. {t} \in SUBSET Queued(nx) /\ {t} # {}
      OBVIOUS
    <2>2. \E n \in {t} : nx[n] \notin {t}
      BY <2>1 DEF IsRing, LeavesEverySet
    <2>3. \E n \in {t} : pv[n] \notin {t}
      BY <2>1 DEF IsRing, LeavesEverySet
    <2> QED BY <2>2, <2>3
  <1>4. /\ nx[t] \in Nodes /\ nx[t] # NULL
        /\ pv[t] \in Nodes /\ (pv[t] \in Timers => nx[pv[t]] # NULL)
    BY <1>2, TimerAssumption DEF OnRing, Queued, Nodes
  <1>5. Queued(Deleted(nx, pv, t)) = Queued(nx) \ {t}
    BY <1>1, <1>3, <1>4 DEF Deleted, Queued, Links, Nodes
  <1> QED BY <1>1, <1>2, <1>3, <1>4, <1>5 DEF Deleted, DeletedBack, Links, Nodes

LEMMA PushKeepsRing ==
    ASSUME NEW nx \in Links, NEW pv \in Links, IsRing(nx, pv),
           NEW t \in Timers, nx[t] = NULL
    PROVE  IsRing(Pushed(nx, pv, t), PushedBack(pv, t))
  <1> DEFINE nx2 == Pushed(nx, pv, t)
             pv2 == PushedBack(pv, t)
             last == pv[TQ]
             Q == Queued(nx)
  <1>1. TQ \in Nodes /\ t \in Nodes /\ t # TQ /\ t \notin Q /\ Q \subseteq Nodes /\ TQ \notin Q
    BY TimerAssumption DEF Nodes, Queued
  <1>2. Queued(nx2) = Q \union {t}
    BY PushQueued
  <1>3. \A n \in Q \union {TQ} : /\ nx[n] \in Q \union {TQ} /\ pv[n] \in Q \union {TQ}
                                 /\ pv[nx[n]] = n /\ nx[pv[n]] = n
    BY DEF IsRing, LinksAgree, OnRing
  <1>4. last \in Q \union {TQ} /\ nx[last] = TQ /\ last \in Nodes /\ last # t
    BY <1>1, <1>3
  <1>5. /\ nx2[last] = t /\ nx2[t] = TQ
        /\ \A n \in Nodes \ {last, t} : nx2[n] = nx[n]
    BY <1>1, <1>4 DEF Pushed, Links
  <1>6. /\ pv2[t] = last /\ pv2[TQ] = t
        /\ \A n \in Nodes \ {TQ, t} : pv2[n] = pv[n]
    BY <1>1, <1>4 DEF PushedBack, Links
  <1> HIDE DEF nx2, pv2, last, Q
  <1>7. LinksAgree(nx2, pv2)
    <2> SUFFICES ASSUME NEW n \in Q \union {t, TQ}
                 PROVE  /\ nx2[n] \in Q \union {t, TQ} /\ pv2[n] \in Q \union {t, TQ}
                        /\ pv2[nx2[n]] = n /\ nx2[pv2[n]] = n
      BY <1>2 DEF LinksAgree, OnRing
    <2>1. n # last /\ n # t => nx[n] # TQ /\ nx[n] # t
      BY <1>1, <1>3, <1>4 DEF last
    <2>2. n # TQ /\ n # t => pv[n] # last /\ pv[n] # t
      BY <1>1, <1>3, <1>4
    <2>3. nx2[n] \in Q \union {t, TQ} /\ pv2[nx2[n]] = n
      BY <1>1, <1>3, <1>4, <1>5, <1>6, <2>1
    <2>4. pv2[n] \in Q \union {t, TQ} /\ nx2[pv2[n]] = n
      BY <1>1, <1>3, <1>4, <1>5, <1>6, <2>2
    <2> QED BY <2>3, <2>4
  <1>8. ASSUME NEW S \in SUBSET (Q \union {t}), S # {}
        PROVE  \E n \in S : nx2[n] \notin S
    <2>1. CASE t \in S
      BY <2>1, <1>1, <1>5
    <2>2. CASE t \notin S
      <3>1. S \in SUBSET Q
        BY <2>2
      <3>2. PICK n \in S : nx[n] \notin S
        BY <3>1, <1>8 DEF IsRing, LeavesEverySet, Q
      <3> QED BY <3>1, <3>2, <2>2, <1>1, <1>5
    <2> QED BY <2>1, <2>2
  <1>9. ASSUME NEW S \in SUBSET (Q \union {t}), S # {}
        PROVE  \E n \in S : pv2[n] \notin S
    <2>1. CASE S \ {t} = {}
      BY <2>1, <1>9, <1>4, <1>6
    <2>2. CASE S \ {t} # {}
      <3>1. S \ {t} \in SUBSET Q
        OBVIOUS
      <3>2. PICK n \in S \ {t} : pv[n] \notin S \ {t}
        BY <3>1, <2>2 DEF IsRing, LeavesEverySet, Q
      <3>3. pv2[n] = pv[n] /\ pv[n] # t
        BY <3>1, <3>2, <1>1, <1>3, <1>6
      <3> QED BY <3>2, <3>3
    <2> QED BY <2>1, <2>2
  <1> QED BY <1>2, <1>7, <1>8, <1>9 DEF IsRing, LeavesEverySet, nx2, pv2

LEMMA DeleteKeepsRing ==
    ASSUME NEW nx \in Links, NEW pv \in Links, IsRing(nx, pv),
           NEW t \in Queued(nx)
    PROVE  IsRing(Deleted(nx, pv, t), DeletedBack(nx, pv, t))
  <1> DEFINE nx2 == Deleted(nx, pv, t)
             pv2 == DeletedBack(nx, pv, t)
             Q == Queued(nx)
  <1>1. TQ \in Nodes /\ t \in Nodes /\ t # TQ /\ Q \subseteq Nodes /\ TQ \notin Q
    BY TimerAssumption DEF Nodes, Queued
  <1>2. Queued(nx2) = Q \ {t}
    BY DeleteQueued
  <1>3. \A n \in Q \union {TQ} : /\ nx[n] \in Q \union {TQ} /\ pv[n] \in Q \union {TQ}
                                 /\ pv[nx[n]] = n /\ nx[pv[n]] = n
    BY DEF IsRing, LinksAgree, OnRing
  <1>4. /\ nx[t] \in (Q \union {TQ}) \ {t} /\ pv[t] \in (Q \union {TQ}) \ {t}
        /\ nx[t] \in Nodes /\ pv[t] \in Nodes
    BY DeleteQueued, <1>1 DEF OnRing
  <1>5. /\ nx2[pv[t]] = nx[t]
        /\ \A n \in Nodes \ {pv[t], t} : nx2[n] = nx[n]
    BY <1>1, <1>4 DEF Deleted, Links
  <1>6. /\ pv2[nx[t]] = pv[t]
        /\ \A n \in Nodes \ {nx[t]} : pv2[n] = pv[n]
    BY <1>1, <1>4 DEF DeletedBack, Links
  <1>7. t \in Q
    OBVIOUS
  <1> HIDE DEF nx2, pv2, Q
  <1>8. LinksAgree(nx2, pv2)
    <2> SUFFICES ASSUME NEW n \in (Q \ {t}) \union {TQ}
                 PROVE  /\ nx2[n] \in (Q \ {t}) \union {TQ}
                        /\ pv2[n] \in (Q \ {t}) \union {TQ}
                        /\ pv2[nx2[n]] = n /\ nx2[pv2[n]] = n
      BY <1>2 DEF LinksAgree, OnRing
    <2>1. n # pv[t] => nx[n] # t /\ nx[n] # nx[t]
      BY <1>1, <1>3, <1>7
    <2>2. n # nx[t] => pv[n] # t /\ pv[n] # pv[t]
      BY <1>1, <1>3, <1>7
    <2>3. nx2[n] \in (Q \ {t}) \union {TQ} /\ pv2[nx2[n]] = n
      BY <1>1, <1>3, <1>4, <1>5, <1>6, <2>1
    <2>4. pv2[n] \in (Q \ {t}) \union {TQ} /\ nx2[pv2[n]] = n
      BY <1>1, <1>3, <1>4, <1>5, <1>6, <2>2
    <2> QED BY <2>3, <2>4
  <1>9. ASSUME NEW S \in SUBSET (Q \ {t}), S # {}, \A n \in S : nx2[n] \in S
        PROVE  FALSE
    <2>1. CASE pv[t] \in S
      <3>1. S \union {t} \in SUBSET Q /\ S \union {t} # {}
        BY <1>7
      <3>2. \A n \in S \union {t} : nx[n] \in S \union {t}
        BY <2>1, <1>9, <1>1, <1>3, <1>5, <1>7
      <3> QED BY <3>1, <3>2 DEF IsRing, LeavesEverySet, Q
    <2>2. CASE pv[t] \notin S
      <3>1. \A n \in S : nx[n] \in S
        BY <2>2, <1>9, <1>1, <1>5
      <3> QED BY <3>1, <1>9 DEF IsRing, LeavesEverySet, Q
    <2> QED BY <2>1, <2>2
  <1>10. ASSUME NEW S \in SUBSET (Q \ {t}), S # {}, \A n \in S : pv2[n] \in S
         PROVE  FALSE
    <2>1. CASE nx[t] \in S
      <3>1. S \union {t} \in SUBSET Q /\ S \union {t} # {}
        BY <1>7
      <3>2. \A n \in S \union {t} : pv[n] \in S \union {t}
        BY <2>1, <1>10, <1>1, <1>3, <1>6, <1>7
      <3> QED BY <3>1, <3>2 DEF IsRing, LeavesEverySet, Q
    <2>2. CASE nx[t] \notin S
      <3>1. \A n \in S : pv[n] \in S
        BY <2>2, <1>10, <1>1, <1>6
      <3> QED BY <3>1, <1>10 DEF IsRing, LeavesEverySet, Q
    <2> QED BY <2>1, <2>2
  <1> QED BY <1>2, <1>8, <1>9, <1>10 DEF IsRing, LeavesEverySet, nx2, pv2

-----------------------------------------------------------------------------
(* What the steps do to the part of the ring the walk has still to see.    *)

(* A walk that starts at the first node sees every timer of the queue.     *)
LEMMA AheadOfFirst ==
    ASSUME NEW nx \in Links, NEW pv \in Links, IsRing(nx, pv)
    PROVE  Ahead(nx, nx[TQ]) = Queued(nx)
  <1> DEFINE Q == Queued(nx)
  <1>1. TQ \notin Q
    BY TimerAssumption DEF Queued
  <1>2. \A n \in Q \union {TQ} : /\ nx[n] \in Q \union {TQ} /\ pv[n] \in Q \union {TQ}
                                 /\ pv[nx[n]] = n /\ nx[pv[n]] = n
    BY DEF IsRing, LinksAgree, OnRing
  <1>3. CASE nx[TQ] = TQ
    <2>1. \A n \in Q : nx[n] \in Q
      BY <1>1, <1>2, <1>3
    <2>2. Q = {}
      BY <2>1 DEF IsRing, LeavesEverySet
    <2> QED BY <2>2, <1>3 DEF Ahead
  <1>4. CASE nx[TQ] # TQ
    <2> SUFFICES ASSUME NEW S \in SUBSET Q, ClosedFrom(nx, nx[TQ], S),
                        Q \ S # {}
                 PROVE  FALSE
      BY <1>4 DEF Ahead
    <2>1. \A n \in Q \ S : pv[n] \in Q \ S
      BY <1>1, <1>2 DEF ClosedFrom
    <2>2. Q \ S \in SUBSET Queued(nx)
      OBVIOUS
    <2> QED BY <2>1, <2>2 DEF IsRing, LeavesEverySet
  <1> QED BY <1>3, <1>4

(* A timer that is linked at the end does not hide another from the walk.  *)
LEMMA AheadOfPushed ==
    ASSUME NEW nx \in Links, NEW pv \in Links, IsRing(nx, pv),
           NEW t \in Timers, nx[t] = NULL, NEW p \in OnRing(nx)
    PROVE  Ahead(nx, p) \subseteq Ahead(Pushed(nx, pv, t), p)
  <1> DEFINE nx2 == Pushed(nx, pv, t)
             Q == Queued(nx)
  <1>1. TQ \in Nodes /\ t \in Nodes /\ t # TQ /\ t \notin Q /\ Q \subseteq Nodes /\ TQ \notin Q
    BY TimerAssumption DEF Nodes, Queued
  <1>2. Queued(nx2) = Q \union {t}
    BY PushQueued
  <1>3. \A n \in Q \union {TQ} : nx[n] \in Q \union {TQ}
    BY DEF IsRing, LinksAgree, OnRing
  <1>4. pv[TQ] \in Nodes /\ nx[pv[TQ]] = TQ
    BY <1>1 DEF IsRing, LinksAgree, OnRing
  <1>5. \A n \in Nodes \ {pv[TQ], t} : nx2[n] = nx[n]
    BY <1>1, <1>4 DEF Pushed, Links
  <1>6. p \in Q \union {TQ}
    BY DEF OnRing
  <1> HIDE DEF nx2, Q
  <1>7. ASSUME NEW S \in SUBSET (Q \union {t}), ClosedFrom(nx2, p, S), p # TQ
        PROVE  ClosedFrom(nx, p, S \ {t})
    <2>1. p \in S \ {t}
      BY <1>7, <1>1, <1>6 DEF ClosedFrom
    <2>2. ASSUME NEW n \in S \ {t}
          PROVE  nx[n] \in (S \ {t}) \union {TQ}
      <3>1. CASE n = pv[TQ]
        BY <3>1, <1>4
      <3>2. CASE n # pv[TQ]
        BY <3>2, <2>2, <1>7, <1>1, <1>3, <1>5 DEF ClosedFrom
      <3> QED BY <3>1, <3>2
    <2> QED BY <2>1, <2>2 DEF ClosedFrom
  <1>8. ASSUME NEW u \in Ahead(nx, p)
        PROVE  u \in Ahead(nx2, p)
    <2>1. p # TQ /\ u \in Q
      BY <1>8 DEF Ahead, Q
    <2>2. ASSUME NEW S \in SUBSET (Q \union {t}), ClosedFrom(nx2, p, S)
          PROVE  u \in S
      <3>1. S \ {t} \in SUBSET Q /\ ClosedFrom(nx, p, S \ {t})
        BY <2>1, <2>2, <1>7
      <3>2. u \in S \ {t}
        BY <3>1, <2>1, <1>8 DEF Ahead, Q
      <3> QED BY <3>2
    <2> QED BY <2>1, <2>2, <1>2 DEF Ahead
  <1> QED BY <1>8 DEF nx2

(* A timer that leaves the queue takes nothing else out of the walk's      *)
(* sight, if a walk that stood on it moves to the next node.               *)
LEMMA AheadOfDeleted ==
    ASSUME NEW nx \in Links, NEW pv \in Links, IsRing(nx, pv),
           NEW t \in Queued(nx), NEW p \in OnRing(nx)
    PROVE  Ahead(nx, p) \ {t}
             \subseteq Ahead(Deleted(nx, pv, t), IF p = t THEN nx[t] ELSE p)
  <1> DEFINE nx2 == Deleted(nx, pv, t)
             p2 == IF p = t THEN nx[t] ELSE p
             Q == Queued(nx)
  <1>1. TQ \in Nodes /\ t \in Nodes /\ t # TQ /\ t \in Q /\ Q \subseteq Nodes /\ TQ \notin Q
    BY TimerAssumption DEF Nodes, Queued
  <1>2. Queued(nx2) = Q \ {t}
    BY DeleteQueued
  <1>3. \A n \in Q \union {TQ} : /\ nx[n] \in Q \union {TQ} /\ pv[n] \in Q \union {TQ}
                                 /\ pv[nx[n]] = n /\ nx[pv[n]] = n
    BY DEF IsRing, LinksAgree, OnRing
  <1>4. pv[t] \in Nodes /\ pv[t] # t
    BY <1>1, <1>3, DeleteQueued
  <1>5. /\ nx2[pv[t]] = nx[t]
        /\ \A n \in Nodes \ {pv[t], t} : nx2[n] = nx[n]
    BY <1>1, <1>4 DEF Deleted, Links
  <1>6. p2 = IF p = t THEN nx[t] ELSE p
    OBVIOUS
  <1> HIDE DEF nx2, Q, p2
  <1>7. ASSUME NEW u \in Ahead(nx, p), u # t
        PROVE  u \in Ahead(nx2, p2)
    <2>1. p # TQ /\ u \in Q
      BY <1>7 DEF Ahead, Q
    <2>2. \A S \in SUBSET Q : ClosedFrom(nx, p, S) => u \in S
      BY <1>7 DEF Ahead, Q
    <2>3. p2 # TQ
      <3> SUFFICES ASSUME p = t, nx[t] = TQ PROVE FALSE
        BY <2>1, <1>6
      <3>1. {t} \in SUBSET Q /\ ClosedFrom(nx, p, {t})
        BY <1>1 DEF ClosedFrom
      <3> QED BY <3>1, <2>2, <1>7
    <2>4. ASSUME NEW S \in SUBSET (Q \ {t}), ClosedFrom(nx2, p2, S)
          PROVE  u \in S
      <3>1. CASE p = t \/ pv[t] \in S
        <4>1. nx[t] \in S \union {TQ}
          BY <3>1, <2>4, <1>5, <1>6 DEF ClosedFrom
        <4>2. \A n \in S : nx[n] \in S \union {t, TQ}
          BY <2>4, <1>1, <1>3, <1>5 DEF ClosedFrom
        <4>3. S \union {t} \in SUBSET Q /\ ClosedFrom(nx, p, S \union {t})
          BY <4>1, <4>2, <2>4, <1>1, <1>6 DEF ClosedFrom
        <4> QED BY <4>3, <2>2, <1>7
      <3>2. CASE p # t /\ pv[t] \notin S
        <4>1. S \in SUBSET Q /\ ClosedFrom(nx, p, S)
          BY <3>2, <2>4, <1>1, <1>5, <1>6 DEF ClosedFrom
        <4> QED BY <4>1, <2>2
      <3> QED BY <3>1, <3>2
    <2> QED BY <2>1, <2>3, <2>4, <1>2, <1>7 DEF Ahead
  <1> QED BY <1>7 DEF nx2, p2

(* A step of the walk leaves behind the timer it looked at and no other.   *)
LEMMA AheadOfNext ==
    ASSUME NEW nx \in Links, NEW pv \in Links, IsRing(nx, pv),
           NEW t \in Queued(nx)
    PROVE  Ahead(nx, t) \ {t} \subseteq Ahead(nx, nx[t])
  <1> SUFFICES ASSUME NEW u \in Ahead(nx, t), u # t
               PROVE  u \in Ahead(nx, nx[t])
    OBVIOUS
  <1>1. /\ u \in Queued(nx)
        /\ \A S \in SUBSET Queued(nx) : ClosedFrom(nx, t, S) => u \in S
    BY DEF Ahead
  <1>2. ASSUME NEW S \in SUBSET Queued(nx), ClosedFrom(nx, nx[t], S)
        PROVE  u \in S
    <2>1. S \union {t} \in SUBSET Queued(nx) /\ ClosedFrom(nx, t, S \union {t})
      BY <1>2 DEF ClosedFrom
    <2> QED BY <2>1, <1>1
  <1>3. nx[t] # TQ
    <2> SUFFICES ASSUME nx[t] = TQ PROVE FALSE
      OBVIOUS
    <2>1. {t} \in SUBSET Queued(nx) /\ ClosedFrom(nx, t, {t})
      BY DEF ClosedFrom
    <2> QED BY <2>1, <1>1
  <1> QED BY <1>1, <1>2, <1>3 DEF Ahead

-----------------------------------------------------------------------------
(* The inductive invariant: TimeQueueSound, with QueueIsRing strengthened  *)
(* to both directions of the links.                                        *)
RingOK == IsRing(next, previous)
IInv == TypeOK /\ RingOK /\ CursorIsQueued /\ NextTimeoutIsEarliest

InWalk == bh \in {"scan", "element", "callback", "advance"}

LEMMA RingIsQueueIsRing ==
    RingOK => QueueIsRing
  <1> SUFFICES ASSUME RingOK PROVE QueueIsRing
    OBVIOUS
  <1>1. QueuedTimers = Queued(next)
    BY DEF QueuedTimers, IsQueued, Queued
  <1>2. \A n \in QueuedTimers \union {TQ} :
           next[n] \in QueuedTimers \union {TQ} /\ previous[next[n]] = n
    BY <1>1 DEF RingOK, IsRing, LinksAgree, OnRing
  <1>3. \A S \in (SUBSET QueuedTimers) \ {{}} : \E n \in S : next[n] \notin S
    BY <1>1 DEF RingOK, IsRing, LeavesEverySet
  <1> QED BY <1>2, <1>3 DEF QueueIsRing

LEMMA UnvisitedIsAhead ==
    Unvisited = IF InWalk THEN Ahead(next, Position) ELSE {}
  <1>1. QueuedTimers = Queued(next)
    BY DEF QueuedTimers, IsQueued, Queued
  <1>2. CASE ~InWalk
    BY <1>2 DEF InWalk, Unvisited
  <1>3. CASE InWalk /\ Position = TQ
    <2>1. Unvisited \subseteq {}
      BY <1>3 DEF InWalk, Unvisited
    <2> QED BY <2>1, <1>3 DEF Ahead
  <1>4. CASE InWalk /\ Position # TQ
    BY <1>1, <1>4 DEF InWalk, Unvisited, Ahead, ClosedFrom
  <1> QED BY <1>2, <1>3, <1>4

LEMMA UnvisitedIsAheadNext ==
    Unvisited' = IF InWalk' THEN Ahead(next', Position') ELSE {}
  <1>1. QueuedTimers' = Queued(next')
    BY DEF QueuedTimers, IsQueued, Queued
  <1>2. CASE ~InWalk'
    BY <1>2 DEF InWalk, Unvisited
  <1>3. CASE InWalk' /\ Position' = TQ
    <2>1. Unvisited' \subseteq {}
      BY <1>3 DEF InWalk, Unvisited
    <2> QED BY <2>1, <1>3 DEF Ahead
  <1>4. CASE InWalk' /\ Position' # TQ
    BY <1>1, <1>4 DEF InWalk, Unvisited, Ahead, ClosedFrom
  <1> QED BY <1>2, <1>3, <1>4

LEMMA TicksType ==
    ASSUME NEW to \in Nat, now \in Nat
    PROVE  Ticks(to) \in 0 .. DecMax
  BY TimerAssumption DEF Ticks, Least

LEMMA PositionOnRing ==
    ASSUME CursorIsQueued, InWalk
    PROVE  Position \in OnRing(next)
  BY DEF CursorIsQueued, InWalk, Position, OnRing, Queued, QueuedTimers, IsQueued

LEMMA InitIInv ==
    Init => IInv
  <1> SUFFICES ASSUME Init PROVE IInv
    OBVIOUS
  <1>1. TQ \in Nodes /\ Timers \subseteq Nodes /\ TQ \notin Timers /\ TQ # NULL
    BY TimerAssumption DEF Nodes
  <1>2. QueuedTimers = {} /\ Queued(next) = {}
    BY <1>1 DEF Init, QueuedTimers, IsQueued, Queued
  <1>3. TypeOK
    <2>1. next \in [Nodes -> Nodes \union {NULL}] /\ previous = next
      BY <1>1 DEF Init
    <2>2. timeout \in [Timers -> 0 .. Horizon]
      BY TimerAssumption DEF Init
    <2>3. /\ next_timeout \in 0 .. PK_TIMEBASE_MAX
          /\ new_timeout \in 0 .. PK_TIMEBASE_MAX
          /\ now \in 0 .. Horizon /\ read_now \in 0 .. Horizon /\ dec \in 0 .. DecMax
      BY TimerAssumption DEF Init, PK_TIMEBASE_MAX
    <2>4. /\ bh = "none" /\ tsr_dis \in BOOLEAN /\ bh_queued \in BOOLEAN
          /\ cursor \in Nodes \union {NULL} /\ timer_deque \in Nodes \union {NULL}
      BY <1>1 DEF Init
    <2> QED BY <2>1, <2>2, <2>3, <2>4 DEF TypeOK
  <1>4. RingOK
    BY <1>1, <1>2 DEF Init, RingOK, IsRing, LinksAgree, LeavesEverySet, OnRing
  <1>5. CursorIsQueued
    BY DEF Init, CursorIsQueued
  <1>6. NextTimeoutIsEarliest
    BY <1>2 DEF NextTimeoutIsEarliest
  <1> QED BY <1>3, <1>4, <1>5, <1>6 DEF IInv

-----------------------------------------------------------------------------
(* The calls of the timer interface, wherever the walk stands.             *)
Kept == UNCHANGED <<now, tsr_dis, locals>>

LEMMA ScheduleIInv ==
    ASSUME IInv, NEW t \in Timers, ScheduleTimer(t), Kept,
           bh_queued' \in BOOLEAN,
           \/ bh' = bh
           \/ ~InWalk /\ bh' = "pop"
    PROVE  IInv'
  <1> DEFINE to == timeout'[t]
  <1>1. /\ next \in Links /\ previous \in Links /\ IsRing(next, previous)
        /\ TypeOK
    BY DEF IInv, TypeOK, Links, RingOK
  <1>2. /\ to \in 0 .. Horizon
        /\ timeout' = [timeout EXCEPT ![t] = to]
        /\ IF IsQueued(t) THEN UNCHANGED ring ELSE PushBack(t)
        /\ next_timeout' = Least(to, next_timeout)
        /\ dec' = dec \/ dec' = Ticks(to)
        /\ UNCHANGED cursor
    <2>1. PICK i \in Intervals :
             /\ now + i <= Horizon
             /\ timeout' = [timeout EXCEPT ![t] = now + i]
             /\ IF IsQueued(t) THEN UNCHANGED ring ELSE PushBack(t)
             /\ next_timeout' = Least(now + i, next_timeout)
             /\ dec' = dec \/ dec' = Ticks(now + i)
             /\ UNCHANGED cursor
      BY DEF ScheduleTimer
    <2>2. i \in Nat /\ now \in Nat /\ timeout \in [Timers -> 0 .. Horizon]
      BY <1>1, TimerAssumption DEF TypeOK
    <2>3. to = now + i
      BY <2>1, <2>2
    <2> QED BY <2>1, <2>2, <2>3, TimerAssumption
  <1> HIDE DEF to
  <1>3. TypeOK'
    <2>1. next' \in Links /\ previous' \in Links
      <3>1. CASE IsQueued(t)
        BY <1>1, <1>2, <3>1 DEF ring
      <3>2. CASE ~IsQueued(t)
        <4>1. next[t] = NULL
          BY <3>2 DEF IsQueued
        <4> QED BY <1>1, <1>2, <3>2, <4>1, PushQueued
                DEF PushBack, Pushed, PushedBack
      <3> QED BY <3>1, <3>2
    <2>2. timeout' \in [Timers -> 0 .. Horizon]
      BY <1>1, <1>2 DEF TypeOK
    <2>3. next_timeout' \in 0 .. PK_TIMEBASE_MAX
      BY <1>1, <1>2, TimerAssumption DEF TypeOK, Least, PK_TIMEBASE_MAX
    <2>4. dec' \in 0 .. DecMax
      BY <1>1, <1>2, TicksType, TimerAssumption DEF TypeOK
    <2>5. bh' \in {"none", "pop", "start", "check", "scan", "element", "callback",
                   "advance", "clear", "program", "write", "leave"}
      BY <1>1 DEF TypeOK
    <2> QED BY <1>1, <1>2, <2>1, <2>2, <2>3, <2>4, <2>5
            DEF TypeOK, Links, Kept, locals
  <1>4. InWalk' = InWalk /\ (InWalk => Position' = Position)
    BY <1>1, <1>2 DEF InWalk, Position, Kept, locals
  <1>5. CASE IsQueued(t)
    <2>1. next' = next /\ previous' = previous
      BY <1>2, <1>5 DEF ring
    <2>2. RingOK'
      BY <1>1, <2>1 DEF RingOK
    <2>3. QueuedTimers' = QueuedTimers
      BY <2>1 DEF QueuedTimers, IsQueued
    <2>4. CursorIsQueued'
      BY <1>2, <2>3 DEF IInv, CursorIsQueued, Kept, locals, InWalk
    <2>5. Unvisited' = Unvisited
      BY <1>4, <2>1, UnvisitedIsAhead, UnvisitedIsAheadNext
    <2>6. NextTimeoutIsEarliest'
      <3> SUFFICES ASSUME NEW u \in QueuedTimers \ Unvisited
                   PROVE  next_timeout' <= timeout'[u]
        BY <2>3, <2>5 DEF NextTimeoutIsEarliest
      <3>1. next_timeout <= timeout[u] /\ u \in Timers
        BY DEF IInv, NextTimeoutIsEarliest, QueuedTimers
      <3> QED BY <1>1, <1>2, <3>1, TimerAssumption DEF TypeOK, Least, PK_TIMEBASE_MAX
    <2> QED BY <1>3, <2>2, <2>4, <2>6 DEF IInv
  <1>6. CASE ~IsQueued(t)
    <2>1. /\ next[t] = NULL
          /\ next' = Pushed(next, previous, t)
          /\ previous' = PushedBack(previous, t)
      BY <1>2, <1>6 DEF IsQueued, PushBack, Pushed, PushedBack
    <2>2. RingOK'
      BY <1>1, <2>1, PushKeepsRing DEF RingOK
    <2>3. /\ QueuedTimers = Queued(next) /\ QueuedTimers' = Queued(next')
          /\ QueuedTimers' = QueuedTimers \union {t}
      BY <1>1, <2>1, PushQueued DEF QueuedTimers, IsQueued, Queued
    <2>4. CursorIsQueued'
      BY <1>2, <2>3 DEF IInv, CursorIsQueued, Kept, locals, InWalk
    <2>5. Unvisited \subseteq Unvisited'
      <3>1. CASE InWalk
        <4>1. Position \in OnRing(next)
          BY <3>1, PositionOnRing DEF IInv
        <4>2. Ahead(next, Position) \subseteq Ahead(next', Position)
          BY <1>1, <2>1, <4>1, AheadOfPushed
        <4> QED BY <1>4, <3>1, <4>2, UnvisitedIsAhead, UnvisitedIsAheadNext
      <3>2. CASE ~InWalk
        BY <3>2, UnvisitedIsAhead
      <3> QED BY <3>1, <3>2
    <2>6. NextTimeoutIsEarliest'
      <3> SUFFICES ASSUME NEW u \in QueuedTimers' \ Unvisited'
                   PROVE  next_timeout' <= timeout'[u]
        BY DEF NextTimeoutIsEarliest
      <3>1. u \in Timers
        BY <2>3 DEF QueuedTimers
      <3>2. CASE u = t
        BY <1>1, <1>2, <3>2, TimerAssumption DEF TypeOK, Least, PK_TIMEBASE_MAX
      <3>3. CASE u # t
        <4>1. next_timeout <= timeout[u] /\ timeout'[u] = timeout[u]
          BY <1>1, <1>2, <2>3, <2>5, <3>1, <3>3
             DEF IInv, NextTimeoutIsEarliest, TypeOK
        <4> QED BY <1>1, <1>2, <3>1, <4>1, TimerAssumption
                DEF TypeOK, Least, PK_TIMEBASE_MAX
      <3> QED BY <3>2, <3>3
    <2> QED BY <1>3, <2>2, <2>4, <2>6 DEF IInv
  <1> QED BY <1>5, <1>6

LEMMA CancelIInv ==
    ASSUME IInv, NEW t \in Timers, CancelTimer(t), Kept,
           bh_queued' \in BOOLEAN, bh' = bh,
           bh \notin {"scan", "element"}
    PROVE  IInv'
  <1>1. /\ next \in Links /\ previous \in Links /\ IsRing(next, previous)
        /\ TypeOK
    BY DEF IInv, TypeOK, Links, RingOK
  <1>2. /\ t \in Queued(next) /\ t \in Nodes
        /\ next' = Deleted(next, previous, t)
        /\ previous' = DeletedBack(next, previous, t)
        /\ cursor' = IF cursor = t THEN next[t] ELSE cursor
        /\ UNCHANGED <<timeout, next_timeout, dec>>
    BY DEF CancelTimer, IsQueued, Queued, DeleteNode, Deleted, DeletedBack, Nodes
  <1>3. RingOK' /\ next' \in Links /\ previous' \in Links
    BY <1>1, <1>2, DeleteKeepsRing, DeleteQueued DEF RingOK
  <1>4. TypeOK'
    BY <1>1, <1>2, <1>3 DEF TypeOK, Links, Kept, locals
  <1>5. /\ QueuedTimers = Queued(next) /\ QueuedTimers' = Queued(next')
        /\ QueuedTimers' = QueuedTimers \ {t}
        /\ next[t] \in OnRing(next) \ {t}
    BY <1>1, <1>2, DeleteQueued DEF QueuedTimers, IsQueued, Queued
  <1>6. CursorIsQueued'
    BY <1>2, <1>5 DEF IInv, CursorIsQueued, OnRing
  <1>7. Unvisited \ {t} \subseteq Unvisited'
    <2>1. CASE InWalk
      <3>1. Position = cursor /\ Position' = cursor' /\ InWalk'
        BY <2>1 DEF Position, InWalk
      <3>2. cursor \in OnRing(next)
        BY <2>1, <3>1, PositionOnRing DEF IInv
      <3>3. Ahead(next, cursor) \ {t} \subseteq Ahead(next', cursor')
        BY <1>1, <1>2, <3>2, AheadOfDeleted
      <3> QED BY <2>1, <3>1, <3>3, UnvisitedIsAhead, UnvisitedIsAheadNext
    <2>2. CASE ~InWalk
      BY <2>2, UnvisitedIsAhead
    <2> QED BY <2>1, <2>2
  <1>8. NextTimeoutIsEarliest'
    BY <1>2, <1>5, <1>7 DEF IInv, NextTimeoutIsEarliest
  <1> QED BY <1>3, <1>4, <1>6, <1>8 DEF IInv

-----------------------------------------------------------------------------
(* The steps of the walk.                                                  *)
LEMMA ScanElementIInv ==
    ASSUME IInv, ScanElement
    PROVE  IInv'
  <1> DEFINE t == timer_deque
  <1>1. /\ next \in Links /\ previous \in Links /\ IsRing(next, previous)
        /\ TypeOK
    BY DEF IInv, TypeOK, Links, RingOK
  <1>2. /\ bh \in {"scan", "element"} /\ t \in Timers /\ cursor' = next[t]
        /\ UNCHANGED <<timeout, now, dec, tsr_dis, bh_queued, locals>>
    BY DEF ScanElement
  <1>3. t \in Queued(next)
    BY <1>2, TimerAssumption
       DEF IInv, CursorIsQueued, QueuedTimers, IsQueued, Queued
  <1>4. /\ QueuedTimers = Queued(next) /\ QueuedTimers' = Queued(next')
        /\ next[t] \in OnRing(next) \ {t}
    BY <1>1, <1>3, DeleteQueued DEF QueuedTimers, IsQueued, Queued
  <1>5. InWalk /\ Position = t /\ t # TQ /\ t \in OnRing(next)
    BY <1>2, <1>3, TimerAssumption DEF InWalk, Position, OnRing
  <1>6. CASE timeout[t] <= read_now
    <2>1. /\ DeleteNode(t) /\ bh' = "callback" /\ next_timeout' = next_timeout
      BY <1>6 DEF ScanElement
    <2>2. /\ next' = Deleted(next, previous, t)
          /\ previous' = DeletedBack(next, previous, t)
      BY <2>1 DEF DeleteNode, Deleted, DeletedBack
    <2>3. RingOK' /\ next' \in Links /\ previous' \in Links
          /\ QueuedTimers' = QueuedTimers \ {t}
      BY <1>1, <1>3, <1>4, <2>2, DeleteKeepsRing, DeleteQueued DEF RingOK
    <2>4. TypeOK'
      BY <1>1, <1>2, <1>4, <2>1, <2>3 DEF TypeOK, Links, locals, OnRing, Queued, Nodes
    <2>5. CursorIsQueued'
      BY <1>2, <1>4, <2>1, <2>3 DEF CursorIsQueued, OnRing
    <2>6. InWalk' /\ Position' = next[t]
      BY <1>2, <2>1 DEF InWalk, Position
    <2>7. Unvisited \ {t} \subseteq Unvisited'
      <3>1. Ahead(next, t) \ {t} \subseteq Ahead(next', next[t])
        BY <1>1, <1>3, <1>5, <2>2, AheadOfDeleted
      <3> QED BY <1>5, <2>6, <3>1, UnvisitedIsAhead, UnvisitedIsAheadNext
    <2>8. NextTimeoutIsEarliest'
      BY <1>2, <2>1, <2>3, <2>7 DEF IInv, NextTimeoutIsEarliest
    <2> QED BY <2>3, <2>4, <2>5, <2>8 DEF IInv
  <1>7. CASE ~(timeout[t] <= read_now)
    <2>1. /\ next' = next /\ previous' = previous /\ bh' = "advance"
          /\ next_timeout' = Least(timeout[t], next_timeout)
      BY <1>7 DEF ScanElement, ring
    <2>2. RingOK' /\ QueuedTimers' = QueuedTimers
      BY <1>1, <1>4, <2>1 DEF RingOK
    <2>3. TypeOK'
      BY <1>1, <1>2, <1>4, <2>1, TimerAssumption
         DEF TypeOK, locals, OnRing, Queued, Nodes, Least, PK_TIMEBASE_MAX
    <2>4. CursorIsQueued'
      BY <1>2, <1>4, <2>1, <2>2 DEF CursorIsQueued, OnRing
    <2>5. InWalk' /\ Position' = next[t]
      BY <1>2, <2>1 DEF InWalk, Position
    <2>6. Unvisited \ {t} \subseteq Unvisited'
      <3>1. Ahead(next, t) \ {t} \subseteq Ahead(next, next[t])
        BY <1>1, <1>3, AheadOfNext
      <3> QED BY <1>5, <2>1, <2>5, <3>1, UnvisitedIsAhead, UnvisitedIsAheadNext
    <2>7. NextTimeoutIsEarliest'
      <3> SUFFICES ASSUME NEW u \in QueuedTimers' \ Unvisited'
                   PROVE  next_timeout' <= timeout'[u]
        BY DEF NextTimeoutIsEarliest
      <3>1. u = t \/ next_timeout <= timeout[u]
        BY <2>2, <2>6 DEF IInv, NextTimeoutIsEarliest
      <3>2. u \in Timers /\ timeout' = timeout
        BY <1>2, <2>2 DEF QueuedTimers
      <3> QED BY <1>1, <2>1, <3>1, <3>2, TimerAssumption
              DEF TypeOK, Least, PK_TIMEBASE_MAX
    <2> QED BY <2>2, <2>3, <2>4, <2>7 DEF IInv
  <1> QED BY <1>6, <1>7

LEMMA CheckTimeIInv ==
    ASSUME IInv, CheckTime
    PROVE  IInv'
  <1>1. /\ next \in Links /\ previous \in Links /\ IsRing(next, previous)
        /\ TypeOK
    BY DEF IInv, TypeOK, Links, RingOK
  <1>2. /\ next' = next /\ previous' = previous
        /\ UNCHANGED <<timeout, cursor, now, dec, tsr_dis, bh_queued>>
        /\ bh \in {"start", "check"}
    BY DEF CheckTime, ring
  <1>3. RingOK' /\ QueuedTimers' = QueuedTimers /\ QueuedTimers = Queued(next)
    BY <1>1, <1>2 DEF RingOK, QueuedTimers, IsQueued, Queued
  <1>4. CASE now >= next_timeout
    <2>1. /\ read_now' = now /\ next_timeout' = PK_TIMEBASE_MAX
          /\ timer_deque' = next[TQ] /\ bh' = "scan"
          /\ new_timeout' = new_timeout
      BY <1>4 DEF CheckTime
    <2>2. next[TQ] \in OnRing(next)
      BY <1>1 DEF IsRing, LinksAgree, OnRing
    <2>3. TypeOK'
      BY <1>1, <1>2, <2>1, <2>2, TimerAssumption
         DEF TypeOK, OnRing, Queued, Nodes, PK_TIMEBASE_MAX
    <2>4. CursorIsQueued'
      BY <1>2, <1>3, <2>1, <2>2 DEF CursorIsQueued, OnRing
    <2>5. Unvisited' = QueuedTimers'
      <3>1. InWalk' /\ Position' = next[TQ]
        BY <2>1 DEF InWalk, Position
      <3> QED BY <1>1, <1>2, <1>3, <3>1, AheadOfFirst, UnvisitedIsAheadNext
    <2>6. NextTimeoutIsEarliest'
      BY <2>5 DEF NextTimeoutIsEarliest
    <2> QED BY <1>3, <2>3, <2>4, <2>6 DEF IInv
  <1>5. CASE ~(now >= next_timeout)
    <2>1. bh' = "clear" /\ next_timeout' = next_timeout /\ UNCHANGED locals
      BY <1>5 DEF CheckTime
    <2>2. TypeOK' /\ CursorIsQueued'
      BY <1>1, <1>2, <2>1 DEF TypeOK, CursorIsQueued, locals
    <2>3. Unvisited = {}
      BY <1>2, UnvisitedIsAhead DEF InWalk
    <2>4. NextTimeoutIsEarliest'
      BY <1>2, <1>3, <2>1, <2>3 DEF IInv, NextTimeoutIsEarliest
    <2> QED BY <1>3, <2>2, <2>4 DEF IInv
  <1> QED BY <1>4, <1>5

(* The steps that leave the queue alone: what the walk stands on is the    *)
(* same before and after, or the walk ends at the sentinel.                *)
LEMMA QuietIInv ==
    ASSUME IInv, UNCHANGED <<next, previous, timeout, next_timeout>>,
           TypeOK',
           \/ ~InWalk /\ ~InWalk'
           \/ InWalk /\ ~InWalk' /\ Position = TQ
           \/ InWalk /\ InWalk' /\ Position' = Position
    PROVE  IInv'
  <1>1. RingOK' /\ QueuedTimers' = QueuedTimers
    BY DEF IInv, RingOK, QueuedTimers, IsQueued
  <1>2. CursorIsQueued'
    <2>1. InWalk' => Position' \in QueuedTimers \union {TQ}
      BY PositionOnRing DEF IInv, OnRing, Queued, QueuedTimers, IsQueued
    <2> QED BY <1>1, <2>1 DEF CursorIsQueued, InWalk, Position
  <1>3. Unvisited' = Unvisited
    <2>1. CASE InWalk /\ ~InWalk' /\ Position = TQ
      BY <2>1, UnvisitedIsAhead, UnvisitedIsAheadNext DEF Ahead
    <2>2. CASE ~InWalk /\ ~InWalk'
      BY <2>2, UnvisitedIsAhead, UnvisitedIsAheadNext
    <2>3. CASE InWalk /\ InWalk' /\ Position' = Position
      BY <2>3, UnvisitedIsAhead, UnvisitedIsAheadNext
    <2> QED BY <2>1, <2>2, <2>3
  <1>4. NextTimeoutIsEarliest'
    BY <1>1, <1>3 DEF IInv, NextTimeoutIsEarliest
  <1> QED BY <1>1, <1>2, <1>4 DEF IInv

LEMMA NextIInv ==
    ASSUME "cancel" \notin HandlerOps, IInv, [Next]_vars
    PROVE  IInv'
  <1>1. TypeOK
    BY DEF IInv
  <1>2. CASE UNCHANGED vars
    <2>1. TypeOK'
      BY <1>1, <1>2 DEF TypeOK, vars, queue, ring, locals
    <2>2. InWalk' = InWalk /\ (InWalk => Position' = Position)
      BY <1>2 DEF InWalk, Position, vars, queue, ring, locals
    <2> QED BY <1>2, <2>1, <2>2, QuietIInv DEF vars, queue, ring
  <1>3. CASE ThreadCall
    <2>1. bh = "none" /\ bh' = bh /\ bh_queued' \in BOOLEAN /\ Kept
      BY <1>1, <1>3 DEF ThreadCall, TimerCall, Kept, TypeOK
    <2>2. PICK t \in Timers : ScheduleTimer(t) \/ CancelTimer(t)
      BY <1>3 DEF ThreadCall, TimerCall
    <2> QED BY <2>1, <2>2, ScheduleIInv, CancelIInv
  <1>4. CASE CallbackCall
    <2>1. bh = "callback" /\ bh' = bh /\ bh_queued' \in BOOLEAN /\ Kept
      BY <1>1, <1>4 DEF CallbackCall, TimerCall, Kept, TypeOK
    <2>2. PICK t \in Timers : ScheduleTimer(t) \/ CancelTimer(t)
      BY <1>4 DEF CallbackCall, TimerCall
    <2> QED BY <2>1, <2>2, ScheduleIInv, CancelIInv
  <1>5. CASE ExternalInterrupt
    <2>1. /\ bh_queued' \in BOOLEAN
          /\ bh' = bh \/ (~InWalk /\ ~InWalk' /\ bh' = "pop")
      BY <1>1, <1>5 DEF ExternalInterrupt, ReturnTo, TypeOK, InWalk
    <2>2. CASE TimerCall(HandlerOps)
      <3>1. PICK t \in Timers : ScheduleTimer(t)
        BY <2>2 DEF TimerCall
      <3> QED BY <2>1, <2>2, <3>1, ScheduleIInv DEF TimerCall, Kept
    <2>3. CASE UNCHANGED <<queue, now, dec, tsr_dis, locals>>
      <3>1. TypeOK'
        BY <1>1, <2>1, <2>3 DEF TypeOK, queue, ring, locals
      <3>2. \/ ~InWalk /\ ~InWalk'
            \/ InWalk /\ InWalk' /\ Position' = Position
        BY <2>1, <2>3 DEF InWalk, Position, queue, locals
      <3> QED BY <2>3, <3>1, <3>2, QuietIInv DEF queue, ring
    <2> QED BY <1>5, <2>2, <2>3 DEF ExternalInterrupt
  <1>6. CASE Tick
    <2>1. TypeOK'
      <3>1. now' \in 0 .. Horizon /\ dec' \in 0 .. DecMax /\ tsr_dis' \in BOOLEAN
        BY <1>1, <1>6, TimerAssumption DEF Tick, TypeOK, Least
      <3> QED BY <1>1, <1>6, <3>1 DEF Tick, TypeOK, queue, ring, locals
    <2>2. InWalk' = InWalk /\ (InWalk => Position' = Position)
      BY <1>6 DEF Tick, InWalk, Position, queue, locals
    <2> QED BY <1>6, <2>1, <2>2, QuietIInv DEF Tick, queue, ring
  <1>7. CASE DecInterrupt
    <2>1. bh' = bh \/ (~InWalk /\ ~InWalk' /\ bh' = "pop")
      BY <1>7 DEF DecInterrupt, ReturnTo, InWalk
    <2>2. TypeOK'
      BY <1>1, <1>7, <2>1 DEF DecInterrupt, TypeOK, queue, ring, locals
    <2>3. \/ ~InWalk /\ ~InWalk'
          \/ InWalk /\ InWalk' /\ Position' = Position
      BY <1>7, <2>1 DEF DecInterrupt, InWalk, Position, queue, locals
    <2> QED BY <1>7, <2>2, <2>3, QuietIInv DEF DecInterrupt, queue, ring
  <1>8. CASE PopBottomHalf \/ LeaveBottomHalf
    <2>1. ~InWalk /\ ~InWalk' /\ UNCHANGED <<queue, now, dec, tsr_dis, locals>>
          /\ bh_queued' \in BOOLEAN /\ bh' \in {"start", "leave", "none"}
      BY <1>1, <1>8 DEF PopBottomHalf, LeaveBottomHalf, InWalk, TypeOK
    <2>2. TypeOK'
      BY <1>1, <2>1 DEF TypeOK, queue, ring, locals
    <2> QED BY <2>1, <2>2, QuietIInv DEF queue, ring
  <1>9. CASE CheckTime
    BY <1>9, CheckTimeIInv
  <1>10. CASE ScanDone
    <2>1. InWalk /\ ~InWalk' /\ Position = TQ
      BY <1>10 DEF ScanDone, InWalk, Position
    <2>2. TypeOK'
      BY <1>1, <1>10 DEF ScanDone, TypeOK, queue, ring, locals
    <2> QED BY <1>10, <2>1, <2>2, QuietIInv DEF ScanDone, queue, ring
  <1>11. CASE ScanElement
    BY <1>11, ScanElementIInv
  <1>12. CASE CallbackReturn
    <2>1. InWalk /\ InWalk' /\ Position' = Position
      BY <1>12 DEF CallbackReturn, InWalk, Position, queue
    <2>2. TypeOK'
      BY <1>1, <1>12 DEF CallbackReturn, TypeOK, queue, ring, locals
    <2> QED BY <1>12, <2>1, <2>2, QuietIInv DEF CallbackReturn, queue, ring
  <1>13. CASE Advance
    <2>1. InWalk /\ InWalk' /\ Position' = Position
      BY <1>13 DEF Advance, InWalk, Position
    <2>2. TypeOK'
      BY <1>1, <1>13 DEF Advance, TypeOK, queue, ring
    <2> QED BY <1>13, <2>1, <2>2, QuietIInv DEF Advance, queue, ring
  <1>14. CASE ClearCursor
    <2>1. ~InWalk /\ ~InWalk'
      BY <1>14 DEF ClearCursor, InWalk
    <2>2. TypeOK'
      BY <1>1, <1>14 DEF ClearCursor, TypeOK, ring, locals
    <2> QED BY <1>14, <2>1, <2>2, QuietIInv DEF ClearCursor, ring
  <1>15. CASE ReadTimeout
    <2>1. ~InWalk /\ ~InWalk'
      BY <1>15 DEF ReadTimeout, InWalk
    <2>2. TypeOK'
      BY <1>1, <1>15 DEF ReadTimeout, TypeOK, queue, ring
    <2> QED BY <1>15, <2>1, <2>2, QuietIInv DEF ReadTimeout, queue, ring
  <1>16. CASE WriteDec
    <2>1. ~InWalk /\ ~InWalk'
      BY <1>16 DEF WriteDec, InWalk
    <2>2. dec' \in 0 .. DecMax
      <3>1. new_timeout \in Nat /\ now \in Nat
        BY <1>1, TimerAssumption DEF TypeOK, PK_TIMEBASE_MAX
      <3> QED BY <1>1, <1>16, <3>1, TicksType DEF WriteDec, TypeOK
    <2>3. TypeOK'
      BY <1>1, <1>16, <2>2 DEF WriteDec, TypeOK, queue, ring, locals
    <2> QED BY <1>16, <2>1, <2>3, QuietIInv DEF WriteDec, queue, ring
  <1> QED BY <1>2, <1>3, <1>4, <1>5, <1>6, <1>7, <1>8, <1>9, <1>10, <1>11,
             <1>12, <1>13, <1>14, <1>15, <1>16 DEF Next, BottomHalf

(* The time queue is one ring of exactly the queued timers, the walk of    *)
(* the bottom half never looks at one that has left it, and next_timeout   *)
(* is no later than any timer the walk has passed, however schedules,      *)
(* cancels and time-outs interleave, provided that no handler that         *)
(* preempts the bottom half cancels a timer (pk_timer_schedule,            *)
(* pk_timer_cancel, __pk_timer_bh_handler).                                *)
THEOREM TimeQueueIsSound ==
    ASSUME "cancel" \notin HandlerOps
    PROVE  Spec => []TimeQueueSound
  <1>1. Init => IInv
    BY InitIInv
  <1>2. IInv /\ [Next]_vars => IInv'
    BY NextIInv
  <1>3. IInv => TimeQueueSound
    BY RingIsQueueIsRing DEF IInv, TimeQueueSound
  <1> QED BY <1>1, <1>2, <1>3, PTL DEF Spec
=============================================================================
