--------------------------- MODULE SgpeStopProofs ---------------------------
(***************************************************************************)
(* Proofs about SgpeStop, for every number of quads, cores and stops.      *)
(*                                                                         *)
(* In every window: the masks that the handlers push are popped once, by   *)
(* the handler or by the thread it posted, and no interrupt stays masked;  *)
(* the record, the packets and the lists keep their types.                 *)
(*                                                                         *)
(* Under Regime: the lists of quads, the resonant clocks, the packets and  *)
(* the wakeup_notify_select of the cores agree (PartnersInv), so that a    *)
(* core is handed over to a CME with power and a clock.  When moreover the *)
(* OCC blocks nothing (Undisturbed), the lists of cores agree too and the  *)
(* SGPE never halts; without the window of a posted thread                 *)
(* (NoThreadWindow) nothing moves once a suspension was answered.          *)
(***************************************************************************)
EXTENDS SgpeStop, SequenceTheorems, FiniteSetTheorems, WellFoundedInduction,
        TLAPS

(* Where the SGPE is: a handler runs, a thread has work.                   *)
InHandler == handler.at # "none"
InThread == job.thread # "none"
Preempting == {"IPC", "suspending", "TYPE2", "handoff"}
ThreadTypes == {"TYPE0", "TYPE3", "TYPE6"}

IsHandler(h) == h = [irq |-> h.irq, at |-> h.at, set |-> h.set]
IsJob(j) == j = [thread |-> j.thread, at |-> j.at, left |-> j.left,
                 aborted |-> j.aborted]
Shapes == IsHandler(handler) /\ IsJob(job)
StackFits ==
    /\ ~InHandler /\ ~InThread => stack = <<>> /\ prty = DISABLED
    /\ (InHandler <=> ~InThread) => stack = <<DISABLED>> /\ prty \in 1 .. 6
    /\ InHandler /\ InThread =>
           /\ \E p \in 1 .. 6 : stack = <<DISABLED, p>>
           /\ prty \in 1 .. 6 /\ handler.at \in Preempting
OverrideFits ==
    /\ override \subseteq StopTypes
    /\ InThread => ThreadTypes \subseteq override
    /\ ~InThread /\ suspend = "no" => override \subseteq {"TYPE2"}
NoStackPanic == panic \notin {"STACK_OVERFLOW", "STACK_UNDERFLOW"}

(* The stack has one entry for whoever masks: the handler, or the thread   *)
(* it posted, and a second one for a handler that preempts a thread.       *)
MaskInv == Shapes /\ StackFits /\ OverrideFits /\ NoStackPanic

-----------------------------------------------------------------------------
USE DEF IsHandler, IsJob

LEMMA AppendSecond ==
    ASSUME NEW x \in Int, NEW y \in Int
    PROVE  Append(<<x>>, y) = <<x, y>>
  <1>1. Len(Append(<<x>>, y)) = 2 /\ Len(<<x, y>>) = 2
    OBVIOUS
  <1>2. Append(<<x>>, y)[1] = x /\ Append(<<x>>, y)[2] = y
    OBVIOUS
  <1>3. Append(<<x>>, y) \in Seq(Int)
    OBVIOUS
  <1>4. <<x, y>> \in Seq(Int)
    OBVIOUS
  <1>5. \A i \in 1 .. 2 : Append(<<x>>, y)[i] = <<x, y>>[i]
    BY <1>2
  <1> QED BY <1>1, <1>3, <1>4, <1>5, SeqEqual

LEMMA RestoreOuter ==
    ASSUME stack = <<DISABLED>>, VecRestore
    PROVE  stack' = <<>> /\ prty' = DISABLED /\ panic' = panic
  BY DEF VecRestore, DISABLED

LEMMA RestoreInner ==
    ASSUME NEW p \in 1 .. 6, stack = <<DISABLED, p>>, VecRestore
    PROVE  stack' = <<DISABLED>> /\ prty' = p /\ panic' = panic
  BY DEF VecRestore, DISABLED

LEMMA MaskQuiet ==
    ASSUME MaskInv, UNCHANGED <<handler, job, stack, prty, override, panic>>,
           suspend' = "no" => suspend = "no"
    PROVE  MaskInv'
  BY DEF MaskInv, Shapes, StackFits, OverrideFits, NoStackPanic, InHandler,
         InThread

LEMMA MaskHalts ==
    ASSUME MaskInv, UNCHANGED <<handler, job, stack, prty, override, suspend>>,
           NoStackPanic'
    PROVE  MaskInv'
  BY DEF MaskInv, Shapes, StackFits, OverrideFits, InHandler, InThread

(* A thread goes on, or the other one takes over.                          *)
LEMMA MaskThreadMoves ==
    ASSUME MaskInv, handler = NoHandler, InThread,
           IsJob(job'),
           job'.thread # "none",
           UNCHANGED <<handler, stack, prty, override>>,
           NoStackPanic'
    PROVE  MaskInv'
  BY DEF MaskInv, Shapes, StackFits, OverrideFits, InHandler, InThread

LEMMA MaskTo ==
    ASSUME MaskInv, handler = NoHandler, InThread, NEW at, To(at),
           UNCHANGED <<handler, stack, prty, override>>, NoStackPanic'
    PROVE  MaskInv'
  <1>1. job' = [job EXCEPT !.at = at] BY DEF To
  <1>2. IsJob(job) BY DEF MaskInv, Shapes
  <1>3. /\ IsJob(job')
        /\ job'.thread = job.thread
    BY <1>1, <1>2
  <1> QED BY <1>3, MaskThreadMoves DEF InThread

LEMMA MaskToQuads ==
    ASSUME MaskInv, handler = NoHandler, InThread, NEW at, NEW qs,
           ToQuads(at, qs),
           UNCHANGED <<handler, stack, prty, override>>, NoStackPanic'
    PROVE  MaskInv'
  <1>1. job' = [job EXCEPT !.at = at, !.left = qs] BY DEF ToQuads
  <1>2. IsJob(job) BY DEF MaskInv, Shapes
  <1>3. /\ IsJob(job')
        /\ job'.thread = job.thread
    BY <1>1, <1>2
  <1> QED BY <1>3, MaskThreadMoves DEF InThread

-----------------------------------------------------------------------------
LEMMA MaskTakeInterrupt ==
    ASSUME MaskInv, NEW i \in Irqs, TakeInterrupt(i)
    PROVE  MaskInv'
  <1> DEFINE seen == IF i \notin StopTypes THEN {}
                     ELSE IF i = "TYPE3" THEN pend[i] \ rec.core.RCLKE
                     ELSE pend[i]
  <1>1. /\ handler = NoHandler /\ i \in Deliverable
        /\ UNCHANGED <<override, job, suspend>> /\ panic = "none"
    BY DEF TakeInterrupt, irqVars, threadVars, requestVars, Running
  <1>2. ~InHandler
    BY <1>1 DEF NoHandler, InHandler
  <1>3. i \notin override /\ PrtyLvl[i] < prty
    BY <1>1 DEF Deliverable
  <1>4. /\ PrtyLvl[i] \in 1 .. 6
        /\ i \notin {"IPC", "TYPE2"} \union ThreadTypes => PrtyLvl[i] = 6
    BY DEF PrtyLvl, Irqs, CoreTypes, ThreadTypes
  <1>5. CASE InThread
    <2>1. stack = <<DISABLED>> /\ prty \in 1 .. 6
      BY <1>2, <1>5 DEF MaskInv, StackFits
    <2>2. i \in {"IPC", "TYPE2"}
      BY <1>3, <1>4, <1>5, <2>1 DEF MaskInv, OverrideFits, ThreadTypes
    <2>3. Len(stack) # 8
      BY <2>1
    <2>4. /\ stack' = Append(stack, prty) /\ prty' = PrtyLvl[i]
          /\ handler' = [irq |-> i, at |-> i, set |-> seen]
          /\ panic' = panic
      BY <2>3 DEF TakeInterrupt
    <2>5. stack' = <<DISABLED, prty>>
      BY <2>1, <2>4, AppendSecond DEF DISABLED
    <2> HIDE DEF seen
    <2>6. handler'.at = i /\ handler'.irq = i /\ handler'.set = seen
      BY <2>4
    <2>7. InHandler' /\ InThread' /\ handler'.at \in Preempting
      BY <1>1, <1>5, <2>2, <2>6 DEF InHandler, InThread, Preempting
    <2>8. StackFits'
      BY <1>4, <2>1, <2>4, <2>5, <2>7 DEF StackFits
    <2>9. Shapes'
      BY <1>1, <2>4, <2>6 DEF Shapes, MaskInv
    <2> QED BY <1>1, <2>4, <2>8, <2>9
       DEF MaskInv, OverrideFits, NoStackPanic, InThread
  <1>6. CASE ~InThread
    <2>1. stack = <<>> /\ prty = DISABLED
      BY <1>2, <1>6 DEF MaskInv, StackFits
    <2>3. Len(stack) # 8
      BY <2>1
    <2>4. /\ stack' = Append(stack, prty) /\ prty' = PrtyLvl[i]
          /\ handler' = [irq |-> i, at |-> i, set |-> seen]
          /\ panic' = panic
      BY <2>3 DEF TakeInterrupt
    <2>5. stack' = <<DISABLED>>
      BY <2>1, <2>4
    <2> HIDE DEF seen
    <2>6. handler'.at = i /\ handler'.irq = i /\ handler'.set = seen
      BY <2>4
    <2>7. InHandler' /\ ~InThread'
      BY <1>1, <1>6, <2>6 DEF InHandler, InThread, Irqs, CoreTypes
    <2>8. StackFits'
      BY <1>4, <2>4, <2>5, <2>7 DEF StackFits
    <2>9. Shapes'
      BY <1>1, <2>4, <2>6 DEF Shapes, MaskInv
    <2> QED BY <1>1, <2>4, <2>8, <2>9
       DEF MaskInv, OverrideFits, NoStackPanic, InThread
  <1> QED BY <1>5, <1>6

(* The end of a handler that no thread waits for: the mask is restored, or *)
(* a thread is posted that will do it.                                     *)
LEMMA MaskLaunch ==
    ASSUME MaskInv, InHandler, ~InThread, panic = "none",
           NEW r, Launch(r), suspend' = suspend
    PROVE  MaskInv'
  <1>1. stack = <<DISABLED>> /\ prty \in 1 .. 6
    BY DEF MaskInv, StackFits
  <1>2. handler' = NoHandler /\ Shapes
    BY DEF Launch, MaskInv
  <1>3. IsHandler(handler')
        /\ ~InHandler'
    BY <1>2 DEF NoHandler, InHandler
  <1>4. CASE /\ override' = override \union {"TYPE0", "TYPE3", "TYPE6"}
             /\ job' \in {Posted("exit"), Posted("entry")}
             /\ UNCHANGED <<stack, prty, panic>>
    <2>1. /\ IsJob(job')
          /\ InThread'
      BY <1>4 DEF Posted, NoJob, InThread
    <2>2. StackFits'
      BY <1>1, <1>3, <1>4, <2>1 DEF StackFits
    <2>3. OverrideFits'
      BY <1>4, <2>1 DEF OverrideFits, MaskInv, ThreadTypes, StopTypes
    <2> QED BY <1>3, <1>4, <2>1, <2>2, <2>3 DEF MaskInv, Shapes, NoStackPanic
  <1>5. CASE override' = override \ {"TYPE2"} /\ VecRestore /\ UNCHANGED job
    <2>1. stack' = <<>> /\ prty' = DISABLED /\ panic' = panic
      BY <1>1, <1>5, RestoreOuter
    <2>2. ~InThread' /\ Shapes'
      BY <1>2, <1>3, <1>5 DEF InThread, Shapes
    <2>3. StackFits' /\ OverrideFits'
      BY <1>3, <1>5, <2>1, <2>2 DEF StackFits, OverrideFits, MaskInv
    <2> QED BY <2>1, <2>2, <2>3 DEF MaskInv, NoStackPanic
  <1> QED BY <1>4, <1>5 DEF Launch

(* The end of a handler that may have preempted a thread.                  *)
LEMMA MaskHandlerEnds ==
    ASSUME MaskInv, InHandler, handler' = NoHandler, VecRestore,
           UNCHANGED job, override' \subseteq StopTypes,
           InThread => ThreadTypes \subseteq override',
           ~InThread /\ suspend' = "no" => override' \subseteq {"TYPE2"}
    PROVE  MaskInv'
  <1>1. IsHandler(handler')
        /\ ~InHandler'
    BY DEF NoHandler, InHandler
  <1>2. Shapes' /\ (InThread' <=> InThread) /\ OverrideFits'
    BY <1>1 DEF MaskInv, Shapes, InThread, OverrideFits
  <1>3. CASE InThread
    <2>1. PICK p \in 1 .. 6 : stack = <<DISABLED, p>>
      BY <1>3 DEF MaskInv, StackFits
    <2>2. stack' = <<DISABLED>> /\ prty' = p /\ panic' = panic
      BY <2>1, RestoreInner
    <2>3. StackFits'
      BY <1>1, <1>2, <1>3, <2>2 DEF StackFits
    <2> QED BY <1>2, <2>2, <2>3 DEF MaskInv, NoStackPanic
  <1>4. CASE ~InThread
    <2>1. stack = <<DISABLED>>
      BY <1>4 DEF MaskInv, StackFits
    <2>2. stack' = <<>> /\ prty' = DISABLED /\ panic' = panic
      BY <2>1, RestoreOuter
    <2>3. StackFits'
      BY <1>1, <1>2, <1>4, <2>2 DEF StackFits
    <2> QED BY <1>2, <2>2, <2>3 DEF MaskInv, NoStackPanic
  <1> QED BY <1>3, <1>4

(* The handler goes on, with its mask in force.                            *)
LEMMA MaskHandlerMoves ==
    ASSUME MaskInv, InHandler, InThread => handler'.at \in Preempting,
           handler'.at # "none",
           IsHandler(handler'),
           UNCHANGED <<job, stack, prty, panic>>,
           override' \subseteq StopTypes,
           InThread => ThreadTypes \subseteq override',
           ~InThread /\ suspend' = "no" => override' \subseteq {"TYPE2"}
    PROVE  MaskInv'
  BY DEF MaskInv, Shapes, StackFits, OverrideFits, NoStackPanic, InHandler,
         InThread

LEMMA MaskHandlePackets ==
    ASSUME MaskInv, NEW t \in CoreTypes, HandlePackets(t)
    PROVE  MaskInv'
  <1> DEFINE HandsOff(exits) ==
                 handler' = [handler EXCEPT !.at = "handoff", !.set = exits]
  <1>1. /\ handler.at = t /\ panic = "none" /\ InHandler
        /\ suspend' = suspend
    BY DEF HandlePackets, HandlerRuns, Running, InHandler, CoreTypes
  <1>2. InThread => t = "TYPE2"
    BY <1>1 DEF MaskInv, StackFits, Preempting, CoreTypes
  <1>3. \/ /\ UNCHANGED <<handler, job, stack, prty, override>>
           /\ \/ Halt("PHANTOM")
              \/ Halt("BAD_CORE_LIST")
        \/ /\ t = "TYPE2"
           /\ \E exits : HandsOff(exits)
           /\ UNCHANGED <<stack, prty, override, job, panic>>
        \/ t # "TYPE2" /\ \E r : Launch(r)
    <2> DEFINE parsed == Parsed(t, handler.set)
               exits == parsed.core.PIGX
               entries == parsed.core.PIGE
               active == parsed.core.ACTIVE
               after == pgpe.cores \union exits
               r == [parsed EXCEPT !.core.ACTIVE = (@ \union exits) \ entries]
               badList == \/ exits # {} /\ after # active \union exits
                          \/ /\ entries # {}
                             /\ after \ entries #
                                    (active \ entries) \union exits
               why == IF \E c \in handler.set : Phantom(c, payload[t][c])
                      THEN "PHANTOM"
                      ELSE IF badList THEN "BAD_CORE_LIST" ELSE "none"
    <2>1. IF why # "none"
          THEN Halt(why) /\ UNCHANGED <<handler, irqVars, job>>
          ELSE IF t = "TYPE2"
               THEN /\ HandsOff(exits)
                    /\ UNCHANGED <<irqVars, job, panic>>
               ELSE Launch(r)
      BY DEF HandlePackets
    <2>2. why \in {"PHANTOM", "BAD_CORE_LIST", "none"}
      OBVIOUS
    <2> HIDE DEF why, r, exits
    <2> QED BY <2>1, <2>2 DEF irqVars
  <1>4. CASE /\ UNCHANGED <<handler, job, stack, prty, override>>
             /\ Halt("PHANTOM") \/ Halt("BAD_CORE_LIST")
    BY <1>4, <1>1, MaskHalts DEF Halt, NoStackPanic
  <1>5. CASE /\ t = "TYPE2"
             /\ \E exits : HandsOff(exits)
             /\ UNCHANGED <<stack, prty, override, job, panic>>
    <2>1. PICK exits : HandsOff(exits)
      BY <1>5
    <2>2. IsHandler(handler)
      BY DEF MaskInv, Shapes
    <2>3. /\ IsHandler(handler')
          /\ handler'.at = "handoff"
      BY <2>1, <2>2
    <2> QED BY <1>1, <1>5, <2>3, MaskHandlerMoves
       DEF MaskInv, OverrideFits, Preempting
  <1>6. CASE t # "TYPE2" /\ \E r : Launch(r)
    <2>1. PICK r : Launch(r)
      BY <1>6
    <2> QED BY <1>1, <1>2, <1>6, <2>1, MaskLaunch
  <1> QED BY <1>3, <1>4, <1>5, <1>6

LEMMA MaskSuspendRequest ==
    ASSUME MaskInv, SuspendRequest
    PROVE  MaskInv'
  <1>1. /\ handler.at = "IPC" /\ InHandler
        /\ suspend' = "taken" /\ UNCHANGED job
        /\ override' = override \union StopTypes
    BY DEF SuspendRequest, HandlerRuns, InHandler, threadVars
  <1>2. /\ override' \subseteq StopTypes
        /\ InThread => ThreadTypes \subseteq override'
    BY <1>1 DEF MaskInv, OverrideFits
  <1>3. CASE handler' = NoHandler /\ VecRestore
    BY <1>1, <1>2, <1>3, MaskHandlerEnds
  <1>4. CASE /\ handler' = [handler EXCEPT !.at = "suspending"]
             /\ UNCHANGED <<stack, prty, panic>>
    <2>1. IsHandler(handler)
      BY DEF MaskInv, Shapes
    <2>2. /\ IsHandler(handler')
          /\ handler'.at = "suspending"
      BY <1>4, <2>1
    <2> QED BY <1>1, <1>2, <1>4, <2>2, MaskHandlerMoves DEF Preempting
  <1> QED BY <1>3, <1>4 DEF SuspendRequest

LEMMA MaskThreadCloses ==
    ASSUME MaskInv, NEW thread \in {"exit", "entry"}, ThreadCloses(thread)
    PROVE  MaskInv'
  <1>1. handler = NoHandler /\ InThread /\ UNCHANGED <<handler, suspend>>
    BY DEF ThreadCloses, ThreadRuns, InThread, requestVars
  <1>2. CASE To("suspending") /\ UNCHANGED <<override, stack, prty, panic>>
    BY <1>1, <1>2, MaskTo DEF MaskInv, NoStackPanic
  <1>3. CASE override' = override \ StopTypes /\ VecRestore /\ job' = NoJob
    <2>1. ~InHandler /\ ~InHandler'
      BY <1>1 DEF NoHandler, InHandler
    <2>2. stack = <<DISABLED>>
      BY <1>1, <2>1 DEF MaskInv, StackFits
    <2>3. stack' = <<>> /\ prty' = DISABLED /\ panic' = panic
      BY <1>3, <2>2, RestoreOuter
    <2>4. /\ IsJob(job')
          /\ ~InThread'
      BY <1>3 DEF NoJob, InThread
    <2>5. StackFits' /\ OverrideFits'
      BY <1>3, <2>1, <2>3, <2>4 DEF StackFits, OverrideFits, MaskInv
    <2> QED BY <1>1, <2>3, <2>4, <2>5 DEF MaskInv, Shapes, NoStackPanic
  <1> QED BY <1>2, <1>3 DEF ThreadCloses
LEMMA MaskHandlers ==
    ASSUME MaskInv, Handlers
    PROVE  MaskInv'
  <1>1. CASE \E i \in Irqs : TakeInterrupt(i)
    BY <1>1, MaskTakeInterrupt
  <1>2. CASE \E t \in CoreTypes : HandlePackets(t)
    BY <1>2, MaskHandlePackets
  <1>3. CASE HandOff
    BY <1>3, MaskHandlerEnds DEF HandOff, HandlerRuns, InHandler, threadVars,
       requestVars, MaskInv, OverrideFits
  <1>4. CASE \E c \in Cores : DoorbellFirst(c)
    BY <1>4, MaskQuiet DEF DoorbellFirst, irqVars, threadVars, requestVars
  <1>5. CASE SpecialPackets
    <2>1. /\ InHandler /\ ~InThread /\ panic = "none" /\ suspend' = suspend
      BY <1>5 DEF SpecialPackets, HandlerRuns, Running, InHandler, MaskInv,
                  StackFits, Preempting
    <2>2. PICK r : Launch(r)
      BY <1>5 DEF SpecialPackets
    <2> QED BY <2>1, <2>2, MaskLaunch
  <1>6. CASE BlockRequest
    <2>1. /\ InHandler /\ ~InThread /\ panic = "none" /\ suspend' = suspend
      BY <1>6 DEF BlockRequest, HandlerRuns, Running, InHandler, MaskInv,
                  StackFits, Preempting
    <2>2. PICK r : Launch(r)
      BY <1>6 DEF BlockRequest
    <2> QED BY <2>1, <2>2, MaskLaunch
  <1>7. CASE SuspendRequest
    BY <1>7, MaskSuspendRequest
  <1>8. CASE HandlerSuspends
    BY <1>8, MaskHandlerEnds DEF HandlerSuspends, SuspendDone, HandlerRuns, InHandler,
       MaskInv, OverrideFits
  <1> QED BY <1>1, <1>2, <1>3, <1>4, <1>5, <1>6, <1>7, <1>8 DEF Handlers

(* Threads do not touch the mask until they close.                         *)
LEMMA MaskThreads ==
    ASSUME MaskInv, Threads
    PROVE  MaskInv'
  <1> USE DEF irqVars
  <1>1. CASE \E thread \in {"exit", "entry"} : ThreadStarts(thread)
    BY <1>1, MaskTo
       DEF ThreadStarts, ThreadRuns, InThread, NoStackPanic, MaskInv
  <1>2. CASE \E thread \in {"exit", "entry"} : ThreadSuspends(thread)
    BY <1>2, MaskTo
       DEF ThreadSuspends, SuspendDone, ThreadRuns, InThread, NoStackPanic,
           MaskInv, To
  <1>3. CASE \E thread \in {"exit", "entry"} : ThreadCloses(thread)
    BY <1>3, MaskThreadCloses
  <1>4. CASE ExitSelects \/ ExitTellsDone
    <2>1. /\ handler = NoHandler /\ InThread
          /\ UNCHANGED <<handler, stack, prty, override, suspend>>
          /\ \E r, at : TellsExit(r, at)
      BY <1>4 DEF ExitSelects, ExitTellsDone, ThreadRuns, InThread, requestVars
    <2>2. PICK r, at : TellsExit(r, at)
      BY <2>1
    <2>3. CASE \E qs : ToQuads(at, qs) /\ UNCHANGED panic
      BY <2>1, <2>3, MaskToQuads DEF NoStackPanic, MaskInv
    <2>4. CASE Halt("BAD_QUAD_LIST") /\ UNCHANGED job
      BY <2>1, <2>4, MaskHalts DEF Halt, NoStackPanic
    <2> QED BY <2>2, <2>3, <2>4 DEF TellsExit
  <1>5. CASE EntryNotifies \/ EntryTellsDone
    <2>1. /\ handler = NoHandler /\ InThread
          /\ UNCHANGED <<handler, stack, prty, override, suspend>>
          /\ \E stage, at : TellsEntry(stage, at)
      BY <1>5
         DEF EntryNotifies, EntryTellsDone, ThreadRuns, InThread, requestVars
    <2>2. PICK stage, at : TellsEntry(stage, at)
      BY <2>1
    <2>3. CASE \E qs : ToQuads(at, qs) /\ UNCHANGED panic
      BY <2>1, <2>3, MaskToQuads DEF NoStackPanic, MaskInv
    <2>4. CASE Halt("BAD_QUAD_LIST") /\ UNCHANGED job
      BY <2>1, <2>4, MaskHalts DEF Halt, NoStackPanic
    <2> QED BY <2>2, <2>3, <2>4 DEF TellsEntry
  <1>6. CASE ExitExpress
    BY <1>6, MaskTo
       DEF ExitExpress, ThreadRuns, InThread, NoStackPanic, MaskInv
  <1>7. CASE ExitThreadEnds
    <2>1. /\ handler = NoHandler /\ InThread
          /\ UNCHANGED <<handler, stack, prty, override, panic>>
          /\ NoStackPanic'
      BY <1>7 DEF ExitThreadEnds, ThreadRuns, InThread, MaskInv, NoStackPanic
    <2>2. CASE job' = Posted("entry")
      BY <2>2, <2>1, MaskThreadMoves DEF Posted, NoJob
    <2>3. CASE To("closing")
      BY <2>1, <2>3, MaskTo
    <2> QED BY <1>7, <2>2, <2>3 DEF ExitThreadEnds
  <1>8. CASE EntrySelects
    BY <1>8, MaskToQuads DEF EntrySelects, ThreadRuns, InThread, MaskInv, NoStackPanic
  <1>9. CASE EntryThreadEnds
    BY <1>9, MaskTo
       DEF EntryThreadEnds, ThreadRuns, InThread, NoStackPanic, MaskInv
  <1>10. CASE \E q \in Quads : ExitQuad(q)
    BY <1>10, MaskToQuads DEF ExitQuad, ThreadRuns, InThread, MaskInv, NoStackPanic
  <1>11. CASE \E q \in Quads : EntryQuad(q)
    BY <1>11, MaskToQuads DEF EntryQuad, ThreadRuns, InThread, MaskInv, NoStackPanic
  <1>12. CASE \E q \in Quads : Purge(q)
    <2>1. /\ handler = NoHandler /\ InThread
          /\ \E qs, abort : job' = [job EXCEPT !.left = qs, !.aborted = abort]
          /\ UNCHANGED <<handler, stack, prty, override, panic>>
          /\ NoStackPanic'
      BY <1>12, ZenonT(60) DEF Purge, ThreadRuns, InThread, MaskInv, NoStackPanic
    <2>2. PICK qs, abort : job' = [job EXCEPT !.left = qs, !.aborted = abort]
      BY <2>1
    <2>3. IsJob(job)
      BY DEF MaskInv, Shapes
    <2>4. /\ IsJob(job')
          /\ job'.thread = job.thread
      BY <2>2, <2>3
    <2> QED BY <2>1, <2>4, MaskThreadMoves DEF InThread
  <1> QED BY <1>1, <1>2, <1>3, <1>4, <1>5, <1>6, <1>7, <1>8, <1>9, <1>10,
             <1>11, <1>12 DEF Threads

-----------------------------------------------------------------------------
LEMMA MaskPartners ==
    ASSUME MaskInv,
           \/ \E q \in Quads, c \in Cores, level \in Levels :
                  CoreStops(q, c, level)
           \/ \E q \in Quads : \E c \in CoresOf(q) :
                  WakeUp(q, c) \/ PcInterrupt(q, c)
           \/ \E q \in Quads : SpecialWakeup(q) \/ ReleaseSpecial(q) \/ Cme(q)
           \/ OccBlocks \/ OccUnblocks \/ PgpeSuspends
    PROVE  MaskInv'
  <1> USE DEF irqVars, threadVars, requestVars
  <1>1. CASE \E q \in Quads, c \in Cores, level \in Levels :
                  CoreStops(q, c, level)
    BY <1>1, MaskQuiet DEF CoreStops
  <1>2. CASE \E q \in Quads : \E c \in CoresOf(q) :
                  WakeUp(q, c) \/ PcInterrupt(q, c)
    BY <1>2, MaskQuiet DEF WakeUp, PcInterrupt
  <1>3. CASE \E q \in Quads : SpecialWakeup(q) \/ ReleaseSpecial(q)
    BY <1>3, MaskQuiet DEF SpecialWakeup, ReleaseSpecial
  <1>4. CASE \E q \in Quads : Cme(q)
    <2>1. PICK q \in Quads : Cme(q)
      BY <1>4
    <2>2. CASE \E c \in CoresOf(q) : PcwuRead(q, c) \/ PcwuSend(c)
      BY <2>2, MaskQuiet DEF PcwuRead, PcwuSend
    <2>3. CASE \E c \in CoresOf(q) : CmeExit(q, c) \/ CmeDb2(q, c)
      BY <2>3, MaskQuiet DEF CmeExit, CmeDb2
    <2>4. CASE CmeDb1(q)
      BY <2>4, MaskQuiet DEF CmeDb1
    <2> QED BY <2>1, <2>2, <2>3, <2>4 DEF Cme
  <1>5. CASE OccBlocks \/ OccUnblocks
    BY <1>5, MaskQuiet DEF OccBlocks, OccUnblocks, OccRequest
  <1>6. CASE PgpeSuspends
    BY <1>6, MaskQuiet DEF PgpeSuspends
  <1> QED BY <1>1, <1>2, <1>3, <1>4, <1>5, <1>6

(* The FIT handler may mask type 2, and nothing else.                      *)
LEMMA MaskFit ==
    ASSUME MaskInv, Fit
    PROVE  MaskInv'
  BY DEF Fit, MaskInv, Shapes, StackFits, OverrideFits, NoStackPanic,
         InHandler, InThread, StopTypes, irqVars, threadVars, requestVars

LEMMA MaskInit == Init => MaskInv
  <1> SUFFICES ASSUME Init PROVE MaskInv
    OBVIOUS
  <1>1. /\ handler = NoHandler /\ job = NoJob /\ override = {}
        /\ stack = <<>> /\ prty = DISABLED /\ panic = "none"
    BY DEF Init
  <1> QED BY <1>1 DEF MaskInv, Shapes, StackFits, OverrideFits, NoStackPanic,
                      NoHandler, NoJob, InHandler, InThread

LEMMA MaskNext == MaskInv /\ [Next]_vars => MaskInv'
  <1> SUFFICES ASSUME MaskInv, [Next]_vars PROVE MaskInv'
    OBVIOUS
  <1>1. CASE Sgpe
    BY <1>1, MaskHandlers, MaskThreads DEF Sgpe
  <1>2. CASE Fit
    BY <1>2, MaskFit
  <1>3. CASE UNCHANGED vars
    BY <1>3, MaskQuiet DEF vars, irqVars, threadVars, requestVars
  <1> QED BY <1>1, <1>2, <1>3, MaskPartners DEF Next

(* What the SGPE saves of its mask it restores exactly once, whoever posts *)
(* a thread, is preempted, aborts or is suspended: the stack of            *)
(* p9_sgpe_irq.c never overflows nor is read below its end                 *)
(* (pk_irq_vec_restore, p9_sgpe_irq.h:100-137).                            *)
THEOREM StackIsBalanced == Spec => []NoStackPanic
  <1>1. MaskInv => NoStackPanic
    BY DEF MaskInv
  <1> QED BY <1>1, MaskInit, MaskNext, PTL DEF Spec

(* No interrupt stays masked: whenever no handler runs and both threads    *)
(* sleep, the mask is the one the SGPE started with, up to type 2 while    *)
(* the others starve (p9_sgpe_stop_threads.c:47 and 92).                   *)
THEOREM MaskIsRestored == Spec => []MasksRestored
  <1>1. MaskInv => MasksRestored
    BY DEF MaskInv, MasksRestored, StackFits, OverrideFits, Idle, NoHandler,
           NoJob, InHandler, InThread
  <1> QED BY <1>1, MaskInit, MaskNext, PTL DEF Spec
-----------------------------------------------------------------------------
(* Folds over a finite set, as FoldSet of FiniteSetsExt computes them.  The *)
(* induction is over the subsets: a property that fails for one fails for a *)
(* smallest one.                                                            *)
LEMMA MinimalSubset ==
    ASSUME NEW S, IsFiniteSet(S), NEW Bad \in SUBSET (SUBSET S), Bad # {}
    PROVE  \E T \in Bad : \A U \in Bad : U \subseteq T => U = T
<1>1. IsWellFoundedOn(StrictSubsetOrdering(S), SUBSET S)
  BY FS_StrictSubsetOrderingWellFounded, FS_FiniteSubsetsOfFinite
<1>2. PICK T \in Bad : \A U \in Bad : ~(<<U, T>> \in StrictSubsetOrdering(S))
  BY <1>1, WFMin
<1>. QED  BY <1>2 DEF StrictSubsetOrdering

Chosen(s) == CHOOSE x \in s : TRUE
Folds(g, T, base, Op) ==
    \A s \in SUBSET T :
        g[s] = IF s = {} THEN base ELSE Op[Chosen(s), g[s \ {Chosen(s)}]]

LEMMA ChosenIn == ASSUME NEW s, s # {} PROVE Chosen(s) \in s
  BY DEF Chosen

LEMMA FoldUnique ==
    ASSUME NEW S, IsFiniteSet(S), NEW base, NEW Op,
           NEW T \in SUBSET S, NEW g, Folds(g, T, base, Op),
           NEW U \in SUBSET S, NEW h, Folds(h, U, base, Op)
    PROVE  \A s \in (SUBSET T) \intersect (SUBSET U) : g[s] = h[s]
<1>. DEFINE Bad == {s \in (SUBSET T) \intersect (SUBSET U) : g[s] # h[s]}
<1>. SUFFICES ASSUME Bad # {} PROVE FALSE
  OBVIOUS
<1>1. Bad \in SUBSET (SUBSET S)
  OBVIOUS
<1>2. PICK s \in Bad : \A r \in Bad : r \subseteq s => r = s
  <2>. HIDE DEF Bad
  <2>. QED  BY <1>1, MinimalSubset
<1>3. s \in SUBSET T /\ s \in SUBSET U /\ g[s] # h[s]
  BY <1>2
<1>4. s # {}
  BY <1>3 DEF Folds
<1>5. DEFINE r == s \ {Chosen(s)}
<1>6. r \subseteq s /\ r # s
  BY <1>4, ChosenIn
<1>7. r \in SUBSET T /\ r \in SUBSET U /\ r \notin Bad
  BY <1>2, <1>3, <1>6
<1>8. g[r] = h[r]
  BY <1>7
<1>9. g[s] = Op[Chosen(s), g[r]] /\ h[s] = Op[Chosen(s), h[r]]
  BY <1>3, <1>4 DEF Folds
<1>. QED  BY <1>3, <1>8, <1>9

LEMMA FoldExists ==
    ASSUME NEW S, IsFiniteSet(S), NEW R, NEW base \in R,
           NEW Op \in [S \X R -> R]
    PROVE  \E g \in [SUBSET S -> R] : Folds(g, S, base, Op)
<1>. DEFINE Has(T) == \E g \in [SUBSET T -> R] : Folds(g, T, base, Op)
            Bad == {T \in SUBSET S : ~Has(T)}
<1>. SUFFICES ASSUME ~Has(S) PROVE FALSE
  OBVIOUS
<1>1. Bad # {} /\ Bad \in SUBSET (SUBSET S)
  OBVIOUS
<1>2. PICK T \in Bad : \A U \in Bad : U \subseteq T => U = T
  <2>. HIDE DEF Bad
  <2>. QED  BY <1>1, MinimalSubset
<1>3. T \in SUBSET S /\ ~Has(T)
  BY <1>2
<1>4. \A U \in SUBSET T : U # T => Has(U)
  BY <1>2, <1>3
<1>. DEFINE G(U) == CHOOSE g \in [SUBSET U -> R] : Folds(g, U, base, Op)
<1>5. \A U \in SUBSET T : U # T =>
         G(U) \in [SUBSET U -> R] /\ Folds(G(U), U, base, Op)
  BY <1>4
<1>. DEFINE rest(s) == s \ {Chosen(s)}
            val(s) == IF s = {} THEN base
                      ELSE Op[Chosen(s), G(rest(s))[rest(s)]]
            g == [s \in SUBSET T |-> val(s)]
<1>6. \A s \in SUBSET T : s # {} =>
         /\ Chosen(s) \in S /\ rest(s) \in SUBSET T /\ rest(s) # T
         /\ rest(s) \in SUBSET s /\ rest(s) # s
  BY <1>3, ChosenIn
<1>7. \A s \in SUBSET T : s # {} => G(rest(s))[rest(s)] \in R
  <2>. TAKE s \in SUBSET T
  <2>. HAVE s # {}
  <2>1. G(rest(s)) \in [SUBSET rest(s) -> R]
    BY <1>5, <1>6
  <2>. HIDE DEF G, rest
  <2>. QED  BY <2>1
<1>8. \A s \in SUBSET T : val(s) \in R
  <2>. HIDE DEF G, rest
  <2>. QED  BY <1>6, <1>7
<1>9. g \in [SUBSET T -> R]
  <2>. HIDE DEF val
  <2>. QED  BY <1>8
<1>10. \A s \in SUBSET T : s # T => G(s)[s] = val(s)
  <2>. TAKE s \in SUBSET T
  <2>. HAVE s # T
  <2>1. Folds(G(s), s, base, Op)
    BY <1>5
  <2>2. CASE s = {}
    <3>. HIDE DEF G, rest
    <3>. QED  BY <2>1, <2>2 DEF Folds
  <2>3. CASE s # {}
    <3>1. Folds(G(rest(s)), rest(s), base, Op)
      BY <1>5, <1>6, <2>3
    <3>2. rest(s) \in SUBSET s /\ rest(s) \in SUBSET S /\ s \in SUBSET S
      BY <1>3, <1>6, <2>3
    <3>. HIDE DEF G
    <3>3. G(s)[rest(s)] = G(rest(s))[rest(s)]
      <4>. HIDE DEF rest
      <4>. QED  BY <2>1, <3>1, <3>2, FoldUnique
    <3>4. G(s)[s] = Op[Chosen(s), G(s)[rest(s)]]
      BY <2>1, <2>3 DEF Folds
    <3>. QED  BY <2>3, <3>3, <3>4
  <2>. QED  BY <2>2, <2>3
<1>11. Folds(g, T, base, Op)
  <2>. SUFFICES ASSUME NEW s \in SUBSET T
       PROVE  g[s] = IF s = {} THEN base
                     ELSE Op[Chosen(s), g[s \ {Chosen(s)}]]
    BY DEF Folds
  <2>1. CASE s = {}
    BY <2>1
  <2>2. CASE s # {}
    <3>1. g[rest(s)] = val(rest(s))
      BY <1>6, <2>2
    <3>2. G(rest(s))[rest(s)] = val(rest(s))
      BY <1>6, <1>10, <2>2
    <3>3. g[s] = Op[Chosen(s), G(rest(s))[rest(s)]]
      BY <2>2
    <3>. HIDE DEF g, G, val
    <3>. QED  BY <2>2, <3>1, <3>2, <3>3
  <2>. QED  BY <2>1, <2>2
<1>. QED  BY <1>3, <1>9, <1>11

(* A set that every step of a fold stays in holds its result.              *)
LEMMA StepsStay ==
    ASSUME NEW S, IsFiniteSet(S), NEW G, NEW iter, iter[{}] \in G,
           \A s \in SUBSET S :
               s # {} /\ iter[s \ {Chosen(s)}] \in G => iter[s] \in G
    PROVE  iter[S] \in G
<1>. DEFINE Bad == {s \in SUBSET S : iter[s] \notin G}
<1>. SUFFICES ASSUME Bad # {} PROVE FALSE
  OBVIOUS
<1>1. Bad \in SUBSET (SUBSET S)
  OBVIOUS
<1>2. PICK s \in Bad : \A r \in Bad : r \subseteq s => r = s
  <2>. HIDE DEF Bad
  <2>. QED  BY <1>1, MinimalSubset
<1>3. s \in SUBSET S /\ iter[s] \notin G
  BY <1>2
<1>4. s # {}
  BY <1>3
<1>5. s \ {Chosen(s)} \notin Bad
  BY <1>2, <1>4, ChosenIn
<1>. QED  BY <1>3, <1>4, <1>5

(* So it is for the packets that a handler parses.                         *)
LEMMA ParsedIn ==
    ASSUME NEW t, NEW cs, IsFiniteSet(cs), NEW G,
           [rec EXCEPT !.core.PIGE = {}, !.core.PIGX = {}] \in G,
           \A c \in cs : \A r \in G : Packet(t, c, r) \in G
    PROVE  Parsed(t, cs) \in G
<1>. DEFINE base == [rec EXCEPT !.core.PIGE = {}, !.core.PIGX = {}]
            Op == [x \in cs \X G |-> Packet(t, x[1], x[2])]
            Eq(i) == i = [s \in SUBSET cs |->
                             IF s = {} THEN base
                             ELSE LET x == CHOOSE y \in s : TRUE
                                  IN  Packet(t, x, i[s \ {x}])]
            iter == CHOOSE i : Eq(i)
<1>1. Parsed(t, cs) = iter[cs]
  BY DEF Parsed, FoldSet, MapThenFoldSet
<1>. HIDE DEF base
<1>2. Op \in [cs \X G -> G]
  OBVIOUS
<1>3. PICK g \in [SUBSET cs -> G] : Folds(g, cs, base, Op)
  <2>. HIDE DEF Op
  <2>. QED  BY <1>2, FoldExists DEF base
<1>4. \A s \in SUBSET cs : s # {} =>
         /\ Chosen(s) \in cs /\ s \ {Chosen(s)} \in SUBSET cs
         /\ g[s \ {Chosen(s)}] \in G
  BY ChosenIn
<1>5. \A s \in SUBSET cs : s # {} =>
         Op[Chosen(s), g[s \ {Chosen(s)}]]
             = Packet(t, Chosen(s), g[s \ {Chosen(s)}])
  BY <1>4
<1>. HIDE DEF Op
<1>6. \A s \in SUBSET cs :
         g[s] = IF s = {} THEN base
                ELSE Packet(t, Chosen(s), g[s \ {Chosen(s)}])
  BY <1>3, <1>5 DEF Folds
<1>7. Eq(g)
  BY <1>3, <1>6 DEF Chosen
<1>8. Eq(iter)
  <2>. HIDE DEF Eq
  <2>. QED  BY <1>7
<1>9. \A s \in SUBSET cs :
         iter[s] = IF s = {} THEN base
                   ELSE Packet(t, Chosen(s), iter[s \ {Chosen(s)}])
  BY <1>8 DEF Chosen
<1>10. base \in G
  BY DEF base
<1>. HIDE DEF iter, Eq
<1>11. iter[{}] \in G
  BY <1>9, <1>10
<1>12. \A s \in SUBSET cs :
          s # {} /\ iter[s \ {Chosen(s)}] \in G => iter[s] \in G
  <2>. TAKE s \in SUBSET cs
  <2>. HAVE s # {} /\ iter[s \ {Chosen(s)}] \in G
  <2>1. iter[s] = Packet(t, Chosen(s), iter[s \ {Chosen(s)}])
    BY <1>9
  <2>2. Chosen(s) \in cs
    BY <1>4
  <2>. QED  BY <2>1, <2>2
<1>13. iter[cs] \in G
  BY <1>11, <1>12, StepsStay
<1>. QED  BY <1>1, <1>13

LEMMA BlockWhatFinite == IsFiniteSet(BlockWhat)
<1>1. IsFiniteSet({"entry"}) /\ IsFiniteSet({"exit"})
  BY FS_Singleton
<1>2. IsFiniteSet({"entry"} \union {"exit"})
  BY <1>1, FS_Union
<1>3. BlockWhat \in SUBSET ({"entry"} \union {"exit"})
  BY SgpeAssumption
<1>. QED  BY <1>2, <1>3, FS_Subset

(* And for what an acknowledgement or the OCC unblocks.                     *)
LEMMA UnblockedIn ==
    ASSUME NEW r0, NEW G, r0 \in G,
           \A d \in BlockWhat : \A r \in G : Released(d, r) \in G
    PROVE  Unblocked(r0) \in G
<1>. DEFINE base == r0
            Op == [x \in BlockWhat \X G |-> Released(x[1], x[2])]
            Eq(i) == i = [s \in SUBSET BlockWhat |->
                             IF s = {} THEN base
                             ELSE LET x == CHOOSE y \in s : TRUE
                                  IN  Released(x, i[s \ {x}])]
            iter == CHOOSE i : Eq(i)
<1>1. Unblocked(r0) = iter[BlockWhat]
  BY DEF Unblocked, FoldSet, MapThenFoldSet
<1>. HIDE DEF base
<1>2. Op \in [BlockWhat \X G -> G]
  OBVIOUS
<1>3. PICK g \in [SUBSET BlockWhat -> G] : Folds(g, BlockWhat, base, Op)
  <2>. HIDE DEF Op
  <2>. QED  BY <1>2, FoldExists, BlockWhatFinite DEF base
<1>4. \A s \in SUBSET BlockWhat : s # {} =>
         /\ Chosen(s) \in BlockWhat /\ s \ {Chosen(s)} \in SUBSET BlockWhat
         /\ g[s \ {Chosen(s)}] \in G
  BY ChosenIn
<1>5. \A s \in SUBSET BlockWhat : s # {} =>
         Op[Chosen(s), g[s \ {Chosen(s)}]]
             = Released(Chosen(s), g[s \ {Chosen(s)}])
  BY <1>4
<1>. HIDE DEF Op
<1>6. \A s \in SUBSET BlockWhat :
         g[s] = IF s = {} THEN base
                ELSE Released(Chosen(s), g[s \ {Chosen(s)}])
  BY <1>3, <1>5 DEF Folds
<1>7. Eq(g)
  BY <1>3, <1>6 DEF Chosen
<1>8. Eq(iter)
  <2>. HIDE DEF Eq
  <2>. QED  BY <1>7
<1>9. \A s \in SUBSET BlockWhat :
         iter[s] = IF s = {} THEN base
                   ELSE Released(Chosen(s), iter[s \ {Chosen(s)}])
  BY <1>8 DEF Chosen
<1>10. base \in G
  BY DEF base
<1>. HIDE DEF iter, Eq
<1>11. iter[{}] \in G
  BY <1>9, <1>10
<1>12. \A s \in SUBSET BlockWhat :
          s # {} /\ iter[s \ {Chosen(s)}] \in G => iter[s] \in G
  <2>. TAKE s \in SUBSET BlockWhat
  <2>. HAVE s # {} /\ iter[s \ {Chosen(s)}] \in G
  <2>1. iter[s] = Released(Chosen(s), iter[s \ {Chosen(s)}])
    BY <1>9
  <2>2. Chosen(s) \in BlockWhat
    BY <1>4
  <2>. QED  BY <2>1, <2>2
<1>13. iter[BlockWhat] \in G
  BY <1>11, <1>12, StepsStay, BlockWhatFinite
<1>. QED  BY <1>1, <1>13
-----------------------------------------------------------------------------
(* Types.                                                                  *)
Records ==
    [level : [Cores -> {0, 5, 11}], act : [Quads -> {0, 11}],
     core : [CoreVectors -> SUBSET Cores],
     quad : [QuadVectors -> SUBSET Quads],
     qswu : [QswuVectors -> SUBSET Quads],
     creq : SUBSET Cores, cack : SUBSET Cores,
     status : SUBSET Status, entry_pending : BOOLEAN]

TypesOfCores ==
    /\ running \subseteq Cores /\ wns \subseteq Cores
    /\ type \in [Cores -> {"TYPE2", "TYPE3"}]
    /\ wakeup \union pcPending \union blockpc \union notified \subseteq Cores
TypesOfCmes ==
    /\ cmeBlock \in [Quads -> SUBSET BlockWhat] /\ cmeSuspend \subseteq Quads
    /\ db1 \in [Quads -> {"none"} \union Acks]
    /\ db2 \in [Cores -> {"none", "DECREMENTER_WAKEUP",
                          "RESONANT_CLOCK_DISABLE", "RESONANT_CLOCK_ENABLE"}]
    /\ powered \subseteq Quads /\ rclk \subseteq Quads
TypesOfRequests ==
    /\ special \in [Quads -> {"off", "asserted", "done", "released"}]
    /\ control \in {"none", "block", "unblock", "asked"}
    /\ suspend \in {"no", "sent", "taken", "acked"}
TypesOfPackets ==
    /\ pend = [t \in StopTypes |-> pend[t]]
    /\ payload = [t \in StopTypes |-> payload[t]]
    /\ \A t \in CoreTypes : /\ pend[t] \subseteq Cores
                            /\ payload[t] \in [Cores -> Payloads]
    /\ pend.TYPE6 \subseteq Quads
    /\ payload.TYPE6 \in [Quads -> {"none", "exit", "entry"}]
TypesOfHandler ==
    /\ handler.irq \in Irqs \union {"none"}
    /\ handler.at \in CoreTypes \union {"handoff"} => handler.set \subseteq Cores
    /\ handler.at = "TYPE6" => handler.set \subseteq Quads
TypesOfJob ==
    /\ job.thread \in {"none", "exit", "entry"} /\ job.left \subseteq Quads
    /\ ee \in [{"exit", "entry"} -> BOOLEAN]
TypesOfPgpe ==
    /\ pgpe = [cores |-> pgpe.cores, quads |-> pgpe.quads]
    /\ pgpe.cores \subseteq Cores /\ pgpe.quads \subseteq Quads
Panics == {"none", "PHANTOM", "BAD_CORE_LIST", "BAD_QUAD_LIST",
           "STACK_OVERFLOW", "STACK_UNDERFLOW", "RESCLK_ON"}

TypeInv ==
    /\ TypesOfCores /\ TypesOfCmes /\ TypesOfRequests /\ TypesOfPackets
    /\ rec \in Records /\ TypesOfHandler /\ TypesOfJob /\ TypesOfPgpe
    /\ panic \in Panics

-----------------------------------------------------------------------------
LEMMA CoresOfQuads ==
    /\ \A q \in Quads : CoresOf(q) \subseteq Cores /\ First(q) \in CoresOf(q)
    /\ \A q \in Quads : \A c \in CoresOf(q) : QuadOf(c) = q
    /\ \A c \in Cores : QuadOf(c) \in Quads /\ c \in CoresOf(QuadOf(c))
<1>1. \A q \in Quads : CoresOf(q) \subseteq Cores
  BY DEF Cores
<1>2. \A q \in Quads : \A c \in CoresOf(q) : QuadOf(c) = q
  BY SgpeAssumption DEF QuadOf
<1>3. \A c \in Cores : \E q \in Quads : c \in CoresOf(q)
  BY DEF Cores
<1>. QED  BY <1>1, <1>2, <1>3, SgpeAssumption

LEMMA CoresIn ==
    /\ \A Q \in SUBSET Quads : In(Q) \subseteq Cores
    /\ \A Q \in SUBSET Quads, c \in Cores : c \in In(Q) <=> QuadOf(c) \in Q
<1>1. \A Q : \A c : c \in In(Q) <=> \E q \in Q : c \in CoresOf(q)
  BY DEF In
<1>. QED  BY <1>1, CoresOfQuads

LEMMA VectorsAre == \A d \in {"entry", "exit"} :
    /\ Vector[d].block \in CoreVectors \intersect QuadVectors
    /\ Vector[d].block \in QswuVectors
    /\ Vector[d].suspend \in CoreVectors \intersect QswuVectors
    /\ Vector[d].core \in CoreVectors /\ Vector[d].qswu \in QswuVectors
    /\ Vector[d].status \in Status
    /\ Vector[d].block \notin {Vector[d].suspend, Vector[d].core,
                               Vector[d].qswu}
BY DEF Vector, CoreVectors, QuadVectors, QswuVectors, Status

(* A request released goes from the vector of blocked ones to another.     *)
LEMMA ReleasedIs ==
    ASSUME NEW d \in BlockWhat, NEW r \in Records
    PROVE  LET v == Vector[d]
               held == v.status \in r.status
               Moved(f, to) == [w \in DOMAIN f |-> IF w = v.block THEN {}
                                    ELSE IF w = to THEN f[w] \union f[v.block]
                                                   ELSE f[w]]
           IN  Released(d, r) =
                 [r EXCEPT !.core = Moved(@, IF held THEN v.suspend ELSE v.core),
                           !.qswu = Moved(@, IF held THEN v.suspend ELSE v.qswu)]
<1>. DEFINE v == Vector[d]
            held == v.status \in r.status
            toCore == IF held THEN v.suspend ELSE v.core
            toQuad == IF held THEN v.suspend ELSE v.qswu
            Moved(f, to) == [w \in DOMAIN f |-> IF w = v.block THEN {}
                                 ELSE IF w = to THEN f[w] \union f[v.block]
                                                ELSE f[w]]
            c1 == [r.core EXCEPT ![toCore] = @ \union r.core[v.block]]
            c2 == [c1 EXCEPT ![v.block] = {}]
            q1 == [r.qswu EXCEPT ![toQuad] = @ \union r.qswu[v.block]]
            q2 == [q1 EXCEPT ![v.block] = {}]
            r1 == [r EXCEPT !.core[toCore] = @ \union r.core[v.block]]
            r2 == [r1 EXCEPT !.qswu[toQuad] = @ \union r.qswu[v.block]]
            r3 == [r2 EXCEPT !.core[v.block] = {}]
            r4 == [r3 EXCEPT !.qswu[v.block] = {}]
<1>1. /\ v.block \in CoreVectors /\ v.block \in QswuVectors
      /\ toCore \in CoreVectors /\ toQuad \in QswuVectors
      /\ toCore # v.block /\ toQuad # v.block
  BY SgpeAssumption, VectorsAre
<1>2. Released(d, r) = r4
  BY DEF Released
<1>. HIDE DEF v, toCore, toQuad
<1>3. r1.core = c1 /\ r1.qswu = r.qswu /\ r1 = [r EXCEPT !.core = c1]
  BY <1>1 DEF Records
<1>4. /\ r2.core = c1 /\ r2.qswu = q1
      /\ r2 = [r EXCEPT !.core = c1, !.qswu = q1]
  BY <1>1, <1>3 DEF Records
<1>5. /\ r3.core = c2 /\ r3.qswu = q1
      /\ r3 = [r EXCEPT !.core = c2, !.qswu = q1]
  BY <1>1, <1>4 DEF Records
<1>6. r4 = [r EXCEPT !.core = c2, !.qswu = q2]
  BY <1>1, <1>5 DEF Records
<1>7. c2 = Moved(r.core, toCore) /\ q2 = Moved(r.qswu, toQuad)
  BY <1>1 DEF Records
<1>. QED  BY <1>2, <1>6, <1>7 DEF v, toCore, toQuad

LEMMA ReleasedType ==
    ASSUME NEW d \in BlockWhat, NEW r \in Records
    PROVE  Released(d, r) \in Records
<1>1. Vector[d].block \in CoreVectors /\ Vector[d].block \in QswuVectors
  BY SgpeAssumption, VectorsAre
<1>. DEFINE v == Vector[d]
            held == v.status \in r.status
            Moved(f, to) == [w \in DOMAIN f |-> IF w = v.block THEN {}
                                 ELSE IF w = to THEN f[w] \union f[v.block]
                                                ELSE f[w]]
            c == Moved(r.core, IF held THEN v.suspend ELSE v.core)
            q == Moved(r.qswu, IF held THEN v.suspend ELSE v.qswu)
<1>2. Released(d, r) = [r EXCEPT !.core = c, !.qswu = q]
  BY ReleasedIs
<1>3. c \in [CoreVectors -> SUBSET Cores] /\ q \in [QswuVectors -> SUBSET Quads]
  BY <1>1 DEF Records
<1>. HIDE DEF c, q
<1>. QED  BY <1>2, <1>3 DEF Records

LEMMA UnblockedType ==
    ASSUME NEW r \in Records
    PROVE  Unblocked(r) \in Records
BY ReleasedType, UnblockedIn

LEMMA AcknowledgedType ==
    ASSUME NEW r \in Records, NEW c \in Cores, NEW what
    PROVE  Acknowledged(r, c, what) \in Records
<1>. DEFINE s == [r EXCEPT !.cack = @ \union {c}]
<1>1. s \in Records
  BY DEF Records
<1>. QED  BY <1>1, UnblockedType DEF Acknowledged

(* A request is in the vectors of those suspended, blocked or granted.     *)
Joins(r, q, v, w) ==
    \/ w = v.suspend /\ v.status \in r.status
    \/ w = v.block /\ q \in r.quad[v.block]
    \/ w = v.core /\ v.status \notin r.status /\ q \notin r.quad[v.block]
LEMMA RequestedIs ==
    ASSUME NEW r \in Records, NEW q \in Quads, NEW cs \in SUBSET Cores,
           NEW d \in {"entry", "exit"}
    PROVE  Requested(r, q, cs, d) =
               [r EXCEPT !.core = [w \in CoreVectors |->
                    IF Joins(r, q, Vector[d], w) THEN r.core[w] \union cs
                                                 ELSE r.core[w]]]
<1>. DEFINE v == Vector[d]
            held == v.status \in r.status
            blocked == q \in r.quad[v.block]
            granted == ~held /\ ~blocked
            c1 == [r.core EXCEPT ![v.suspend] = IF held THEN @ \union cs ELSE @]
            c2 == [c1 EXCEPT ![v.block] = IF blocked THEN @ \union cs ELSE @]
            c3 == [c2 EXCEPT ![v.core] = IF granted THEN @ \union cs ELSE @]
            A == IF held THEN r.core[v.suspend] \union cs ELSE r.core[v.suspend]
            B == IF blocked THEN r.core[v.block] \union cs ELSE r.core[v.block]
            C == IF granted THEN r.core[v.core] \union cs ELSE r.core[v.core]
            r1 == [r EXCEPT !.core[v.suspend] = A]
            r2 == [r1 EXCEPT !.core[v.block] = B]
            r3 == [r2 EXCEPT !.core[v.core] = C]
<1>1. /\ v.block \in CoreVectors /\ v.core \in CoreVectors
      /\ v.suspend \in CoreVectors
      /\ v.block # v.core /\ v.block # v.suspend /\ v.suspend # v.core
  BY DEF Vector, CoreVectors
<1>2. Requested(r, q, cs, d) = r3
  BY DEF Requested
<1>3. /\ Joins(r, q, v, v.suspend) <=> held
      /\ Joins(r, q, v, v.block) <=> blocked
      /\ Joins(r, q, v, v.core) <=> granted
      /\ \A w \in CoreVectors \ {v.suspend, v.block, v.core} : ~Joins(r, q, v, w)
  BY <1>1 DEF Joins
<1>. HIDE DEF v, held, blocked, granted
<1>4. r1.core = c1 /\ r1 = [r EXCEPT !.core = c1]
  BY <1>1 DEF Records
<1>5. r2.core = c2 /\ r2 = [r EXCEPT !.core = c2]
  BY <1>1, <1>4 DEF Records
<1>6. r3 = [r EXCEPT !.core = c3]
  BY <1>1, <1>5, ZenonT(60) DEF Records
<1>7. c3 = [w \in CoreVectors |->
              IF Joins(r, q, v, w) THEN r.core[w] \union cs ELSE r.core[w]]
  BY <1>1, <1>3, ZenonT(60) DEF Records
<1>. QED  BY <1>2, <1>6, <1>7 DEF v

LEMMA RequestedType ==
    ASSUME NEW r \in Records, NEW q \in Quads, NEW cs \in SUBSET Cores,
           NEW d \in {"entry", "exit"}
    PROVE  Requested(r, q, cs, d) \in Records
BY RequestedIs, SMTT(60) DEF Records

LEMMA ExitPacketType ==
    ASSUME NEW r \in Records, NEW c \in Cores, NEW what
    PROVE  ExitPacket(r, c, what) \in Records
<1>. DEFINE q == QuadOf(c)
            clocked == what = "exit_rclk"
            s == [r EXCEPT
                    !.core.PCWU = IF what = "dec_wakeup" THEN @ \union {c}
                                  ELSE @,
                    !.quad.RCLKX = IF clocked THEN @ \ {q} ELSE @]
            cs == IF clocked THEN s.core.RCLKX \intersect CoresOf(q) ELSE {c}
<1>1. s \in Records
  BY ZenonT(120) DEF Records, CoreVectors, QuadVectors
<1>2. q \in Quads
  BY CoresOfQuads
<1>3. cs \in SUBSET Cores
  BY <1>2, CoresOfQuads
<1>4. ExitPacket(r, c, what) = Requested(s, q, cs, "exit")
  BY DEF ExitPacket
<1>. HIDE DEF s, q, cs
<1>. QED  BY <1>1, <1>2, <1>3, <1>4, RequestedType

LEMMA EntryPacketType ==
    ASSUME NEW r \in Records, NEW c \in Cores, NEW what
    PROVE  EntryPacket(r, c, what) \in Records
<1>. DEFINE q == QuadOf(c)
            s == [r EXCEPT !.level[c] = IF what = "stop5" THEN 5 ELSE 11]
            e == [s EXCEPT !.quad.RCLK_REQ = @ \ {q},
                           !.quad.RCLK_DONE = @ \union {q}]
<1>1. s \in Records
  BY DEF Records
<1>2. q \in Quads /\ {c} \in SUBSET Cores
  BY CoresOfQuads
<1>3. EntryPacket(r, c, what) = IF what = "entry_rclk" THEN e
                                ELSE Requested(s, q, {c}, "entry")
  BY DEF EntryPacket
<1>. HIDE DEF s, q
<1>4. e \in Records
  BY <1>1, <1>2, ZenonT(120) DEF Records, QuadVectors
<1>. HIDE DEF e
<1>. QED  BY <1>1, <1>2, <1>3, <1>4, RequestedType

LEMMA PacketType ==
    ASSUME NEW r \in Records, NEW c \in Cores, NEW t
    PROVE  Packet(t, c, r) \in Records
BY AcknowledgedType, ExitPacketType, EntryPacketType DEF Packet

LEMMA ParsedType ==
    ASSUME rec \in Records, NEW cs \in SUBSET Cores, NEW t
    PROVE  Parsed(t, cs) \in Records
<1>1. IsFiniteSet(cs)
  BY SgpeAssumption, FS_Subset
<1>2. [rec EXCEPT !.core.PIGE = {}, !.core.PIGX = {}] \in Records
  BY DEF Records, CoreVectors
<1>3. \A c \in cs : \A r \in Records : Packet(t, c, r) \in Records
  BY PacketType
<1>. QED  BY <1>1, <1>2, <1>3, ParsedIn

-----------------------------------------------------------------------------
LEMMA TypesStay ==
    ASSUME TypeInv
    PROVE  /\ UNCHANGED coreVars => TypesOfCores'
           /\ UNCHANGED cmeVars => TypesOfCmes'
           /\ UNCHANGED requestVars => TypesOfRequests'
           /\ UNCHANGED pigVars => TypesOfPackets'
           /\ UNCHANGED rec => rec' \in Records
           /\ UNCHANGED handler => TypesOfHandler'
           /\ UNCHANGED threadVars => TypesOfJob'
           /\ UNCHANGED pgpe => TypesOfPgpe'
           /\ UNCHANGED panic => panic' \in Panics
<1>. USE DEF TypeInv
<1>1. UNCHANGED coreVars => TypesOfCores'
  BY DEF coreVars, TypesOfCores
<1>2. UNCHANGED cmeVars => TypesOfCmes'
  BY DEF cmeVars, TypesOfCmes
<1>3. UNCHANGED requestVars => TypesOfRequests'
  BY DEF requestVars, TypesOfRequests
<1>4. UNCHANGED pigVars => TypesOfPackets'
  BY DEF pigVars, TypesOfPackets
<1>5. UNCHANGED threadVars => TypesOfJob'
  BY DEF threadVars, TypesOfJob
<1>6. UNCHANGED handler => TypesOfHandler'
  BY DEF TypesOfHandler
<1>7. UNCHANGED pgpe => TypesOfPgpe'
  BY DEF TypesOfPgpe
<1>. QED  BY <1>1, <1>2, <1>3, <1>4, <1>5, <1>6, <1>7

LEMMA SendType ==
    ASSUME TypeInv, NEW t \in CoreTypes, NEW c \in Cores, NEW what \in Payloads,
           Send(t, c, what)
    PROVE  TypesOfPackets'
<1>1. /\ pend' = [pend EXCEPT ![t] = @ \union {c}]
      /\ payload' = [payload EXCEPT ![t][c] = what]
  BY DEF Send
<1>2. TypesOfPackets
  BY DEF TypeInv
<1>3. t \in StopTypes /\ t # "TYPE6" /\ CoreTypes \subseteq StopTypes
  BY DEF CoreTypes, StopTypes
<1>4. /\ pend'[t] = pend[t] \union {c}
      /\ \A u \in StopTypes \ {t} : pend'[u] = pend[u]
      /\ pend' = [u \in StopTypes |-> pend'[u]]
  BY <1>1, <1>2, <1>3 DEF TypesOfPackets
<1>5. /\ payload'[t] = [payload[t] EXCEPT ![c] = what]
      /\ \A u \in StopTypes \ {t} : payload'[u] = payload[u]
      /\ payload' = [u \in StopTypes |-> payload'[u]]
  BY <1>1, <1>2, <1>3 DEF TypesOfPackets
<1>6. \A u \in CoreTypes : /\ pend'[u] \subseteq Cores
                           /\ payload'[u] \in [Cores -> Payloads]
  BY <1>2, <1>3, <1>4, <1>5 DEF TypesOfPackets
<1>7. pend'.TYPE6 = pend.TYPE6 /\ payload'.TYPE6 = payload.TYPE6
  BY <1>3, <1>4, <1>5 DEF StopTypes
<1>. QED  BY <1>2, <1>4, <1>5, <1>6, <1>7 DEF TypesOfPackets

LEMMA SendQuadType ==
    ASSUME TypeInv, NEW q \in Quads, NEW what \in {"exit", "entry"},
           SendQuad(q, what)
    PROVE  TypesOfPackets'
<1>1. /\ pend' = [pend EXCEPT !.TYPE6 = @ \union {q}]
      /\ payload' = [payload EXCEPT !.TYPE6[q] = what]
  BY DEF SendQuad
<1>2. TypesOfPackets
  BY DEF TypeInv
<1>3. "TYPE6" \in StopTypes /\ CoreTypes = StopTypes \ {"TYPE6"}
  BY DEF CoreTypes, StopTypes
<1>4. /\ pend'.TYPE6 = pend.TYPE6 \union {q}
      /\ \A u \in CoreTypes : pend'[u] = pend[u]
      /\ pend' = [u \in StopTypes |-> pend'[u]]
  BY <1>1, <1>2, <1>3 DEF TypesOfPackets
<1>5. /\ payload'.TYPE6 = [payload.TYPE6 EXCEPT ![q] = what]
      /\ \A u \in CoreTypes : payload'[u] = payload[u]
      /\ payload' = [u \in StopTypes |-> payload'[u]]
  BY <1>1, <1>2, <1>3 DEF TypesOfPackets
<1>. QED  BY <1>2, <1>4, <1>5 DEF TypesOfPackets

LEMMA TypeCoresMove ==
    ASSUME TypeInv, NEW q \in Quads, NEW c \in CoresOf(q),
           \/ \E level \in Levels : CoreStops(q, c, level)
           \/ WakeUp(q, c) \/ PcInterrupt(q, c)
           \/ PcwuRead(q, c) \/ PcwuSend(c) \/ CmeExit(q, c)
    PROVE  TypeInv'
<1>1. c \in Cores
  BY CoresOfQuads
<1>2. type[c] \in CoreTypes /\ TypesOfCores
  BY <1>1 DEF TypeInv, TypesOfCores, CoreTypes
<1>3. CASE \E level \in Levels : CoreStops(q, c, level)
  <2>1. PICK level \in Levels : CoreStops(q, c, level)
    BY <1>3
  <2>. DEFINE t == IF level = 11 THEN "TYPE3" ELSE "TYPE2"
  <2>2. /\ type' = [type EXCEPT ![c] = t] /\ Send(t, c, PacketOf(level))
        /\ running' = running \ {c} /\ wns' = wns \union {c}
        /\ blockpc' \subseteq blockpc \union {c}
        /\ UNCHANGED <<wakeup, pcPending, notified, cmeVars, requestVars, rec,
                       threadVars, handler, pgpe, panic>>
    BY <2>1 DEF CoreStops
  <2>3. t \in CoreTypes /\ PacketOf(level) \in Payloads
    BY DEF CoreTypes, PacketOf, Payloads
  <2>4. TypesOfPackets'
    <3>. HIDE DEF t
    <3>. QED  BY <1>1, <2>2, <2>3, SendType
  <2>5. TypesOfCores'
    BY <1>1, <1>2, <2>2 DEF TypesOfCores
  <2>. QED  BY <2>2, <2>4, <2>5, TypesStay DEF TypeInv
<1>4. CASE WakeUp(q, c)
  <2>1. /\ wakeup' = wakeup \union {c}
        /\ Send(type[c], c, "hw_wakeup") \/ UNCHANGED pigVars
        /\ UNCHANGED <<running, wns, type, pcPending, blockpc, notified,
                       cmeVars, requestVars, rec, threadVars, handler, pgpe,
                       panic>>
    BY <1>4 DEF WakeUp
  <2>2. TypesOfPackets'
    BY <1>1, <1>2, <2>1, SendType, TypesStay DEF Payloads, ExitEvents
  <2>3. TypesOfCores'
    BY <1>1, <1>2, <2>1 DEF TypesOfCores
  <2>. QED  BY <2>1, <2>2, <2>3, TypesStay DEF TypeInv
<1>5. CASE PcwuSend(c)
  <2>1. /\ notified' = notified \ {c} /\ blockpc' = blockpc \union {c}
        /\ Send("TYPE2", c, "dec_wakeup")
        /\ UNCHANGED <<running, wns, type, wakeup, pcPending, cmeVars,
                       requestVars, rec, threadVars, handler, pgpe, panic>>
    BY <1>5 DEF PcwuSend
  <2>2. TypesOfPackets'
    BY <1>1, <1>2, <2>1, SendType DEF Payloads, ExitEvents, CoreTypes
  <2>3. TypesOfCores'
    BY <1>1, <1>2, <2>1 DEF TypesOfCores
  <2>. QED  BY <2>1, <2>2, <2>3, TypesStay DEF TypeInv
<1>6. CASE PcInterrupt(q, c)
  BY <1>1, <1>2, <1>6, TypesStay DEF PcInterrupt, TypesOfCores, TypeInv
<1>7. CASE PcwuRead(q, c)
  BY <1>1, <1>2, <1>7, TypesStay DEF PcwuRead, TypesOfCores, TypeInv
<1>8. CASE CmeExit(q, c)
  BY <1>1, <1>2, <1>8, TypesStay DEF CmeExit, TypesOfCores, TypeInv
<1>. QED  BY <1>3, <1>4, <1>5, <1>6, <1>7, <1>8

LEMMA TypeDoorbells ==
    ASSUME TypeInv, NEW q \in Quads,
           (\E c \in CoresOf(q) : CmeDb2(q, c)) \/ CmeDb1(q)
    PROVE  TypeInv'
<1>1. \A c \in CoresOf(q) : c \in Cores
  BY CoresOfQuads
<1>2. TypesOfCores /\ TypesOfCmes
  BY DEF TypeInv
<1>3. CASE \E c \in CoresOf(q) : CmeDb2(q, c)
  <2>1. PICK c \in CoresOf(q) : CmeDb2(q, c)
    BY <1>3
  <2>2. /\ db2' = [db2 EXCEPT ![c] = "none"]
        /\ blockpc' \subseteq blockpc
        /\ rclk' \subseteq rclk \union {q}
        /\ \/ UNCHANGED pigVars
           \/ \E what \in {"entry_rclk", "exit_rclk"} : Send("TYPE0", c, what)
        /\ UNCHANGED <<running, wns, type, wakeup, pcPending, notified,
                       cmeBlock, cmeSuspend, db1, powered, requestVars, rec,
                       threadVars, handler, pgpe, panic>>
    BY <2>1 DEF CmeDb2
  <2>3. TypesOfPackets'
    BY <1>1, <2>2, SendType, TypesStay DEF Payloads, ExitEvents, CoreTypes
  <2>4. TypesOfCores' /\ TypesOfCmes'
    BY <1>1, <1>2, <2>2 DEF TypesOfCores, TypesOfCmes
  <2>. QED  BY <2>2, <2>3, <2>4, TypesStay DEF TypeInv
<1>4. CASE CmeDb1(q)
  <2>1. /\ db1[q] \in Payloads /\ First(q) \in Cores
    BY <1>1, <1>2, CoresOfQuads DEF TypesOfCmes, Payloads
  <2>2. TypesOfPackets'
    BY <1>4, <2>1, SendType DEF CmeDb1, CoreTypes
  <2>3. TypesOfCmes'
    BY <1>2, <1>4 DEF CmeDb1, TypesOfCmes
  <2>. QED  BY <1>4, <2>2, <2>3, TypesStay DEF TypeInv, CmeDb1
<1>. QED  BY <1>3, <1>4

LEMMA TypeRequests ==
    ASSUME TypeInv,
           \/ \E q \in Quads : SpecialWakeup(q) \/ ReleaseSpecial(q)
           \/ OccBlocks \/ OccUnblocks \/ PgpeSuspends \/ Fit
    PROVE  TypeInv'
<1>1. TypesOfRequests
  BY DEF TypeInv
<1>2. CASE \E q \in Quads : SpecialWakeup(q) \/ ReleaseSpecial(q)
  <2>1. PICK q \in Quads : SpecialWakeup(q) \/ ReleaseSpecial(q)
    BY <1>2
  <2>2. /\ \E what \in {"exit", "entry"} : SendQuad(q, what)
        /\ special' \in {[special EXCEPT ![q] = "asserted"],
                         [special EXCEPT ![q] = "released"]}
        /\ UNCHANGED <<coreVars, cmeVars, control, suspend, rec, threadVars,
                       handler, pgpe, panic>>
    BY <2>1 DEF SpecialWakeup, ReleaseSpecial
  <2>3. TypesOfPackets'
    BY <2>2, SendQuadType
  <2>4. TypesOfRequests'
    BY <1>1, <2>2 DEF TypesOfRequests
  <2>. QED  BY <2>2, <2>3, <2>4, TypesStay DEF TypeInv
<1>3. CASE OccBlocks \/ OccUnblocks
  BY <1>1, <1>3, TypesStay DEF OccBlocks, OccUnblocks, OccRequest, TypesOfRequests,
     TypeInv
<1>4. CASE PgpeSuspends
  BY <1>1, <1>4, TypesStay DEF PgpeSuspends, TypesOfRequests, TypeInv
<1>5. CASE Fit
  BY <1>5, TypesStay DEF TypeInv, Fit
<1>. QED  BY <1>2, <1>3, <1>4, <1>5

-----------------------------------------------------------------------------
LEMMA RestoreType ==
    ASSUME TypeInv, VecRestore
    PROVE  panic' \in Panics
BY DEF VecRestore, Halt, TypeInv, Panics

LEMMA NoHandlerType == handler' = NoHandler => TypesOfHandler'
BY DEF NoHandler, TypesOfHandler, CoreTypes

LEMMA LaunchType ==
    ASSUME TypeInv, NEW r \in Records, Launch(r), UNCHANGED ee
    PROVE  rec' \in Records /\ TypesOfHandler' /\ TypesOfJob' /\ panic' \in Panics
<1>. DEFINE exits == r.core.PIGX # {} \/ r.qswu.EXIT # {}
            entries == r.qswu.ENTRY # {} \/ r.core.PIGE # {}
                       \/ r.quad.RCLK_DONE # {}
            c1 == [r.core EXCEPT !.EXIT = r.core.PIGX, !.PIGX = {}, !.PIGE = {}]
            r1 == [r EXCEPT !.core.EXIT = r.core.PIGX,
                            !.core.PIGX = {}, !.core.PIGE = {},
                            !.entry_pending = @ \/ entries]
<1>1. /\ handler' = NoHandler /\ rec' = r1
      /\ \/ job' \in {Posted("exit"), Posted("entry")} /\ UNCHANGED panic
         \/ VecRestore /\ UNCHANGED job
  BY DEF Launch
<1>2. r1 \in Records
  <2>. HIDE DEF entries
  <2>. QED  BY DEF Records, CoreVectors
<1>3. TypesOfJob'
  BY <1>1 DEF TypeInv, TypesOfJob, Posted, NoJob
<1>4. panic' \in Panics
  BY <1>1, RestoreType DEF TypeInv
<1>. QED  BY <1>1, <1>2, <1>3, <1>4, NoHandlerType

LEMMA TypeTakeInterrupt ==
    ASSUME TypeInv, NEW i \in Irqs, TakeInterrupt(i)
    PROVE  TypeInv'
<1>. DEFINE seen == IF i \notin StopTypes THEN {}
                    ELSE IF i = "TYPE3" THEN pend[i] \ rec.core.RCLKE
                    ELSE pend[i]
            next == IF i \in StopTypes THEN [pend EXCEPT ![i] = @ \ seen] ELSE pend
<1>1. /\ \/ UNCHANGED <<handler, pend>> /\ panic' = "STACK_OVERFLOW"
         \/ /\ handler' = [irq |-> i, at |-> i, set |-> seen]
            /\ pend' = next /\ UNCHANGED panic
      /\ UNCHANGED <<coreVars, cmeVars, requestVars, payload, rec, threadVars,
                     pgpe>>
  BY DEF TakeInterrupt, Halt
<1>2. TypesOfPackets
  BY DEF TypeInv
<1>3. /\ i \in CoreTypes => seen \subseteq Cores
      /\ i = "TYPE6" => seen \subseteq Quads
  BY <1>2 DEF TypesOfPackets, CoreTypes, StopTypes
<1>4. TypesOfPackets'
  <2>1. CASE UNCHANGED pend
    BY <1>1, <1>2, <2>1 DEF TypesOfPackets
  <2>2. CASE i \in StopTypes /\ pend' = [pend EXCEPT ![i] = pend[i] \ seen]
    BY <1>2, <2>2, <1>1 DEF TypesOfPackets, CoreTypes, StopTypes
  <2>. QED  BY <1>1, <2>1, <2>2
<1>5. TypesOfHandler'
  <2>1. CASE UNCHANGED handler
    BY <2>1, TypesStay
  <2>2. CASE handler' = [irq |-> i, at |-> i, set |-> seen]
    <3>. HIDE DEF seen
    <3>. QED  BY <1>3, <2>2 DEF TypesOfHandler, Irqs, CoreTypes
  <2>. QED  BY <1>1, <2>1, <2>2
<1>6. panic' \in Panics
  BY <1>1 DEF TypeInv, Panics
<1>. QED  BY <1>1, <1>4, <1>5, <1>6, TypesStay DEF TypeInv

LEMMA TypeHandlePackets ==
    ASSUME TypeInv, NEW t \in CoreTypes, HandlePackets(t)
    PROVE  TypeInv'
<1>. DEFINE parsed == Parsed(t, handler.set)
            exits == parsed.core.PIGX
            entries == parsed.core.PIGE
            active == parsed.core.ACTIVE
            after == pgpe.cores \union exits
            acked == \E c \in handler.set :
                        payload[t][c] \in {"ack_block", "ack_unblock"}
            r == [parsed EXCEPT !.core.ACTIVE = (@ \union exits) \ entries]
            r2 == [r EXCEPT !.core.PIGE = {}, !.core.PIGX = {}]
            badList == \/ exits # {} /\ after # active \union exits
                       \/ /\ entries # {}
                          /\ after \ entries # (active \ entries) \union exits
            why == IF \E c \in handler.set : Phantom(c, payload[t][c])
                   THEN "PHANTOM"
                   ELSE IF badList THEN "BAD_CORE_LIST" ELSE "none"
<1>1. handler.at = t /\ handler.set \in SUBSET Cores /\ rec \in Records
  BY DEF HandlePackets, HandlerRuns, TypeInv, TypesOfHandler
<1>2. parsed \in Records
  BY <1>1, ParsedType
<1>3. /\ \/ why # "none" /\ Halt(why) /\ UNCHANGED <<rec, handler, pgpe, control, job>>
         \/ /\ pgpe' = [pgpe EXCEPT !.cores = after \ entries]
            /\ control' = IF acked /\ r.cack = r.creq THEN "none" ELSE control
            /\ IF t = "TYPE2"
               THEN /\ rec' = r2
                    /\ handler' = [handler EXCEPT !.at = "handoff", !.set = exits]
                    /\ UNCHANGED <<job, panic>>
               ELSE Launch(r)
      /\ UNCHANGED <<coreVars, cmeVars, special, suspend, pigVars, ee>>
  BY DEF HandlePackets
<1>4. exits \subseteq Cores /\ entries \subseteq Cores
  BY <1>2 DEF Records, CoreVectors
<1>5. r \in Records
  <2>. HIDE DEF parsed
  <2>. QED  BY <1>2 DEF Records, CoreVectors
<1>6. r2 \in Records
  <2>. HIDE DEF r
  <2>. QED  BY <1>5 DEF Records, CoreVectors
<1>7. TypesOfRequests'
  BY <1>3 DEF TypeInv, TypesOfRequests
<1>8. why \in Panics
  BY DEF Panics
<1>. HIDE DEF parsed, exits, entries, why, r, r2, acked
<1>9. CASE why # "none" /\ Halt(why) /\ UNCHANGED <<rec, handler, pgpe, control, job>>
  BY <1>3, <1>7, <1>8, <1>9, TypesStay DEF TypeInv, Halt, threadVars
<1>10. CASE /\ pgpe' = [pgpe EXCEPT !.cores = after \ entries]
            /\ IF t = "TYPE2"
               THEN /\ rec' = r2
                    /\ handler' = [handler EXCEPT !.at = "handoff", !.set = exits]
                    /\ UNCHANGED <<job, panic>>
               ELSE Launch(r)
  <2>1. TypesOfPgpe'
    BY <1>4, <1>10 DEF TypeInv, TypesOfPgpe
  <2>2. CASE t = "TYPE2"
    <3>1. /\ rec' = r2 /\ UNCHANGED <<job, panic>>
          /\ handler' = [handler EXCEPT !.at = "handoff", !.set = exits]
      BY <1>10, <2>2
    <3>2. TypesOfHandler'
      BY <1>1, <1>4, <3>1 DEF TypeInv, TypesOfHandler, CoreTypes
    <3>. QED  BY <1>3, <1>6, <1>7, <2>1, <3>1, <3>2, TypesStay
              DEF TypeInv, threadVars
  <2>3. CASE t # "TYPE2"
    <3>1. rec' \in Records /\ TypesOfHandler' /\ TypesOfJob' /\ panic' \in Panics
      BY <1>3, <1>5, <1>10, <2>3, LaunchType
    <3>. QED  BY <1>3, <1>7, <2>1, <3>1, TypesStay DEF TypeInv
  <2>. QED  BY <2>2, <2>3
<1>. QED  BY <1>3, <1>9, <1>10

-----------------------------------------------------------------------------
LEMMA HandOverType ==
    ASSUME TypeInv, NEW cs, HandOver(cs), UNCHANGED payload
    PROVE  wns' \subseteq Cores /\ TypesOfPackets'
<1>1. TypesOfPackets /\ wns \subseteq Cores
  BY DEF TypeInv, TypesOfCores
<1>2. /\ wns' = wns \ cs
      /\ pend' = [pend EXCEPT !.TYPE2 = @ \ cs, !.TYPE3 = @ \ cs]
  BY DEF HandOver
<1>3. /\ pend' = [t \in StopTypes |-> pend'[t]]
      /\ \A t \in StopTypes : pend'[t] \subseteq pend[t]
  BY <1>1, <1>2 DEF TypesOfPackets, StopTypes
<1>. QED  BY <1>1, <1>2, <1>3 DEF TypesOfPackets, CoreTypes, StopTypes

LEMMA HandedOverType ==
    ASSUME NEW r \in Records, NEW cs
    PROVE  HandedOver(r, cs) \in Records
<1>. DEFINE lv == [c \in Cores |-> IF c \in cs THEN 0 ELSE r.level[c]]
<1>1. HandedOver(r, cs) =
        [r EXCEPT !.level = lv, !.core.PCWU = @ \ cs, !.core.EXIT = @ \ cs]
  BY DEF HandedOver
<1>2. lv \in [Cores -> {0, 5, 11}]
  BY DEF Records
<1>3. [r.core EXCEPT !.PCWU = @ \ cs, !.EXIT = @ \ cs]
          \in [CoreVectors -> SUBSET Cores]
  BY DEF Records, CoreVectors
<1>. HIDE DEF lv
<1>4. HandedOver(r, cs) =
        [r EXCEPT !.level = lv,
                  !.core = [r.core EXCEPT !.PCWU = @ \ cs, !.EXIT = @ \ cs]]
  BY <1>1 DEF Records
<1>. QED  BY <1>2, <1>3, <1>4 DEF Records

DoorbellTypes == {"none", "DECREMENTER_WAKEUP", "RESONANT_CLOCK_DISABLE",
                  "RESONANT_CLOCK_ENABLE"}
LEMMA DoorbellPcType ==
    ASSUME TypeInv, NEW cs
    PROVE  DoorbellPc(cs) \in [Cores -> DoorbellTypes]
BY DEF DoorbellPc, TypeInv, TypesOfCmes, DoorbellTypes

LEMMA TypeHandOff ==
    ASSUME TypeInv, HandOff \/ \E c \in Cores : DoorbellFirst(c)
    PROVE  TypeInv'
<1>1. rec \in Records /\ TypesOfCores /\ TypesOfCmes
  BY DEF TypeInv
<1>2. CASE HandOff
  <2>1. /\ rec' = HandedOver(rec, handler.set) /\ HandOver(handler.set)
        /\ db2' = DoorbellPc(handler.set) /\ handler' = NoHandler /\ VecRestore
        /\ UNCHANGED <<running, type, wakeup, pcPending, blockpc, notified,
                       cmeBlock, cmeSuspend, db1, powered, rclk, requestVars,
                       payload, threadVars, pgpe>>
    BY <1>2 DEF HandOff
  <2>2. rec' \in Records
    BY <1>1, <2>1, HandedOverType
  <2>3. wns' \subseteq Cores /\ TypesOfPackets'
    BY <2>1, HandOverType
  <2>4. TypesOfCores'
    BY <1>1, <2>1, <2>3 DEF TypesOfCores
  <2>5. TypesOfCmes'
    BY <1>1, <2>1, DoorbellPcType DEF TypesOfCmes, DoorbellTypes
  <2>6. TypesOfHandler' /\ panic' \in Panics
    BY <2>1, NoHandlerType, RestoreType
  <2>. QED  BY <2>1, <2>2, <2>3, <2>4, <2>5, <2>6, TypesStay DEF TypeInv
<1>3. CASE \E c \in Cores : DoorbellFirst(c)
  <2>1. PICK c \in Cores : DoorbellFirst(c)
    BY <1>3
  <2>2. /\ rec' = [rec EXCEPT !.core.PCWU = @ \ {c}]
        /\ db2' = DoorbellPc({c})
        /\ UNCHANGED <<coreVars, cmeBlock, cmeSuspend, db1, powered, rclk,
                       requestVars, pigVars, threadVars, handler, pgpe, panic>>
    BY <2>1 DEF DoorbellFirst
  <2>3. rec' \in Records
    BY <1>1, <2>2 DEF Records, CoreVectors
  <2>4. TypesOfCmes'
    BY <1>1, <2>2, DoorbellPcType DEF TypesOfCmes, DoorbellTypes
  <2>. QED  BY <2>2, <2>3, <2>4, TypesStay DEF TypeInv
<1>. QED  BY <1>2, <1>3

LEMMA TypeSpecialPackets ==
    ASSUME TypeInv, SpecialPackets
    PROVE  TypeInv'
<1>. DEFINE Of(what) == {q \in handler.set : payload.TYPE6[q] = what}
            news == Of("exit") \ rec.qswu.ACTIVE
            up == news \intersect rec.quad.ACTIVE
            down == news \ up
            Held(qs, d) == IF Vector[d].status \in rec.status THEN qs ELSE {}
            Barred(qs, d) == qs \intersect rec.quad[Vector[d].block]
            Granted(qs, d) ==
                {q \in qs : \A p \in Held(qs, d) \union Barred(qs, d) : q < p}
            r == [rec EXCEPT
                   !.qswu.SUSPENDX = @ \union Held(down, "exit"),
                   !.qswu.BLOCKX = @ \union Barred(down, "exit"),
                   !.qswu.EXIT = Granted(down, "exit"),
                   !.qswu.SUSPENDE = @ \union Held(Of("entry"), "entry"),
                   !.qswu.BLOCKE = @ \union Barred(Of("entry"), "entry"),
                   !.qswu.ENTRY = Granted(Of("entry"), "entry"),
                   !.qswu.ACTIVE = (@ \union up) \ Granted(Of("entry"), "entry")]
<1>1. handler.set \subseteq Quads /\ rec \in Records
  BY DEF SpecialPackets, HandlerRuns, TypeInv, TypesOfHandler
<1>2. /\ special' = [q \in Quads |->
                        CASE q \in up -> "done"
                          [] q \in Of("entry") -> "off"
                          [] OTHER -> special[q]]
      /\ Launch(r)
      /\ UNCHANGED <<coreVars, cmeVars, control, suspend, pigVars, ee, pgpe>>
  BY DEF SpecialPackets
<1>3. TypesOfRequests'
  <2>. HIDE DEF up, Of
  <2>. QED  BY <1>2 DEF TypeInv, TypesOfRequests
<1>4. Of("entry") \subseteq Quads /\ down \subseteq Quads /\ up \subseteq Quads
  BY <1>1
<1>. HIDE DEF Of, news, up, down
<1>5. \A qs \in SUBSET Quads, d \in {"entry", "exit"} :
         Held(qs, d) \subseteq Quads /\ Barred(qs, d) \subseteq Quads
         /\ Granted(qs, d) \subseteq Quads
  OBVIOUS
<1>. HIDE DEF Held, Barred, Granted
<1>6. r \in Records
  <2>. DEFINE q1 == [rec.qswu EXCEPT
                        !.SUSPENDX = @ \union Held(down, "exit"),
                        !.BLOCKX = @ \union Barred(down, "exit"),
                        !.EXIT = Granted(down, "exit"),
                        !.SUSPENDE = @ \union Held(Of("entry"), "entry"),
                        !.BLOCKE = @ \union Barred(Of("entry"), "entry"),
                        !.ENTRY = Granted(Of("entry"), "entry"),
                        !.ACTIVE = (@ \union up) \ Granted(Of("entry"), "entry")]
  <2>1. rec.qswu \in [QswuVectors -> SUBSET Quads]
    BY <1>1 DEF Records
  <2>2. /\ Held(down, "exit") \subseteq Quads /\ Barred(down, "exit") \subseteq Quads
        /\ Granted(down, "exit") \subseteq Quads
        /\ Held(Of("entry"), "entry") \subseteq Quads
        /\ Barred(Of("entry"), "entry") \subseteq Quads
        /\ Granted(Of("entry"), "entry") \subseteq Quads
    BY <1>4, <1>5
  <2>3. q1 \in [QswuVectors -> SUBSET Quads]
    BY <1>4, <2>1, <2>2 DEF QswuVectors
  <2>4. r = [rec EXCEPT !.qswu = q1]
    BY <1>1 DEF Records
  <2>. HIDE DEF q1, r
  <2>. QED  BY <1>1, <2>3, <2>4 DEF Records
<1>7. rec' \in Records /\ TypesOfHandler' /\ TypesOfJob' /\ panic' \in Panics
  <2>. HIDE DEF r
  <2>. QED  BY <1>2, <1>6, LaunchType
<1>. QED  BY <1>2, <1>3, <1>7, TypesStay DEF TypeInv

LEMMA TypeBlockRequest ==
    ASSUME TypeInv, BlockRequest
    PROVE  TypeInv'
<1>. DEFINE block == control = "block"
            asked == BlockQuads \intersect rec.quad.ACTIVE
            Marked(d, qs) == IF d \notin BlockWhat THEN qs
                             ELSE IF block THEN qs \union BlockQuads
                             ELSE qs \ BlockQuads
            r == [rec EXCEPT !.quad.BLOCKE = Marked("entry", @),
                             !.quad.BLOCKX = Marked("exit", @),
                             !.creq = {First(q) : q \in asked},
                             !.cack = {}]
            s == IF asked = {} /\ ~block THEN Unblocked(r) ELSE r
<1>1. rec \in Records /\ TypesOfCmes /\ TypesOfRequests
  BY DEF TypeInv
<1>2. /\ db1' = [q \in Quads |->
                    IF q \notin asked THEN db1[q]
                    ELSE IF block THEN "ack_block" ELSE "ack_unblock"]
      /\ control' = IF asked = {} THEN "none" ELSE "asked"
      /\ Launch(s)
      /\ UNCHANGED <<coreVars, cmeBlock, cmeSuspend, db2, powered, rclk,
                     special, suspend, pigVars, ee, pgpe>>
  BY DEF BlockRequest
<1>3. \A qs \in SUBSET Quads, d \in {"entry", "exit"} : Marked(d, qs) \subseteq Quads
  BY SgpeAssumption
<1>4. {First(q) : q \in asked} \subseteq Cores
  BY CoresOfQuads, SgpeAssumption
<1>5. TypesOfCmes' /\ TypesOfRequests'
  <2>. HIDE DEF asked, block
  <2>. QED  BY <1>1, <1>2 DEF TypesOfCmes, TypesOfRequests, Acks
<1>. HIDE DEF Marked, asked, block
<1>6. r \in Records
  <2>1. /\ rec.quad.BLOCKE \in SUBSET Quads /\ rec.quad.BLOCKX \in SUBSET Quads
    BY <1>1 DEF Records, QuadVectors
  <2>2. /\ Marked("entry", rec.quad.BLOCKE) \subseteq Quads
        /\ Marked("exit", rec.quad.BLOCKX) \subseteq Quads
    BY <1>3, <2>1
  <2>. QED  BY <1>1, <1>4, <2>2 DEF Records, QuadVectors
<1>. HIDE DEF r
<1>7. s \in Records
  BY <1>6, UnblockedType
<1>. HIDE DEF s
<1>8. rec' \in Records /\ TypesOfHandler' /\ TypesOfJob' /\ panic' \in Panics
  BY <1>2, <1>7, LaunchType
<1>. QED  BY <1>2, <1>5, <1>8, TypesStay DEF TypeInv

LEMMA SuspendAllType ==
    ASSUME TypeInv, SuspendAllCmes, UNCHANGED <<cmeBlock, cmeSuspend, db2, powered, rclk>>
    PROVE  TypesOfCmes'
BY DEF SuspendAllCmes, TypeInv, TypesOfCmes, Acks

LEMMA StatusType ==
    ASSUME rec \in Records, NEW s \in SUBSET Status
    PROVE  [rec EXCEPT !.status = s] \in Records
BY DEF Records

LEMMA TypeSuspends ==
    ASSUME TypeInv,
           \/ SuspendRequest \/ HandlerSuspends
           \/ \E thread \in {"exit", "entry"} : ThreadSuspends(thread)
    PROVE  TypeInv'
<1>1. rec \in Records /\ TypesOfRequests /\ TypesOfJob
  BY DEF TypeInv
<1>2. rec.status \subseteq Status
  BY <1>1 DEF Records
<1>3. TypesOfRequests'
  BY <1>1 DEF SuspendRequest, HandlerSuspends, ThreadSuspends, SuspendDone,
              TypesOfRequests
<1>4. CASE SuspendRequest
  <2>1. CASE "STOP_PROCESSING" \in rec.status
    <3>1. /\ rec' = [rec EXCEPT !.status = rec.status \union {"SUSPEND_PENDING"}]
          /\ handler' = NoHandler /\ VecRestore
          /\ UNCHANGED <<coreVars, cmeVars, pigVars, threadVars, pgpe>>
      BY <1>4, <2>1 DEF SuspendRequest, cmeVars
    <3>2. rec' \in Records
      BY <1>1, <1>2, <3>1, StatusType DEF Status
    <3>. QED  BY <1>3, <3>1, <3>2, NoHandlerType, RestoreType, TypesStay
              DEF TypeInv
  <2>2. CASE "STOP_PROCESSING" \notin rec.status
    <3>1. /\ SuspendAllCmes /\ handler' = [handler EXCEPT !.at = "suspending"]
          /\ UNCHANGED <<rec, panic, coreVars, cmeBlock, cmeSuspend, db2,
                         powered, rclk, pigVars, threadVars, pgpe>>
          /\ handler.at = "IPC"
      BY <1>4, <2>2 DEF SuspendRequest, HandlerRuns
    <3>2. TypesOfHandler'
      BY <3>1 DEF TypeInv, TypesOfHandler, CoreTypes
    <3>. QED  BY <1>3, <3>1, <3>2, SuspendAllType, TypesStay DEF TypeInv
  <2>. QED  BY <2>1, <2>2
<1>5. ASSUME SuspendDone PROVE rec' \in Records
  BY <1>5, <1>1, <1>2, StatusType DEF SuspendDone, Status
<1>6. CASE HandlerSuspends
  BY <1>6, <1>3, <1>5, NoHandlerType, RestoreType, TypesStay DEF HandlerSuspends,
     SuspendDone, threadVars, TypeInv
<1>7. CASE \E thread \in {"exit", "entry"} : ThreadSuspends(thread)
  <2>1. /\ SuspendDone /\ job' = [job EXCEPT !.at = "closing"]
        /\ UNCHANGED <<handler, panic, coreVars, cmeVars, pigVars, ee, pgpe>>
    BY <1>7 DEF ThreadSuspends, SuspendDone
  <2>2. TypesOfJob'
    BY <1>1, <2>1 DEF TypesOfJob
  <2>. QED  BY <1>3, <1>5, <2>1, <2>2, TypesStay DEF TypeInv
<1>. QED  BY <1>4, <1>6, <1>7

-----------------------------------------------------------------------------
BlockedAsAsked == "entry" \notin BlockWhat => rec.quad.BLOCKE = {}

LEMMA JobType ==
    ASSUME TypeInv, Shapes, UNCHANGED ee,
           \/ \E at : To(at)
           \/ \E at : \E qs \in SUBSET Quads : ToQuads(at, qs)
           \/ \E b : \E qs \in SUBSET Quads :
                  job' = [job EXCEPT !.left = qs, !.aborted = b]
    PROVE  TypesOfJob'
<1>1. job'.thread = job.thread /\ job'.left \subseteq Quads
  BY DEF To, ToQuads, Shapes, IsJob, TypeInv, TypesOfJob
<1>. QED  BY <1>1 DEF TypeInv, TypesOfJob

LEMMA TellsType ==
    ASSUME TypeInv, Shapes, UNCHANGED ee,
           \/ \E at : \E r \in Records : TellsExit(r, at)
           \/ UNCHANGED rec /\ \E stage, at : TellsEntry(stage, at)
    PROVE  rec' \in Records /\ TypesOfJob' /\ TypesOfPgpe' /\ panic' \in Panics
<1>1. rec \in Records /\ TypesOfPgpe /\ panic \in Panics
  BY DEF TypeInv
<1>2. CASE \E at : \E r \in Records : TellsExit(r, at)
  <2>1. PICK at : \E r \in Records : TellsExit(r, at)
    BY <1>2
  <2>2. PICK r \in Records : TellsExit(r, at)
    BY <2>1
  <2>3. r.quad.EXIT \in SUBSET Quads
    BY DEF Records, QuadVectors
  <2>4. CASE r.quad.EXIT = {}
    <3>1. rec' = r /\ ToQuads(at, {}) /\ UNCHANGED <<pgpe, panic>>
      BY <2>2, <2>4 DEF TellsExit
    <3>2. TypesOfJob'
      BY <3>1, JobType
    <3>. QED  BY <1>1, <3>1, <3>2, TypesStay
  <2>5. CASE r.quad.EXIT # {}
    <3>. DEFINE quads == pgpe.quads \union r.quad.EXIT
    <3>1. CASE UNCHANGED <<rec, job, pgpe>> /\ panic' = "BAD_QUAD_LIST"
      BY <1>1, <3>1, TypesStay DEF threadVars, Panics
    <3>2. CASE /\ pgpe' = [pgpe EXCEPT !.quads = quads]
               /\ rec' = r /\ ToQuads(at, r.quad.EXIT) /\ UNCHANGED panic
      <4>1. TypesOfJob'
        BY <2>3, <3>2, JobType
      <4>. QED  BY <1>1, <2>3, <3>2, <4>1 DEF TypesOfPgpe
    <3>. QED  BY <2>2, <2>5, <3>1, <3>2 DEF TellsExit, Halt
  <2>. QED  BY <2>4, <2>5
<1>3. CASE UNCHANGED rec /\ \E stage, at : TellsEntry(stage, at)
  <2>1. PICK stage, at : TellsEntry(stage, at)
    BY <1>3
  <2>2. rec.quad.ENTRY \in SUBSET Quads
    BY <1>1 DEF Records, QuadVectors
  <2>3. CASE UNCHANGED panic /\ \E qs \in SUBSET Quads : ToQuads(at, qs)
    <3>1. TypesOfPgpe'
      BY <1>1, <2>1, <2>2 DEF TellsEntry, TypesOfPgpe
    <3>. QED  BY <1>1, <1>3, <2>3, <3>1, JobType
  <2>4. CASE UNCHANGED <<job, pgpe>> /\ panic' = "BAD_QUAD_LIST"
    BY <1>1, <1>3, <2>4, TypesStay DEF threadVars, Panics
  <2>. QED  BY <2>1, <2>2, <2>3, <2>4 DEF TellsEntry, Halt
<1>. QED  BY <1>2, <1>3

LEMMA TypeThreadFrame ==
    ASSUME TypeInv, Shapes, NEW thread \in {"exit", "entry"},
           ThreadStarts(thread) \/ ThreadCloses(thread)
    PROVE  TypeInv'
<1>1. rec \in Records /\ TypesOfCmes /\ rec.status \in SUBSET Status
  BY DEF TypeInv, Records
<1>2. CASE ThreadStarts(thread)
  <2>1. /\ rec' = [rec EXCEPT !.status = rec.status \union {"STOP_PROCESSING"}]
        /\ To("select")
        /\ UNCHANGED <<coreVars, cmeVars, requestVars, pigVars, ee, handler,
                       pgpe, panic>>
    BY <1>2 DEF ThreadStarts
  <2>2. rec' \in Records
    BY <1>1, <2>1, StatusType DEF Status
  <2>. QED  BY <2>1, <2>2, JobType, TypesStay DEF TypeInv
<1>3. CASE ThreadCloses(thread)
  <2>1. UNCHANGED <<coreVars, requestVars, pigVars, rec, handler, pgpe>>
    BY <1>3 DEF ThreadCloses
  <2>2. CASE "SUSPEND_PENDING" \in rec.status
    <3>1. /\ SuspendAllCmes /\ To("suspending") /\ UNCHANGED <<panic, ee>>
          /\ UNCHANGED <<cmeBlock, cmeSuspend, db2, powered, rclk>>
      BY <1>3, <2>2 DEF ThreadCloses
    <3>. QED  BY <2>1, <3>1, SuspendAllType, JobType, TypesStay DEF TypeInv
  <2>3. CASE "SUSPEND_PENDING" \notin rec.status
    <3>1. /\ VecRestore /\ job' = NoJob /\ ee' = [ee EXCEPT ![thread] = FALSE]
          /\ UNCHANGED <<cmeBlock, cmeSuspend, db1, db2, powered, rclk>>
      BY <1>3, <2>3 DEF ThreadCloses
    <3>2. TypesOfJob'
      BY <3>1 DEF TypeInv, TypesOfJob, NoJob
    <3>. QED  BY <2>1, <3>1, <3>2, RestoreType, TypesStay DEF TypeInv, cmeVars
  <2>. QED  BY <2>2, <2>3
<1>. QED  BY <1>2, <1>3

ExitEndRec(r, qs) ==
    LET cores == r.core.EXIT \intersect In(qs)
        ready == cores \ In(r.quad.RCLKX)
        exits == {QuadOf(c) : c \in ready}
        woken == qs \intersect r.qswu.EXIT
    IN  [HandedOver(r, ready) EXCEPT
            !.qswu.ACTIVE = @ \union woken,
            !.qswu.EXIT = @ \ woken,
            !.core.RCLKX = (@ \union cores) \ ready,
            !.quad.IN_STOP11 = @ \ exits,
            !.quad.ACTIVE = @ \union exits]
LEMMA ExitEndType ==
    ASSUME TypeInv, NEW r \in Records, NEW qs \in SUBSET Quads,
           ExitEnd(r, qs), UNCHANGED <<control, suspend, payload>>
    PROVE  /\ rec' \in Records /\ wns' \subseteq Cores
           /\ TypesOfPackets' /\ TypesOfRequests'
<1>. DEFINE cores == r.core.EXIT \intersect In(qs)
            ready == cores \ In(r.quad.RCLKX)
            exits == {QuadOf(c) : c \in ready}
            woken == qs \intersect r.qswu.EXIT
            h == HandedOver(r, ready)
            e == [h EXCEPT !.qswu.ACTIVE = @ \union woken,
                           !.qswu.EXIT = @ \ woken,
                           !.core.RCLKX = (@ \union cores) \ ready,
                           !.quad.IN_STOP11 = @ \ exits,
                           !.quad.ACTIVE = @ \union exits]
            q1 == [h.qswu EXCEPT !.ACTIVE = @ \union woken, !.EXIT = @ \ woken]
            c1 == [h.core EXCEPT !.RCLKX = (@ \union cores) \ ready]
            d1 == [h.quad EXCEPT !.IN_STOP11 = @ \ exits, !.ACTIVE = @ \union exits]
<1>1. /\ rec' = e
      /\ special' = [q \in Quads |-> IF q \in woken THEN "done" ELSE special[q]]
      /\ HandOver(ready)
  BY DEF ExitEnd
<1>2. /\ cores \subseteq Cores /\ ready \subseteq Cores
      /\ exits \subseteq Quads /\ woken \subseteq Quads
  BY CoresIn, CoresOfQuads
<1>. HIDE DEF cores, ready, exits, woken
<1>3. h \in Records
  BY HandedOverType
<1>4. TypesOfRequests'
  BY <1>1 DEF TypeInv, TypesOfRequests
<1>5. wns' \subseteq Cores /\ TypesOfPackets'
  BY <1>1, HandOverType
<1>. HIDE DEF h
<1>6. /\ q1 \in [QswuVectors -> SUBSET Quads] /\ c1 \in [CoreVectors -> SUBSET Cores]
      /\ d1 \in [QuadVectors -> SUBSET Quads]
  BY <1>2, <1>3, ZenonT(120) DEF Records, QswuVectors, CoreVectors, QuadVectors
<1>7. e = [h EXCEPT !.qswu = q1, !.core = c1, !.quad = d1]
  BY <1>3 DEF Records
<1>. HIDE DEF q1, c1, d1
<1>8. e \in Records
  BY <1>3, <1>6, <1>7, ZenonT(120) DEF Records
<1>. QED  BY <1>1, <1>4, <1>5, <1>8

LEMMA TypeExitThread ==
    ASSUME TypeInv, Shapes, BlockedAsAsked,
           \/ ExitSelects \/ ExitExpress \/ ExitTellsDone \/ ExitThreadEnds
           \/ \E q \in Quads : ExitQuad(q)
    PROVE  TypeInv'
<1>1. rec \in Records /\ TypesOfCores /\ TypesOfCmes /\ TypesOfJob
  BY DEF TypeInv
<1>2. CASE ExitSelects
  <2>. DEFINE Wanted(q) == \/ CoresOf(q) \intersect rec.core.EXIT # {}
                           \/ q \in rec.qswu.EXIT
              quads == {q \in Quads : Wanted(q) /\ rec.act[q] = 11}
              r == [rec EXCEPT !.quad.EXIT = quads]
  <2>1. r \in Records
    <3>1. quads \subseteq Quads
      OBVIOUS
    <3>. HIDE DEF quads
    <3>. QED  BY <1>1, <3>1 DEF Records, QuadVectors
  <2>2. /\ TellsExit(r, "express")
        /\ UNCHANGED <<coreVars, cmeVars, requestVars, pigVars, ee, handler>>
    BY <1>2 DEF ExitSelects
  <2>. HIDE DEF r
  <2>3. rec' \in Records /\ TypesOfJob' /\ TypesOfPgpe' /\ panic' \in Panics
    BY <2>1, <2>2, TellsType
  <2>. QED  BY <2>2, <2>3, TypesStay DEF TypeInv
<1>3. CASE ExitTellsDone
  <2>1. /\ TellsExit(rec, "end")
        /\ UNCHANGED <<coreVars, cmeVars, requestVars, pigVars, ee, handler>>
    BY <1>3 DEF ExitTellsDone
  <2>2. rec' \in Records /\ TypesOfJob' /\ TypesOfPgpe' /\ panic' \in Panics
    BY <1>1, <2>1, TellsType
  <2>. QED  BY <2>1, <2>2, TypesStay DEF TypeInv
<1>4. CASE ExitThreadEnds
  <2>1. UNCHANGED <<coreVars, cmeVars, requestVars, pigVars, handler, pgpe, panic>>
    BY <1>4 DEF ExitThreadEnds
  <2>2. rec.status \in SUBSET Status
    BY <1>1 DEF Records
  <2>3. \/ UNCHANGED rec
        \/ rec' = [rec EXCEPT !.status = rec.status \ {"STOP_PROCESSING"}]
    BY <1>4 DEF ExitThreadEnds
  <2>4. rec' \in Records
    BY <1>1, <2>2, <2>3, StatusType
  <2>5. \/ job' = Posted("entry") /\ ee' = [ee EXCEPT !.exit = TRUE]
        \/ To("closing") /\ UNCHANGED ee
    BY <1>4 DEF ExitThreadEnds
  <2>6. job' = Posted("entry") /\ ee' = [ee EXCEPT !.exit = TRUE] => TypesOfJob'
    BY <1>1 DEF TypesOfJob, Posted, NoJob
  <2>7. TypesOfJob'
    BY <2>5, <2>6, JobType
  <2>. QED  BY <2>1, <2>4, <2>7, TypesStay DEF TypeInv
<1>5. CASE ExitExpress
  <2>. DEFINE qs == Quads \ rec.quad.EXIT
  <2>1. /\ ExitEnd(rec, qs)
        /\ \E cs : db2' = DoorbellPc(cs)
        /\ To("quads")
        /\ UNCHANGED <<running, type, wakeup, pcPending, blockpc, notified,
                       cmeBlock, cmeSuspend, db1, powered, rclk, control,
                       suspend, payload, ee, handler, pgpe, panic>>
    BY <1>5 DEF ExitExpress
  <2>2. qs \in SUBSET Quads
    OBVIOUS
  <2>. HIDE DEF qs
  <2>3. /\ rec' \in Records /\ wns' \subseteq Cores
        /\ TypesOfPackets' /\ TypesOfRequests'
    BY <1>1, <2>1, <2>2, ExitEndType
  <2>4. TypesOfCores' /\ TypesOfCmes'
    BY <1>1, <2>1, <2>3, DoorbellPcType DEF TypesOfCores, TypesOfCmes, DoorbellTypes
  <2>. QED  BY <2>1, <2>3, <2>4, JobType, TypesStay DEF TypeInv
<1>6. CASE \E q \in Quads : ExitQuad(q)
  <2>1. PICK q \in Quads : ExitQuad(q)
    BY <1>6
  <2>. DEFINE r == [rec EXCEPT !.act[q] = 0]
  <2>2. /\ powered' = powered \union {q} /\ rclk' = rclk \union {q}
        /\ cmeBlock' = [cmeBlock EXCEPT ![q] = IF q \in rec.quad.BLOCKE
                                               THEN {"entry"} ELSE {}]
        /\ cmeSuspend' = cmeSuspend \ {q}
        /\ blockpc' = blockpc \ CoresOf(q)
        /\ db1' = [db1 EXCEPT ![q] = "none"]
        /\ db2' = [c \in Cores |-> IF c \in CoresOf(q) THEN "none" ELSE db2[c]]
        /\ ExitEnd(r, {q})
        /\ ToQuads("quads", job.left \ {q})
        /\ UNCHANGED <<running, type, wakeup, pcPending, notified, control,
                       suspend, payload, ee, handler, pgpe, panic>>
    BY <2>1 DEF ExitQuad
  <2>3. r \in Records
    BY <1>1 DEF Records
  <2>4. /\ rec' \in Records /\ wns' \subseteq Cores
        /\ TypesOfPackets' /\ TypesOfRequests'
    <3>. HIDE DEF r
    <3>. QED  BY <2>2, <2>3, ExitEndType
  <2>5. TypesOfCores'
    BY <1>1, <2>2, <2>4 DEF TypesOfCores
  <2>6. "entry" \in BlockWhat \/ q \notin rec.quad.BLOCKE
    BY DEF BlockedAsAsked
  <2>7. TypesOfCmes'
    BY <1>1, <2>2, <2>6 DEF TypesOfCmes
  <2>8. TypesOfJob'
    BY <1>1, <2>2, JobType DEF TypesOfJob
  <2>. QED  BY <2>2, <2>4, <2>5, <2>7, <2>8, TypesStay DEF TypeInv
<1>. QED  BY <1>2, <1>3, <1>4, <1>5, <1>6

LEMMA TypeEntryThread ==
    ASSUME TypeInv, Shapes,
           \/ EntrySelects \/ EntryNotifies \/ EntryTellsDone \/ EntryThreadEnds
           \/ \E q \in Quads : Purge(q) \/ EntryQuad(q)
    PROVE  TypeInv'
<1>1. rec \in Records /\ TypesOfCores /\ TypesOfCmes /\ TypesOfJob
  BY DEF TypeInv
<1>2. CASE EntrySelects
  <2>. DEFINE kept == UNION {rec.qswu.ACTIVE, rec.quad.BLOCKE, rec.quad.RCLK_REQ,
                             rec.quad.RCLKX}
              asleep == {q \in Quads \ kept :
                            rec.act[q] < 11
                            /\ \A c \in CoresOf(q) : rec.level[c] >= 11}
              enter == asleep \intersect rec.quad.RCLK_DONE
              disable == asleep \ (rec.quad.RCLK_DONE \union rec.quad.IN_STOP11)
              r == [rec EXCEPT
                         !.quad.ENTRY = enter,
                         !.quad.RCLK_DONE = @ \ enter,
                         !.quad.IN_STOP11 = @ \union enter,
                         !.quad.RCLK_REQ = @ \union disable,
                         !.core.RCLKE = (@ \ In(enter)) \union In(disable)]
              d1 == [rec.quad EXCEPT
                         !.ENTRY = enter,
                         !.RCLK_DONE = @ \ enter,
                         !.IN_STOP11 = @ \union enter,
                         !.RCLK_REQ = @ \union disable]
              c1 == [rec.core EXCEPT !.RCLKE = (@ \ In(enter)) \union In(disable)]
  <2>1. /\ rec' = r
        /\ db2' = [c \in Cores |->
                         IF c \in {First(q) : q \in disable}
                         THEN "RESONANT_CLOCK_DISABLE" ELSE db2[c]]
        /\ ToQuads("purge", enter)
        /\ UNCHANGED <<coreVars, cmeBlock, cmeSuspend, db1, powered, rclk,
                       requestVars, pigVars, ee, handler, pgpe, panic>>
    BY <1>2 DEF EntrySelects
  <2>2. enter \in SUBSET Quads /\ disable \in SUBSET Quads
    OBVIOUS
  <2>. HIDE DEF enter, disable
  <2>3. In(enter) \subseteq Cores /\ In(disable) \subseteq Cores
    BY <2>2, CoresIn
  <2>4. d1 \in [QuadVectors -> SUBSET Quads] /\ c1 \in [CoreVectors -> SUBSET Cores]
    BY <1>1, <2>2, <2>3 DEF Records, QuadVectors, CoreVectors
  <2>5. r = [rec EXCEPT !.quad = d1, !.core = c1]
    BY <1>1 DEF Records
  <2>. HIDE DEF d1, c1, r
  <2>6. rec' \in Records
    BY <1>1, <2>1, <2>4, <2>5 DEF Records
  <2>7. TypesOfCmes'
    BY <1>1, <2>1 DEF TypesOfCmes
  <2>. QED  BY <2>1, <2>2, <2>6, <2>7, JobType, TypesStay DEF TypeInv
<1>3. CASE EntryNotifies \/ EntryTellsDone
  <2>1. /\ \E stage, at : TellsEntry(stage, at)
        /\ UNCHANGED <<coreVars, cmeVars, requestVars, pigVars, ee, rec, handler>>
    BY <1>3 DEF EntryNotifies, EntryTellsDone
  <2>2. rec' \in Records /\ TypesOfJob' /\ TypesOfPgpe' /\ panic' \in Panics
    BY <2>1, TellsType
  <2>. QED  BY <2>1, <2>2, TypesStay DEF TypeInv
<1>4. CASE EntryThreadEnds
  <2>1. /\ rec' = [rec EXCEPT !.status = @ \ {"STOP_PROCESSING"},
                              !.entry_pending = FALSE]
        /\ To("closing")
        /\ UNCHANGED <<coreVars, cmeVars, requestVars, pigVars, ee, handler,
                       pgpe, panic>>
    BY <1>4 DEF EntryThreadEnds
  <2>2. rec' \in Records
    BY <1>1, <2>1 DEF Records
  <2>. QED  BY <2>1, <2>2, JobType, TypesStay DEF TypeInv
<1>5. CASE \E q \in Quads : Purge(q)
  <2>1. PICK q \in Quads : Purge(q)
    BY <1>5
  <2>2. /\ \E b :
              job' = [job EXCEPT !.left = job.left \ {q}, !.aborted = b]
        /\ rec' \in {rec, [rec EXCEPT !.quad.RCLKX = @ \union {q},
                                      !.quad.ENTRY = @ \ {q}]}
        /\ db2' \in {db2, [db2 EXCEPT ![First(q)] = "RESONANT_CLOCK_ENABLE"]}
        /\ UNCHANGED <<coreVars, cmeBlock, cmeSuspend, db1, powered, rclk,
                       requestVars, pigVars, ee, handler, pgpe, panic>>
    <3>. DEFINE abort == \/ job.aborted
                         \/ q \notin rec.quad.BLOCKX /\ ExitArrived(q)
    <3>1. /\ job' = [job EXCEPT !.left = job.left \ {q}, !.aborted = abort]
          /\ rec' = IF abort THEN [rec EXCEPT !.quad.RCLKX = @ \union {q},
                                              !.quad.ENTRY = @ \ {q}]
                    ELSE rec
          /\ db2' = IF abort THEN [db2 EXCEPT ![First(q)] =
                                      "RESONANT_CLOCK_ENABLE"]
                    ELSE db2
          /\ UNCHANGED <<coreVars, cmeBlock, cmeSuspend, db1, powered, rclk,
                         requestVars, pigVars, ee, handler, pgpe, panic>>
      BY <2>1 DEF Purge
    <3>. HIDE DEF abort
    <3>. QED  BY <3>1
  <2>3. rec' \in Records
    <3>. DEFINE d1 == [rec.quad EXCEPT !.RCLKX = @ \union {q}, !.ENTRY = @ \ {q}]
    <3>1. d1 \in [QuadVectors -> SUBSET Quads]
      BY <1>1 DEF Records, QuadVectors
    <3>2. [rec EXCEPT !.quad.RCLKX = @ \union {q}, !.quad.ENTRY = @ \ {q}]
              = [rec EXCEPT !.quad = d1]
      BY <1>1 DEF Records, QuadVectors
    <3>. HIDE DEF d1
    <3>. QED  BY <1>1, <2>2, <3>1, <3>2 DEF Records
  <2>4. TypesOfCmes'
    BY <1>1, <2>2, CoresOfQuads DEF TypesOfCmes
  <2>5. TypesOfJob'
    BY <1>1, <2>2, JobType DEF TypesOfJob
  <2>. QED  BY <2>2, <2>3, <2>4, <2>5, TypesStay DEF TypeInv
<1>6. CASE \E q \in Quads : EntryQuad(q)
  <2>1. PICK q \in Quads : EntryQuad(q)
    BY <1>6
  <2>2. /\ powered' = powered \ {q}
        /\ db1' = [db1 EXCEPT ![q] = "none"]
        /\ db2' = [c \in Cores |-> IF c \in CoresOf(q) THEN "none" ELSE db2[c]]
        /\ notified' = notified \ CoresOf(q)
        /\ rec' = [rec EXCEPT !.act[q] = 11, !.quad.ACTIVE = @ \ {q},
                              !.qswu.ENTRY = @ \ {q}]
        /\ ToQuads("quads", job.left \ {q})
        /\ UNCHANGED <<running, wns, type, wakeup, pcPending, blockpc, cmeBlock,
                       cmeSuspend, rclk, requestVars, pigVars, ee, handler, pgpe>>
        /\ panic' \in {panic, "RESCLK_ON"}
    BY <2>1 DEF EntryQuad
  <2>. DEFINE d1 == [rec.quad EXCEPT !.ACTIVE = @ \ {q}]
              q1 == [rec.qswu EXCEPT !.ENTRY = @ \ {q}]
  <2>3. rec' \in Records
    <3>1. /\ d1 \in [QuadVectors -> SUBSET Quads]
          /\ q1 \in [QswuVectors -> SUBSET Quads]
          /\ [rec.act EXCEPT ![q] = 11] \in [Quads -> {0, 11}]
      BY <1>1 DEF Records, QuadVectors, QswuVectors
    <3>2. rec' = [rec EXCEPT !.act = [rec.act EXCEPT ![q] = 11],
                             !.quad = d1, !.qswu = q1]
      BY <1>1, <2>2 DEF Records
    <3>. HIDE DEF d1, q1
    <3>. QED  BY <1>1, <3>1, <3>2 DEF Records
  <2>4. TypesOfCores' /\ TypesOfCmes'
    BY <1>1, <2>2 DEF TypesOfCores, TypesOfCmes
  <2>5. TypesOfJob'
    BY <1>1, <2>2, JobType DEF TypesOfJob
  <2>6. panic' \in Panics
    BY <2>2 DEF TypeInv, Panics
  <2>. QED  BY <2>2, <2>3, <2>4, <2>5, <2>6, TypesStay DEF TypeInv
<1>. QED  BY <1>2, <1>3, <1>4, <1>5, <1>6

-----------------------------------------------------------------------------
(* What the parser leaves alone.                                           *)
KeptCore == {"EXIT", "ACTIVE", "RCLKE", "RCLKX"}
KeptQuad == QuadVectors \ {"RCLK_REQ", "RCLK_DONE", "RCLKX"}
SameFrame(r, s) ==
    /\ s.act = r.act /\ s.status = r.status /\ s.creq = r.creq
    /\ s.entry_pending = r.entry_pending
    /\ \A v \in KeptCore : s.core[v] = r.core[v]
    /\ \A v \in KeptQuad : s.quad[v] = r.quad[v]

LEMMA ReleasedFrame ==
    ASSUME NEW d \in BlockWhat, NEW r \in Records
    PROVE  SameFrame(r, Released(d, r))
<1>. DEFINE v == Vector[d]
            held == v.status \in r.status
            Moved(f, to) == [w \in DOMAIN f |-> IF w = v.block THEN {}
                                 ELSE IF w = to THEN f[w] \union f[v.block]
                                                ELSE f[w]]
            tc == IF held THEN v.suspend ELSE v.core
            c == Moved(r.core, tc)
            q == Moved(r.qswu, IF held THEN v.suspend ELSE v.qswu)
<1>1. Released(d, r) = [r EXCEPT !.core = c, !.qswu = q]
  BY ReleasedIs
<1>2. v.block \notin KeptCore /\ tc \notin KeptCore /\ KeptCore \subseteq CoreVectors
  BY SgpeAssumption DEF Vector, KeptCore, CoreVectors
<1>. HIDE DEF v, tc
<1>3. \A w \in KeptCore : c[w] = r.core[w]
  BY <1>2 DEF Records
<1>. HIDE DEF c, q
<1>. QED  BY <1>1, <1>3 DEF SameFrame, Records

LEMMA UnblockedFrame ==
    ASSUME NEW r \in Records
    PROVE  SameFrame(r, Unblocked(r))
<1>. DEFINE G == {s \in Records : SameFrame(r, s)}
<1>1. r \in G
  BY DEF SameFrame
<1>2. \A d \in BlockWhat : \A s \in G : Released(d, s) \in G
  <2>. TAKE d \in BlockWhat
  <2>. TAKE s \in G
  <2>1. SameFrame(r, s) /\ SameFrame(s, Released(d, s))
    BY ReleasedFrame
  <2>. QED  BY <2>1, ReleasedType DEF SameFrame
<1>. HIDE DEF G
<1>3. Unblocked(r) \in G
  BY <1>1, <1>2, UnblockedIn
<1>. QED  BY <1>3 DEF G

LEMMA RequestedFrame ==
    ASSUME NEW r \in Records, NEW q \in Quads, NEW cs \in SUBSET Cores,
           NEW d \in {"entry", "exit"}
    PROVE  SameFrame(r, Requested(r, q, cs, d))
<1>1. \A w \in KeptCore : w \in CoreVectors /\ ~Joins(r, q, Vector[d], w)
  BY DEF Joins, Vector, KeptCore, CoreVectors
<1>. QED  BY <1>1, RequestedIs DEF SameFrame, Records

LEMMA PacketFrame ==
    ASSUME NEW r \in Records, NEW c \in Cores, NEW t
    PROVE  SameFrame(r, Packet(t, c, r))
<1>. DEFINE what == payload[t][c]
            q == QuadOf(c)
<1>1. q \in Quads /\ {c} \in SUBSET Cores
  BY CoresOfQuads
<1>2. SameFrame(r, Acknowledged(r, c, what))
  <2>. DEFINE s == [r EXCEPT !.cack = @ \union {c}]
  <2>1. s \in Records /\ SameFrame(r, s)
    BY DEF Records, SameFrame
  <2>. HIDE DEF s
  <2>2. SameFrame(s, Unblocked(s))
    BY <2>1, UnblockedFrame
  <2>. QED  BY <2>1, <2>2 DEF SameFrame, Acknowledged, s
<1>3. SameFrame(r, ExitPacket(r, c, what))
  <2>. DEFINE clocked == what = "exit_rclk"
              s == [r EXCEPT
                      !.core.PCWU = IF what = "dec_wakeup" THEN @ \union {c}
                                    ELSE @,
                      !.quad.RCLKX = IF clocked THEN @ \ {q} ELSE @]
              cs == IF clocked THEN s.core.RCLKX \intersect CoresOf(q) ELSE {c}
  <2>. HIDE DEF what, q
  <2>1. s \in Records
    BY ZenonT(120) DEF Records, CoreVectors, QuadVectors
  <2>2. SameFrame(r, s)
    <3>. DEFINE pcs == IF what = "dec_wakeup" THEN r.core.PCWU \union {c}
                       ELSE r.core.PCWU
                off == IF clocked THEN r.quad.RCLKX \ {q} ELSE r.quad.RCLKX
                c1 == [r.core EXCEPT !.PCWU = pcs]
                d1 == [r.quad EXCEPT !.RCLKX = off]
    <3>1. s = [r EXCEPT !.core = c1, !.quad = d1]
      BY DEF Records
    <3>. HIDE DEF pcs, off
    <3>2. /\ \A v \in KeptCore : c1[v] = r.core[v]
          /\ \A v \in KeptQuad : d1[v] = r.quad[v]
      BY DEF KeptCore, KeptQuad, CoreVectors, Records
    <3>. HIDE DEF s, c1, d1
    <3>. QED  BY <3>1, <3>2 DEF SameFrame, Records
  <2>3. cs \in SUBSET Cores
    BY <1>1, CoresOfQuads
  <2>. HIDE DEF s, cs
  <2>4. SameFrame(s, Requested(s, q, cs, "exit"))
    BY <1>1, <2>1, <2>3, RequestedFrame
  <2>. QED  BY <2>2, <2>4 DEF SameFrame, ExitPacket, s, cs, q
<1>4. SameFrame(r, EntryPacket(r, c, what))
  <2>. DEFINE s == [r EXCEPT !.level[c] = IF what = "stop5" THEN 5 ELSE 11]
              e == [s EXCEPT !.quad.RCLK_REQ = @ \ {q},
                             !.quad.RCLK_DONE = @ \union {q}]
  <2>. HIDE DEF what, q
  <2>1. s \in Records /\ SameFrame(r, s)
    BY DEF Records, SameFrame
  <2>. HIDE DEF s
  <2>2. SameFrame(s, Requested(s, q, {c}, "entry"))
    BY <1>1, <2>1, RequestedFrame
  <2>3. SameFrame(s, e)
    BY <2>1 DEF SameFrame, KeptQuad, Records
  <2>. QED  BY <2>1, <2>2, <2>3, SMTT(60) DEF SameFrame, EntryPacket, s, q
<1>5. SameFrame(r, r)
  BY DEF SameFrame
<1>. QED  BY <1>2, <1>3, <1>4, <1>5 DEF Packet

LEMMA ParsedFrame ==
    ASSUME rec \in Records, NEW cs \in SUBSET Cores, NEW t
    PROVE  SameFrame(rec, Parsed(t, cs))
<1>. DEFINE G == {s \in Records : SameFrame(rec, s)}
            r0 == [rec EXCEPT !.core.PIGE = {}, !.core.PIGX = {}]
<1>1. IsFiniteSet(cs)
  BY SgpeAssumption, FS_Subset
<1>2. r0 \in Records
  BY DEF Records, CoreVectors
<1>3. SameFrame(rec, r0)
  <2>. DEFINE c1 == [rec.core EXCEPT !.PIGE = {}, !.PIGX = {}]
  <2>1. r0 = [rec EXCEPT !.core = c1]
    BY DEF Records
  <2>2. \A v \in KeptCore : c1[v] = rec.core[v]
    BY DEF KeptCore, CoreVectors, Records
  <2>. HIDE DEF r0, c1
  <2>. QED  BY <2>1, <2>2 DEF SameFrame, Records
<1>4. \A c \in cs : \A r \in G : Packet(t, c, r) \in G
  <2>. TAKE c \in cs
  <2>. TAKE r \in G
  <2>1. SameFrame(rec, r) /\ SameFrame(r, Packet(t, c, r))
    BY PacketFrame
  <2>. QED  BY <2>1, PacketType DEF SameFrame
<1>5. r0 \in G
  BY <1>2, <1>3
<1>. HIDE DEF G
<1>6. Parsed(t, cs) \in G
  BY <1>1, <1>4, <1>5, ParsedIn
<1>. QED  BY <1>6 DEF G

-----------------------------------------------------------------------------
LEMMA LaunchIs ==
    ASSUME NEW r \in Records, Launch(r)
    PROVE  /\ handler' = NoHandler
           /\ rec'.level = r.level /\ rec'.act = r.act /\ rec'.quad = r.quad
           /\ rec'.qswu = r.qswu /\ rec'.status = r.status
           /\ rec'.creq = r.creq /\ rec'.cack = r.cack
           /\ \A v \in CoreVectors \ {"EXIT", "PIGX", "PIGE"} :
                  rec'.core[v] = r.core[v]
           /\ rec'.core.EXIT = r.core.PIGX
           /\ rec'.core.PIGX = {} /\ rec'.core.PIGE = {}
<1>. DEFINE entries == r.qswu.ENTRY # {} \/ r.core.PIGE # {}
                       \/ r.quad.RCLK_DONE # {}
            c1 == [r.core EXCEPT !.EXIT = r.core.PIGX, !.PIGX = {}, !.PIGE = {}]
            e1 == r.entry_pending \/ entries
<1>1. handler' = NoHandler /\ rec' = [r EXCEPT !.core = c1, !.entry_pending = e1]
  <2>1. handler' = NoHandler
        /\ rec' = [r EXCEPT !.core.EXIT = r.core.PIGX,
                            !.core.PIGX = {}, !.core.PIGE = {},
                            !.entry_pending = @ \/ entries]
    BY DEF Launch
  <2>. HIDE DEF entries
  <2>. QED  BY <2>1 DEF Records
<1>. HIDE DEF e1
<1>2. /\ \A v \in CoreVectors \ {"EXIT", "PIGX", "PIGE"} : c1[v] = r.core[v]
      /\ c1.EXIT = r.core.PIGX /\ c1.PIGX = {} /\ c1.PIGE = {}
  BY DEF Records, CoreVectors
<1>. HIDE DEF c1
<1>. QED  BY <1>1, <1>2 DEF Records

(* What the end of an exit leaves alone.                                   *)
LEMMA ExitEndIs ==
    ASSUME NEW r \in Records, NEW qs \in SUBSET Quads, ExitEnd(r, qs)
    PROVE  LET cores == r.core.EXIT \intersect In(qs)
               ready == cores \ In(r.quad.RCLKX)
               exits == {QuadOf(c) : c \in ready}
               woken == qs \intersect r.qswu.EXIT
           IN  /\ rec'.level = [c \in Cores |-> IF c \in ready THEN 0
                                                ELSE r.level[c]]
               /\ rec'.act = r.act /\ rec'.status = r.status
               /\ rec'.creq = r.creq /\ rec'.cack = r.cack
               /\ rec'.entry_pending = r.entry_pending
               /\ rec'.core = [r.core EXCEPT
                      !.PCWU = @ \ ready, !.EXIT = @ \ ready,
                      !.RCLKX = (@ \union cores) \ ready]
               /\ rec'.quad = [r.quad EXCEPT
                      !.IN_STOP11 = @ \ exits, !.ACTIVE = @ \union exits]
               /\ rec'.qswu = [r.qswu EXCEPT
                      !.ACTIVE = @ \union woken, !.EXIT = @ \ woken]
<1>. DEFINE cores == r.core.EXIT \intersect In(qs)
            ready == cores \ In(r.quad.RCLKX)
            exits == {QuadOf(c) : c \in ready}
            woken == qs \intersect r.qswu.EXIT
            lv == [c \in Cores |-> IF c \in ready THEN 0 ELSE r.level[c]]
            h == HandedOver(r, ready)
            hc == [r.core EXCEPT !.PCWU = @ \ ready, !.EXIT = @ \ ready]
            c1 == [hc EXCEPT !.RCLKX = (@ \union cores) \ ready]
            c2 == [r.core EXCEPT !.PCWU = @ \ ready, !.EXIT = @ \ ready,
                                 !.RCLKX = (@ \union cores) \ ready]
            q1 == [r.qswu EXCEPT !.ACTIVE = @ \union woken, !.EXIT = @ \ woken]
            d1 == [r.quad EXCEPT !.IN_STOP11 = @ \ exits, !.ACTIVE = @ \union exits]
<1>1. rec' = [h EXCEPT !.qswu.ACTIVE = @ \union woken,
                       !.qswu.EXIT = @ \ woken,
                       !.core.RCLKX = (@ \union cores) \ ready,
                       !.quad.IN_STOP11 = @ \ exits,
                       !.quad.ACTIVE = @ \union exits]
  BY DEF ExitEnd
<1>2. h = [r EXCEPT !.level = lv, !.core.PCWU = @ \ ready,
                    !.core.EXIT = @ \ ready]
  BY DEF HandedOver
<1>. HIDE DEF cores, ready, exits, woken, h
<1>3. h = [r EXCEPT !.level = lv, !.core = hc]
  <2>. HIDE DEF lv
  <2>. QED  BY <1>2 DEF Records
<1>4. hc \in [CoreVectors -> {hc[v] : v \in CoreVectors}]
  BY DEF Records
<1>5. c1 = c2
  BY <1>4 DEF Records, CoreVectors
<1>6. rec' = [r EXCEPT !.level = lv, !.core = c1, !.quad = d1, !.qswu = q1]
  <2>. HIDE DEF hc, lv
  <2>1. h.core = hc /\ h.quad = r.quad /\ h.qswu = r.qswu
    BY <1>3 DEF Records
  <2>2. rec' = [h EXCEPT !.core = c1, !.quad = d1, !.qswu = q1]
    BY <1>1, <2>1, <1>3 DEF Records
  <2>. HIDE DEF c1, d1, q1
  <2>. QED  BY <1>3, <2>2 DEF Records
<1>. HIDE DEF lv, c1, c2, d1, q1
<1>7. /\ rec'.level = lv /\ rec'.act = r.act /\ rec'.status = r.status
      /\ rec'.creq = r.creq /\ rec'.cack = r.cack
      /\ rec'.entry_pending = r.entry_pending
      /\ rec'.core = c2 /\ rec'.quad = d1 /\ rec'.qswu = q1
  BY <1>5, <1>6 DEF Records
<1>. QED  BY <1>7 DEF lv, c2, d1, q1, cores, ready, exits, woken

-----------------------------------------------------------------------------
(* The record that the handlers of special wakeups and of blocks leave.     *)
LEMMA SpecialIs ==
    ASSUME TypeInv, SpecialPackets
    PROVE  \E q1 \in [QswuVectors -> SUBSET Quads] :
              /\ [rec EXCEPT !.qswu = q1] \in Records
              /\ Launch([rec EXCEPT !.qswu = q1])
              /\ "EXIT_SUSPENDED" \in rec.status => q1.EXIT = {}
<1>. DEFINE Of(what) == {q \in handler.set : payload.TYPE6[q] = what}
            news == Of("exit") \ rec.qswu.ACTIVE
            up == news \intersect rec.quad.ACTIVE
            down == news \ up
            Held(qs, d) == IF Vector[d].status \in rec.status THEN qs ELSE {}
            Barred(qs, d) == qs \intersect rec.quad[Vector[d].block]
            Granted(qs, d) ==
                {q \in qs : \A p \in Held(qs, d) \union Barred(qs, d) : q < p}
            r == [rec EXCEPT
                   !.qswu.SUSPENDX = @ \union Held(down, "exit"),
                   !.qswu.BLOCKX = @ \union Barred(down, "exit"),
                   !.qswu.EXIT = Granted(down, "exit"),
                   !.qswu.SUSPENDE = @ \union Held(Of("entry"), "entry"),
                   !.qswu.BLOCKE = @ \union Barred(Of("entry"), "entry"),
                   !.qswu.ENTRY = Granted(Of("entry"), "entry"),
                   !.qswu.ACTIVE = (@ \union up) \ Granted(Of("entry"), "entry")]
            q1 == [rec.qswu EXCEPT
                        !.SUSPENDX = @ \union Held(down, "exit"),
                        !.BLOCKX = @ \union Barred(down, "exit"),
                        !.EXIT = Granted(down, "exit"),
                        !.SUSPENDE = @ \union Held(Of("entry"), "entry"),
                        !.BLOCKE = @ \union Barred(Of("entry"), "entry"),
                        !.ENTRY = Granted(Of("entry"), "entry"),
                        !.ACTIVE = (@ \union up) \ Granted(Of("entry"), "entry")]
<1>1. handler.set \subseteq Quads /\ rec \in Records
  BY DEF SpecialPackets, HandlerRuns, TypeInv, TypesOfHandler
<1>2. Launch(r)
  BY DEF SpecialPackets
<1>3. Of("entry") \subseteq Quads /\ down \subseteq Quads /\ up \subseteq Quads
  BY <1>1
<1>4. "EXIT_SUSPENDED" \in rec.status => Granted(down, "exit") = {}
  <2>1. "EXIT_SUSPENDED" \in rec.status => Held(down, "exit") = down
    BY DEF Vector
  <2>. HIDE DEF down, Held, Barred
  <2>2. ASSUME Held(down, "exit") = down, NEW q \in Granted(down, "exit")
        PROVE  FALSE
    BY <2>2, <1>3, SgpeAssumption
  <2>. HIDE DEF Granted
  <2>. QED  BY <2>1, <2>2
<1>. HIDE DEF Of, news, up, down
<1>5. \A qs \in SUBSET Quads, d \in {"entry", "exit"} :
         Held(qs, d) \subseteq Quads /\ Barred(qs, d) \subseteq Quads
         /\ Granted(qs, d) \subseteq Quads
  OBVIOUS
<1>. HIDE DEF Held, Barred, Granted
<1>6. rec.qswu \in [QswuVectors -> SUBSET Quads]
  BY <1>1 DEF Records
<1>7. /\ Held(down, "exit") \subseteq Quads /\ Barred(down, "exit") \subseteq Quads
      /\ Granted(down, "exit") \subseteq Quads
      /\ Held(Of("entry"), "entry") \subseteq Quads
      /\ Barred(Of("entry"), "entry") \subseteq Quads
      /\ Granted(Of("entry"), "entry") \subseteq Quads
  BY <1>3, <1>5
<1>8. q1 \in [QswuVectors -> SUBSET Quads] /\ q1.EXIT = Granted(down, "exit")
  BY <1>3, <1>6, <1>7 DEF QswuVectors
<1>9. r = [rec EXCEPT !.qswu = q1]
  BY <1>1 DEF Records
<1>. HIDE DEF q1, r
<1>10. [rec EXCEPT !.qswu = q1] \in Records
  BY <1>1, <1>8 DEF Records
<1>. QED  BY <1>2, <1>4, <1>8, <1>9, <1>10

LEMMA BlockIs ==
    ASSUME TypeInv, BlockRequest
    PROVE  \E d1 \in [QuadVectors -> SUBSET Quads], cs \in SUBSET Cores :
              LET r == [rec EXCEPT !.quad = d1, !.creq = cs, !.cack = {}]
              IN  /\ r \in Records
                  /\ Launch(r) \/ Launch(Unblocked(r))
                  /\ \A v \in QuadVectors \ {"BLOCKE", "BLOCKX"} :
                         d1[v] = rec.quad[v]
                  /\ "entry" \notin BlockWhat => d1.BLOCKE = rec.quad.BLOCKE
<1>. DEFINE block == control = "block"
            asked == BlockQuads \intersect rec.quad.ACTIVE
            Marked(d, qs) == IF d \notin BlockWhat THEN qs
                             ELSE IF block THEN qs \union BlockQuads
                             ELSE qs \ BlockQuads
            cs == {First(q) : q \in asked}
            r0 == [rec EXCEPT !.quad.BLOCKE = Marked("entry", @),
                              !.quad.BLOCKX = Marked("exit", @),
                              !.creq = cs, !.cack = {}]
            d1 == [rec.quad EXCEPT !.BLOCKE = Marked("entry", @),
                                   !.BLOCKX = Marked("exit", @)]
            r == [rec EXCEPT !.quad = d1, !.creq = cs, !.cack = {}]
<1>1. rec \in Records
  BY DEF TypeInv
<1>2. Launch(r0) \/ Launch(Unblocked(r0))
  BY DEF BlockRequest
<1>3. cs \subseteq Cores
  BY CoresOfQuads, SgpeAssumption
<1>4. /\ \A qs \in SUBSET Quads, d \in {"entry", "exit"} : Marked(d, qs) \subseteq Quads
      /\ "entry" \notin BlockWhat => \A qs : Marked("entry", qs) = qs
  BY SgpeAssumption
<1>. HIDE DEF Marked, cs
<1>5. /\ rec.quad.BLOCKE \in SUBSET Quads /\ rec.quad.BLOCKX \in SUBSET Quads
  BY <1>1 DEF Records, QuadVectors
<1>6. /\ Marked("entry", rec.quad.BLOCKE) \subseteq Quads
      /\ Marked("exit", rec.quad.BLOCKX) \subseteq Quads
  BY <1>4, <1>5
<1>7. /\ d1 \in [QuadVectors -> SUBSET Quads]
      /\ \A v \in QuadVectors \ {"BLOCKE", "BLOCKX"} : d1[v] = rec.quad[v]
      /\ d1.BLOCKE = Marked("entry", rec.quad.BLOCKE)
  BY <1>1, <1>6 DEF Records, QuadVectors
<1>8. r0 = r
  BY <1>1 DEF Records
<1>. HIDE DEF d1, r0
<1>9. r \in Records
  BY <1>1, <1>3, <1>7 DEF Records
<1>. QED  BY <1>2, <1>3, <1>4, <1>7, <1>8, <1>9

LEMMA BlockedStays ==
    ASSUME TypeInv, BlockedAsAsked, [Next]_vars
    PROVE  BlockedAsAsked'
<1>. USE DEF BlockedAsAsked
<1>1. rec \in Records
  BY DEF TypeInv
<1>2. ASSUME rec'.quad.BLOCKE = rec.quad.BLOCKE PROVE BlockedAsAsked'
  BY <1>2
<1>3. CASE UNCHANGED rec
  BY <1>3
<1>4. ASSUME NEW t \in CoreTypes, HandlePackets(t) PROVE BlockedAsAsked'
  <2>. DEFINE parsed == Parsed(t, handler.set)
              r == [parsed EXCEPT !.core.ACTIVE = (@ \union parsed.core.PIGX)
                                                      \ parsed.core.PIGE]
              r2 == [r EXCEPT !.core.PIGE = {}, !.core.PIGX = {}]
  <2>1. handler.set \in SUBSET Cores
    BY <1>4 DEF HandlePackets, HandlerRuns, TypeInv, TypesOfHandler
  <2>2. parsed \in Records /\ SameFrame(rec, parsed)
    BY <1>1, <2>1, ParsedType, ParsedFrame
  <2>3. rec' \in {rec, r2} \/ Launch(r)
    BY <1>4 DEF HandlePackets
  <2>. HIDE DEF parsed
  <2>4. r.quad = parsed.quad /\ r \in Records
    BY <2>2 DEF Records, CoreVectors
  <2>. HIDE DEF r
  <2>5. r2.quad = r.quad
    BY <2>4 DEF Records
  <2>6. Launch(r) => rec'.quad = r.quad
    BY <2>4, LaunchIs
  <2>7. parsed.quad.BLOCKE = rec.quad.BLOCKE
    BY <2>2 DEF SameFrame, KeptQuad, QuadVectors
  <2>. QED  BY <1>2, <2>3, <2>4, <2>5, <2>6, <2>7
<1>5. CASE SpecialPackets
  <2>1. PICK q1 \in [QswuVectors -> SUBSET Quads] :
            /\ [rec EXCEPT !.qswu = q1] \in Records
            /\ Launch([rec EXCEPT !.qswu = q1])
    BY <1>5, SpecialIs
  <2>2. rec'.quad = rec.quad
    BY <1>1, <2>1, LaunchIs DEF Records
  <2>. QED  BY <1>2, <2>2
<1>6. CASE BlockRequest
  <2>1. PICK d1 \in [QuadVectors -> SUBSET Quads], cs \in SUBSET Cores :
              LET r == [rec EXCEPT !.quad = d1, !.creq = cs, !.cack = {}]
              IN  /\ r \in Records
                  /\ Launch(r) \/ Launch(Unblocked(r))
                  /\ "entry" \notin BlockWhat => d1.BLOCKE = rec.quad.BLOCKE
    BY <1>6, BlockIs
  <2>. DEFINE r == [rec EXCEPT !.quad = d1, !.creq = cs, !.cack = {}]
  <2>2. r \in Records /\ r.quad = d1
    BY <1>1, <2>1 DEF Records
  <2>3. Launch(r) \/ Launch(Unblocked(r))
    BY <2>1
  <2>. HIDE DEF r
  <2>4. /\ Unblocked(r) \in Records
        /\ Unblocked(r).quad.BLOCKE = r.quad.BLOCKE
    BY <2>2, UnblockedType, UnblockedFrame DEF SameFrame, KeptQuad, QuadVectors
  <2>5. rec'.quad.BLOCKE = d1.BLOCKE
    BY <2>2, <2>3, <2>4, LaunchIs
  <2>. QED  BY <2>1, <2>5
<1>7. CASE \/ HandOff \/ \E c \in Cores : DoorbellFirst(c)
           \/ SuspendRequest \/ HandlerSuspends
           \/ \E thread \in {"exit", "entry"} :
                  ThreadStarts(thread) \/ ThreadSuspends(thread)
  <2>1. \A cs : HandedOver(rec, cs).quad = rec.quad
    BY <1>1 DEF HandedOver, Records
  <2>2. HandOff => rec'.quad = rec.quad
    BY <2>1 DEF HandOff
  <2>3. (\E c \in Cores : DoorbellFirst(c)) => rec'.quad = rec.quad
    BY <1>1 DEF DoorbellFirst, Records
  <2>4. SuspendRequest \/ HandlerSuspends => rec'.quad = rec.quad
    BY <1>1 DEF SuspendRequest, HandlerSuspends, SuspendDone, Records
  <2>5. ASSUME NEW thread \in {"exit", "entry"},
               ThreadStarts(thread) \/ ThreadSuspends(thread)
        PROVE  rec'.quad = rec.quad
    BY <1>1, <2>5 DEF ThreadStarts, ThreadSuspends, SuspendDone, Records
  <2>. QED  BY <1>2, <1>7, <2>2, <2>3, <2>4, <2>5
<1>8. CASE \/ ExitSelects \/ ExitExpress \/ ExitTellsDone \/ ExitThreadEnds
           \/ \E q \in Quads : ExitQuad(q)
  <2>1. ASSUME NEW r \in Records, NEW qs \in SUBSET Quads, ExitEnd(r, qs),
               r.quad = rec.quad
        PROVE  rec'.quad.BLOCKE = rec.quad.BLOCKE
    <3>. DEFINE ready == (r.core.EXIT \intersect In(qs)) \ In(r.quad.RCLKX)
                exits == {QuadOf(c) : c \in ready}
    <3>1. rec'.quad = [r.quad EXCEPT !.IN_STOP11 = @ \ exits,
                                     !.ACTIVE = @ \union exits]
      BY <2>1, ExitEndIs
    <3>. HIDE DEF exits
    <3>. QED  BY <1>1, <2>1, <3>1 DEF Records, QuadVectors
  <2>2. ExitExpress => rec'.quad.BLOCKE = rec.quad.BLOCKE
    BY <1>1, <2>1 DEF ExitExpress
  <2>3. ASSUME NEW q \in Quads, ExitQuad(q)
        PROVE  rec'.quad.BLOCKE = rec.quad.BLOCKE
    <3>. DEFINE r == [rec EXCEPT !.act[q] = 0]
    <3>1. r \in Records /\ r.quad = rec.quad
      BY <1>1 DEF Records
    <3>2. ExitEnd(r, {q}) /\ {q} \in SUBSET Quads
      BY <2>3 DEF ExitQuad
    <3>. HIDE DEF r
    <3>. QED  BY <2>1, <3>1, <3>2
  <2>4. ExitTellsDone \/ ExitThreadEnds => rec'.quad = rec.quad
    BY <1>1 DEF ExitTellsDone, ExitThreadEnds, TellsExit, Records
  <2>5. ExitSelects => rec'.quad.BLOCKE = rec.quad.BLOCKE
    BY <1>1 DEF ExitSelects, TellsExit, Records, QuadVectors
  <2>. QED  BY <1>2, <1>8, <2>2, <2>3, <2>4, <2>5
<1>9. CASE \/ EntrySelects \/ EntryThreadEnds
           \/ \E q \in Quads : Purge(q) \/ EntryQuad(q)
  <2>1. EntryThreadEnds => rec'.quad = rec.quad
    BY <1>1 DEF EntryThreadEnds, Records
  <2>2. EntrySelects => rec'.quad.BLOCKE = rec.quad.BLOCKE
    <3>. DEFINE kept == UNION {rec.qswu.ACTIVE, rec.quad.BLOCKE,
                               rec.quad.RCLK_REQ, rec.quad.RCLKX}
                asleep == {q \in Quads \ kept :
                              rec.act[q] < 11
                              /\ \A c \in CoresOf(q) : rec.level[c] >= 11}
                enter == asleep \intersect rec.quad.RCLK_DONE
                disable == asleep \ (rec.quad.RCLK_DONE \union rec.quad.IN_STOP11)
                d1 == [rec.quad EXCEPT
                         !.ENTRY = enter,
                         !.RCLK_DONE = @ \ enter,
                         !.IN_STOP11 = @ \union enter,
                         !.RCLK_REQ = @ \union disable]
    <3>1. EntrySelects => rec' =
              [rec EXCEPT
                         !.quad.ENTRY = enter,
                         !.quad.RCLK_DONE = @ \ enter,
                         !.quad.IN_STOP11 = @ \union enter,
                         !.quad.RCLK_REQ = @ \union disable,
                         !.core.RCLKE = (@ \ In(enter)) \union In(disable)]
      BY DEF EntrySelects
    <3>. HIDE DEF enter, disable
    <3>2. EntrySelects => rec'.quad = d1
      BY <1>1, <3>1 DEF Records
    <3>3. d1.BLOCKE = rec.quad.BLOCKE
      BY <1>1 DEF Records, QuadVectors
    <3>. HIDE DEF d1
    <3>. QED  BY <3>2, <3>3
  <2>3. ASSUME NEW q \in Quads, Purge(q)
        PROVE  rec'.quad.BLOCKE = rec.quad.BLOCKE
    <3>1. \/ UNCHANGED rec
          \/ rec' = [rec EXCEPT !.quad.RCLKX = @ \union {q},
                                !.quad.ENTRY = @ \ {q}]
      BY <2>3 DEF Purge
    <3>. DEFINE d1 == [rec.quad EXCEPT !.RCLKX = @ \union {q}, !.ENTRY = @ \ {q}]
    <3>2. rec'.quad \in {rec.quad, d1}
      BY <1>1, <3>1 DEF Records
    <3>3. d1.BLOCKE = rec.quad.BLOCKE
      BY <1>1 DEF Records, QuadVectors
    <3>. HIDE DEF d1
    <3>. QED  BY <3>2, <3>3
  <2>4. ASSUME NEW q \in Quads, EntryQuad(q)
        PROVE  rec'.quad.BLOCKE = rec.quad.BLOCKE
    BY <1>1, <2>4 DEF EntryQuad, Records, QuadVectors
  <2>. QED  BY <1>2, <1>9, <2>1, <2>2, <2>3, <2>4
<1>10. CASE \/ \E i \in Irqs : TakeInterrupt(i)
            \/ EntryNotifies \/ EntryTellsDone
            \/ \E thread \in {"exit", "entry"} : ThreadCloses(thread)
  BY <1>3, <1>10 DEF TakeInterrupt, EntryNotifies, EntryTellsDone, ThreadCloses
<1>11. CASE \/ \E q \in Quads, c \in Cores, level \in Levels :
                  c \in CoresOf(q) /\ CoreStops(q, c, level)
            \/ \E q \in Quads : \E c \in CoresOf(q) :
                  WakeUp(q, c) \/ PcInterrupt(q, c)
            \/ \E q \in Quads : SpecialWakeup(q) \/ ReleaseSpecial(q) \/ Cme(q)
            \/ OccBlocks \/ OccUnblocks \/ PgpeSuspends \/ Fit
            \/ UNCHANGED vars
  BY <1>3, <1>11
  DEF CoreStops, WakeUp, PcInterrupt, SpecialWakeup, ReleaseSpecial, Cme,
      PcwuRead, PcwuSend, CmeExit, CmeDb2, CmeDb1, OccBlocks, OccUnblocks,
      OccRequest, PgpeSuspends, Fit, vars
<1>. QED  BY <1>4, <1>5, <1>6, <1>7, <1>8, <1>9, <1>10, <1>11
          DEF Next, Sgpe, Handlers, Threads

LEMMA TypeInit == Init => TypeInv /\ BlockedAsAsked
<1>. SUFFICES ASSUME Init PROVE TypeInv /\ BlockedAsAsked
  OBVIOUS
<1>1. PICK up \in SUBSET Quads, mix \in Mixes :
        /\ running = In(up) /\ wns = Cores \ In(up)
        /\ type = [c \in Cores |-> "TYPE3"]
        /\ wakeup = {} /\ pcPending = {} /\ blockpc = {} /\ notified = {}
        /\ cmeBlock = [q \in Quads |-> {}] /\ cmeSuspend = {}
        /\ db1 = [q \in Quads |-> "none"] /\ db2 = [c \in Cores |-> "none"]
        /\ powered = up /\ rclk = up
        /\ special = [q \in Quads |-> "off"]
        /\ pend = [t \in StopTypes |-> {}]
        /\ payload = [t \in StopTypes |-> IF t = "TYPE6"
                         THEN [q \in Quads |-> "none"]
                         ELSE [c \in Cores |-> "none"]]
        /\ control = "none" /\ suspend = "no"
        /\ rec = [level |-> [c \in Cores |-> IF c \in In(up) THEN 0 ELSE 11],
                  act |-> [q \in Quads |-> IF q \in up THEN 0 ELSE 11],
                  core |-> [v \in CoreVectors |->
                               IF v = "ACTIVE" THEN In(up) ELSE {}],
                  quad |-> [v \in QuadVectors |->
                               IF v = "ACTIVE" THEN up ELSE {}],
                  qswu |-> [v \in QswuVectors |-> {}],
                  creq |-> {}, cack |-> {}, status |-> {},
                  entry_pending |-> FALSE]
        /\ handler = NoHandler /\ job = NoJob
        /\ ee = [thread \in {"exit", "entry"} |-> TRUE]
        /\ pgpe = [cores |-> In(up), quads |-> up]
        /\ panic = "none"
  BY DEF Init
<1>2. In(up) \subseteq Cores
  BY CoresIn
<1>3. TypesOfCores /\ TypesOfCmes /\ TypesOfRequests
  BY <1>1, <1>2 DEF TypesOfCores, TypesOfCmes, TypesOfRequests
<1>4. TypesOfPackets
  BY <1>1 DEF TypesOfPackets, CoreTypes, StopTypes, Payloads
<1>5. rec \in Records
  BY <1>1, <1>2 DEF Records
<1>6. TypesOfHandler /\ TypesOfJob /\ TypesOfPgpe /\ panic \in Panics
  <2>1. TypesOfHandler
    BY <1>1 DEF TypesOfHandler, NoHandler, CoreTypes
  <2>2. TypesOfJob
    <3>1. job.thread = "none" /\ job.left = {}
      BY <1>1 DEF NoJob
    <3>2. ee \in [{"exit", "entry"} -> BOOLEAN]
      BY <1>1
    <3>. QED  BY <3>1, <3>2 DEF TypesOfJob
  <2>3. TypesOfPgpe /\ panic \in Panics
    BY <1>1, <1>2 DEF TypesOfPgpe, Panics
  <2>. QED  BY <2>1, <2>2, <2>3
<1>7. BlockedAsAsked
  BY <1>1 DEF BlockedAsAsked, QuadVectors
<1>. QED  BY <1>3, <1>4, <1>5, <1>6, <1>7 DEF TypeInv

LEMMA TypeNext ==
    ASSUME TypeInv, BlockedAsAsked, MaskInv, [Next]_vars
    PROVE  TypeInv'
<1>1. Shapes
  BY DEF MaskInv
<1>2. CASE UNCHANGED vars
  BY <1>2, TypesStay DEF TypeInv, vars
<1>3. CASE \/ \E q \in Quads, c \in Cores, level \in Levels :
                  c \in CoresOf(q) /\ CoreStops(q, c, level)
           \/ \E q \in Quads : \E c \in CoresOf(q) :
                  WakeUp(q, c) \/ PcInterrupt(q, c)
           \/ \E q \in Quads : Cme(q)
  BY <1>3, TypeCoresMove, TypeDoorbells DEF Cme
<1>4. CASE \/ \E q \in Quads : SpecialWakeup(q) \/ ReleaseSpecial(q)
           \/ OccBlocks \/ OccUnblocks \/ PgpeSuspends \/ Fit
  BY <1>4, TypeRequests
<1>5. CASE Handlers
  BY <1>5, TypeTakeInterrupt, TypeHandlePackets, TypeHandOff,
     TypeSpecialPackets, TypeBlockRequest, TypeSuspends DEF Handlers
<1>6. CASE Threads
  BY <1>1, <1>6, TypeThreadFrame, TypeSuspends, TypeExitThread,
     TypeEntryThread DEF Threads
<1>. QED  BY <1>2, <1>3, <1>4, <1>5, <1>6 DEF Next, Sgpe

(* The variables have their types, whichever packets were parsed and       *)
(* whatever was blocked meanwhile.                                         *)
THEOREM TypesHold == Spec => [](TypeInv /\ BlockedAsAsked /\ MaskInv)
<1>1. Init => TypeInv /\ BlockedAsAsked /\ MaskInv
  BY TypeInit, MaskInit
<1>2. TypeInv /\ BlockedAsAsked /\ MaskInv /\ [Next]_vars
          => (TypeInv /\ BlockedAsAsked /\ MaskInv)'
  BY TypeNext, BlockedStays, MaskNext
<1>. QED  BY <1>1, <1>2, PTL DEF Spec

(* G_sgpe_stop_record, the packets, the doorbells and the masks stay in    *)
(* their types (p9_sgpe_stop.h), whatever the handlers read.               *)
THEOREM SgpeTypeCorrect == Spec => []TypeOK
<1>1. ASSUME TypeInv, MaskInv PROVE TypeOK
  <2>1. override \subseteq StopTypes /\ prty \in 1 .. DISABLED
        /\ \A i \in 1 .. Len(stack) : stack[i] \in 1 .. DISABLED
    <3>1. CASE stack = <<>> /\ prty = DISABLED
      BY <1>1, <3>1 DEF DISABLED, MaskInv, OverrideFits
    <3>2. CASE stack = <<DISABLED>> /\ prty \in 1 .. 6
      BY <1>1, <3>2 DEF DISABLED, MaskInv, OverrideFits
    <3>3. CASE (\E p \in 1 .. 6 : stack = <<DISABLED, p>>) /\ prty \in 1 .. 6
      BY <1>1, <3>3 DEF DISABLED, MaskInv, OverrideFits
    <3>. QED  BY <1>1, <3>1, <3>2, <3>3 DEF MaskInv, StackFits
  <2>. QED  BY <1>1, <2>1 DEF TypeInv, TypesOfCores, TypesOfCmes, TypesOfRequests,
         TypesOfPackets, TypesOfHandler, TypesOfJob, TypesOfPgpe, Records,
         Panics, TypeOK
<1>. QED  BY <1>1, TypesHold, PTL

-----------------------------------------------------------------------------
(* What each packet does to the record, field by field.                    *)
LEMMA RequestedExit ==
    ASSUME NEW r \in Records, NEW q \in Quads, NEW cs \in SUBSET Cores
    PROVE  LET e == Requested(r, q, cs, "exit")
           IN  /\ e.level = r.level /\ e.quad = r.quad /\ e.qswu = r.qswu
               /\ e.cack = r.cack
               /\ e.core.PIGE = r.core.PIGE /\ e.core.BLOCKE = r.core.BLOCKE
               /\ e.core.PIGX = IF /\ "EXIT_SUSPENDED" \notin r.status
                                   /\ q \notin r.quad.BLOCKX
                                THEN r.core.PIGX \union cs ELSE r.core.PIGX
               /\ e.core.BLOCKX = IF q \in r.quad.BLOCKX
                                  THEN r.core.BLOCKX \union cs ELSE r.core.BLOCKX
<1>. DEFINE v == Vector["exit"]
            c1 == [w \in CoreVectors |->
                      IF Joins(r, q, v, w) THEN r.core[w] \union cs ELSE r.core[w]]
<1>1. Requested(r, q, cs, "exit") = [r EXCEPT !.core = c1]
  BY RequestedIs
<1>2. /\ ~Joins(r, q, v, "PIGE") /\ ~Joins(r, q, v, "BLOCKE")
      /\ Joins(r, q, v, "PIGX") <=> /\ "EXIT_SUSPENDED" \notin r.status
                                    /\ q \notin r.quad.BLOCKX
      /\ Joins(r, q, v, "BLOCKX") <=> q \in r.quad.BLOCKX
  BY DEF Joins, Vector
<1>. HIDE DEF v
<1>3. /\ c1.PIGE = r.core.PIGE /\ c1.BLOCKE = r.core.BLOCKE
      /\ c1.PIGX = IF /\ "EXIT_SUSPENDED" \notin r.status
                      /\ q \notin r.quad.BLOCKX
                   THEN r.core.PIGX \union cs ELSE r.core.PIGX
      /\ c1.BLOCKX = IF q \in r.quad.BLOCKX
                     THEN r.core.BLOCKX \union cs ELSE r.core.BLOCKX
  BY <1>2 DEF CoreVectors
<1>. HIDE DEF c1
<1>. QED  BY <1>1, <1>3 DEF Records

LEMMA RequestedEntry ==
    ASSUME NEW r \in Records, NEW q \in Quads, NEW cs \in SUBSET Cores
    PROVE  LET e == Requested(r, q, cs, "entry")
           IN  /\ e.level = r.level /\ e.quad = r.quad /\ e.qswu = r.qswu
               /\ e.cack = r.cack
               /\ e.core.PIGX = r.core.PIGX /\ e.core.BLOCKX = r.core.BLOCKX
               /\ e.core.PIGE = IF /\ "ENTRY_SUSPENDED" \notin r.status
                                   /\ q \notin r.quad.BLOCKE
                                THEN r.core.PIGE \union cs ELSE r.core.PIGE
               /\ e.core.BLOCKE = IF q \in r.quad.BLOCKE
                                  THEN r.core.BLOCKE \union cs ELSE r.core.BLOCKE
<1>. DEFINE v == Vector["entry"]
            c1 == [w \in CoreVectors |->
                      IF Joins(r, q, v, w) THEN r.core[w] \union cs ELSE r.core[w]]
<1>1. Requested(r, q, cs, "entry") = [r EXCEPT !.core = c1]
  BY RequestedIs
<1>2. /\ ~Joins(r, q, v, "PIGX") /\ ~Joins(r, q, v, "BLOCKX")
      /\ Joins(r, q, v, "PIGE") <=> /\ "ENTRY_SUSPENDED" \notin r.status
                                    /\ q \notin r.quad.BLOCKE
      /\ Joins(r, q, v, "BLOCKE") <=> q \in r.quad.BLOCKE
  BY DEF Joins, Vector
<1>. HIDE DEF v
<1>3. /\ c1.PIGX = r.core.PIGX /\ c1.BLOCKX = r.core.BLOCKX
      /\ c1.PIGE = IF /\ "ENTRY_SUSPENDED" \notin r.status
                      /\ q \notin r.quad.BLOCKE
                   THEN r.core.PIGE \union cs ELSE r.core.PIGE
      /\ c1.BLOCKE = IF q \in r.quad.BLOCKE
                     THEN r.core.BLOCKE \union cs ELSE r.core.BLOCKE
  BY <1>2 DEF CoreVectors
<1>. HIDE DEF c1
<1>. QED  BY <1>1, <1>3 DEF Records

(* An exit: of the core, or of those that waited for their clock.           *)
AfterExit(r, c, what, e) ==
    LET q == QuadOf(c)
        cs == IF what = "exit_rclk" THEN r.core.RCLKX \intersect CoresOf(q)
                                    ELSE {c}
    IN  /\ e.level = r.level /\ e.qswu = r.qswu /\ e.cack = r.cack
        /\ e.quad.RCLK_REQ = r.quad.RCLK_REQ
        /\ e.quad.RCLK_DONE = r.quad.RCLK_DONE
        /\ e.quad.RCLKX = IF what = "exit_rclk" THEN r.quad.RCLKX \ {q}
                                                ELSE r.quad.RCLKX
        /\ e.core.PIGE = r.core.PIGE /\ e.core.BLOCKE = r.core.BLOCKE
        /\ e.core.PIGX = IF /\ "EXIT_SUSPENDED" \notin r.status
                            /\ q \notin r.quad.BLOCKX
                         THEN r.core.PIGX \union cs ELSE r.core.PIGX
        /\ e.core.BLOCKX = IF q \in r.quad.BLOCKX
                           THEN r.core.BLOCKX \union cs ELSE r.core.BLOCKX

LEMMA ExitPacketIs ==
    ASSUME NEW r \in Records, NEW c \in Cores, NEW what \in Payloads
    PROVE  AfterExit(r, c, what, ExitPacket(r, c, what))
<1>. DEFINE q == QuadOf(c)
            clocked == what = "exit_rclk"
            pcs == IF what = "dec_wakeup" THEN r.core.PCWU \union {c}
                   ELSE r.core.PCWU
            off == IF clocked THEN r.quad.RCLKX \ {q} ELSE r.quad.RCLKX
            s == [r EXCEPT
                    !.core.PCWU = IF what = "dec_wakeup" THEN @ \union {c}
                                  ELSE @,
                    !.quad.RCLKX = IF clocked THEN @ \ {q} ELSE @]
            c1 == [r.core EXCEPT !.PCWU = pcs]
            d1 == [r.quad EXCEPT !.RCLKX = off]
            cs == IF clocked THEN s.core.RCLKX \intersect CoresOf(q) ELSE {c}
<1>1. s \in Records
  BY ZenonT(120) DEF Records, CoreVectors, QuadVectors
<1>2. q \in Quads
  BY CoresOfQuads
<1>3. ExitPacket(r, c, what) = Requested(s, q, cs, "exit")
  BY DEF ExitPacket
<1>4. s = [r EXCEPT !.core = c1, !.quad = d1]
  BY DEF Records
<1>5. /\ \A v \in CoreVectors \ {"PCWU"} : c1[v] = r.core[v]
      /\ \A v \in QuadVectors \ {"RCLKX"} : d1[v] = r.quad[v]
      /\ d1.RCLKX = off
  BY DEF Records, QuadVectors, CoreVectors
<1>. HIDE DEF c1, d1, off, pcs, s
<1>6. /\ s.level = r.level /\ s.qswu = r.qswu /\ s.cack = r.cack
      /\ s.status = r.status
      /\ s.core = c1 /\ s.quad = d1
  BY <1>4 DEF Records
<1>7. /\ s.core.PIGE = r.core.PIGE /\ s.core.BLOCKE = r.core.BLOCKE
      /\ s.core.PIGX = r.core.PIGX /\ s.core.BLOCKX = r.core.BLOCKX
      /\ s.core.RCLKX = r.core.RCLKX
      /\ s.quad.RCLK_REQ = r.quad.RCLK_REQ /\ s.quad.BLOCKX = r.quad.BLOCKX
      /\ s.quad.RCLKX = off /\ s.quad.RCLK_DONE = r.quad.RCLK_DONE
  BY <1>5, <1>6 DEF CoreVectors, QuadVectors
<1>8. cs \in SUBSET Cores
  BY <1>2, CoresOfQuads
<1>9. cs = IF clocked THEN r.core.RCLKX \intersect CoresOf(q) ELSE {c}
  BY <1>7
<1>. HIDE DEF cs, q
<1>10. LET e == Requested(s, q, cs, "exit")
       IN  /\ e.level = s.level /\ e.quad = s.quad /\ e.qswu = s.qswu
           /\ e.cack = s.cack
           /\ e.core.PIGE = s.core.PIGE /\ e.core.BLOCKE = s.core.BLOCKE
           /\ e.core.PIGX = IF /\ "EXIT_SUSPENDED" \notin s.status
                               /\ q \notin s.quad.BLOCKX
                            THEN s.core.PIGX \union cs ELSE s.core.PIGX
           /\ e.core.BLOCKX = IF q \in s.quad.BLOCKX
                              THEN s.core.BLOCKX \union cs ELSE s.core.BLOCKX
  BY <1>1, <1>2, <1>8, RequestedExit
<1>11. LET e == ExitPacket(r, c, what)
       IN  /\ e.level = r.level /\ e.qswu = r.qswu /\ e.cack = r.cack
           /\ e.quad.RCLK_REQ = r.quad.RCLK_REQ
           /\ e.quad.RCLK_DONE = r.quad.RCLK_DONE
           /\ e.quad.RCLKX = off
           /\ e.core.PIGE = r.core.PIGE /\ e.core.BLOCKE = r.core.BLOCKE
           /\ e.core.PIGX = IF /\ "EXIT_SUSPENDED" \notin r.status
                               /\ q \notin r.quad.BLOCKX
                            THEN r.core.PIGX \union cs ELSE r.core.PIGX
           /\ e.core.BLOCKX = IF q \in r.quad.BLOCKX
                              THEN r.core.BLOCKX \union cs ELSE r.core.BLOCKX
  BY <1>3, <1>6, <1>7, <1>10
<1>. QED  BY <1>9, <1>11 DEF off, q, AfterExit

(* An entry, or the answer that the resonant clock is off.                  *)
AfterEntry(r, c, what, e) ==
    LET q == QuadOf(c)
        clocked == what = "entry_rclk"
    IN  /\ e.level = [r.level EXCEPT ![c] = IF what = "stop5" THEN 5 ELSE 11]
        /\ e.qswu = r.qswu /\ e.cack = r.cack
        /\ e.quad.RCLKX = r.quad.RCLKX
        /\ e.quad.RCLK_REQ = IF clocked THEN r.quad.RCLK_REQ \ {q}
                                        ELSE r.quad.RCLK_REQ
        /\ e.quad.RCLK_DONE = IF clocked THEN r.quad.RCLK_DONE \union {q}
                                         ELSE r.quad.RCLK_DONE
        /\ e.core.PIGX = r.core.PIGX /\ e.core.BLOCKX = r.core.BLOCKX
        /\ e.core.PIGE = IF /\ ~clocked
                            /\ "ENTRY_SUSPENDED" \notin r.status
                            /\ q \notin r.quad.BLOCKE
                         THEN r.core.PIGE \union {c} ELSE r.core.PIGE
        /\ e.core.BLOCKE = IF ~clocked /\ q \in r.quad.BLOCKE
                           THEN r.core.BLOCKE \union {c}
                           ELSE r.core.BLOCKE

LEMMA EntryPacketIs ==
    ASSUME NEW r \in Records, NEW c \in Cores, NEW what \in Payloads
    PROVE  AfterEntry(r, c, what, EntryPacket(r, c, what))
<1>. DEFINE q == QuadOf(c)
            clocked == what = "entry_rclk"
            lv == [r.level EXCEPT ![c] = IF what = "stop5" THEN 5 ELSE 11]
            s == [r EXCEPT !.level[c] = IF what = "stop5" THEN 5 ELSE 11]
            d1 == [s.quad EXCEPT !.RCLK_REQ = @ \ {q}, !.RCLK_DONE = @ \union {q}]
            e1 == [s EXCEPT !.quad.RCLK_REQ = @ \ {q},
                            !.quad.RCLK_DONE = @ \union {q}]
<1>1. s \in Records
  BY DEF Records
<1>2. s = [r EXCEPT !.level = lv]
  BY DEF Records
<1>3. q \in Quads /\ {c} \in SUBSET Cores
  BY CoresOfQuads
<1>4. EntryPacket(r, c, what) = IF clocked THEN e1
                                ELSE Requested(s, q, {c}, "entry")
  BY DEF EntryPacket
<1>. HIDE DEF lv, q, s
<1>5. s.level = lv /\ s.quad = r.quad /\ s.core = r.core /\ s.qswu = r.qswu
      /\ s.cack = r.cack /\ s.status = r.status
  BY <1>2 DEF Records
<1>6. CASE clocked
  <2>1. e1 = [s EXCEPT !.quad = d1]
    BY <1>1 DEF Records
  <2>2. d1.RCLKX = s.quad.RCLKX /\ d1.RCLK_REQ = s.quad.RCLK_REQ \ {q}
        /\ d1.RCLK_DONE = s.quad.RCLK_DONE \union {q}
    BY <1>1 DEF Records, QuadVectors
  <2>. HIDE DEF d1, e1
  <2>3. e1.level = s.level /\ e1.quad = d1 /\ e1.core = s.core
        /\ e1.qswu = s.qswu /\ e1.cack = s.cack
    BY <1>1, <2>1 DEF Records
  <2>. QED  BY <1>4, <1>5, <1>6, <2>2, <2>3 DEF lv, q, AfterEntry
<1>7. CASE ~clocked
  <2>1. LET e == Requested(s, q, {c}, "entry")
        IN  /\ e.level = s.level /\ e.quad = s.quad /\ e.qswu = s.qswu
            /\ e.cack = s.cack
            /\ e.core.PIGX = s.core.PIGX /\ e.core.BLOCKX = s.core.BLOCKX
            /\ e.core.PIGE = IF /\ "ENTRY_SUSPENDED" \notin s.status
                                /\ q \notin s.quad.BLOCKE
                             THEN s.core.PIGE \union {c} ELSE s.core.PIGE
            /\ e.core.BLOCKE = IF q \in s.quad.BLOCKE
                               THEN s.core.BLOCKE \union {c} ELSE s.core.BLOCKE
    BY <1>1, <1>3, RequestedEntry
  <2>. QED  BY <1>4, <1>5, <1>7, <2>1 DEF lv, q, AfterEntry
<1>. QED  BY <1>6, <1>7

LEMMA ReleasedExit ==
    ASSUME "exit" \in BlockWhat, NEW r \in Records
    PROVE  LET e == Released("exit", r)
               held == "EXIT_SUSPENDED" \in r.status
           IN  /\ e.level = r.level /\ e.quad = r.quad /\ e.cack = r.cack
               /\ e.core.PIGE = r.core.PIGE /\ e.core.BLOCKE = r.core.BLOCKE
               /\ e.core.BLOCKX = {} /\ e.qswu.BLOCKX = {}
               /\ e.core.PIGX = IF held THEN r.core.PIGX
                                ELSE r.core.PIGX \union r.core.BLOCKX
               /\ e.qswu.EXIT = IF held THEN r.qswu.EXIT
                                ELSE r.qswu.EXIT \union r.qswu.BLOCKX
<1>. DEFINE v == Vector["exit"]
            held == v.status \in r.status
            Moved(f, to) == [w \in DOMAIN f |-> IF w = v.block THEN {}
                                 ELSE IF w = to THEN f[w] \union f[v.block]
                                                ELSE f[w]]
            c1 == Moved(r.core, IF held THEN v.suspend ELSE v.core)
            q1 == Moved(r.qswu, IF held THEN v.suspend ELSE v.qswu)
<1>1. Released("exit", r) = [r EXCEPT !.core = c1, !.qswu = q1]
  BY ReleasedIs
<1>2. /\ v.block = "BLOCKX" /\ v.suspend = "SUSPENDX" /\ v.core = "PIGX"
      /\ v.qswu = "EXIT" /\ v.status = "EXIT_SUSPENDED"
  BY DEF Vector
<1>. HIDE DEF v
<1>3. /\ c1.PIGE = r.core.PIGE /\ c1.BLOCKE = r.core.BLOCKE
      /\ c1.BLOCKX = {}
      /\ c1.PIGX = IF held THEN r.core.PIGX
                   ELSE r.core.PIGX \union r.core.BLOCKX
  BY <1>2 DEF Records, CoreVectors
<1>4. /\ q1.BLOCKX = {}
      /\ q1.EXIT = IF held THEN r.qswu.EXIT
                   ELSE r.qswu.EXIT \union r.qswu.BLOCKX
  BY <1>2 DEF Records, QswuVectors
<1>. HIDE DEF c1, q1
<1>. QED  BY <1>1, <1>2, <1>3, <1>4 DEF Records

LEMMA ReleasedEntry ==
    ASSUME "entry" \in BlockWhat, NEW r \in Records
    PROVE  LET e == Released("entry", r)
               held == "ENTRY_SUSPENDED" \in r.status
           IN  /\ e.level = r.level /\ e.quad = r.quad /\ e.cack = r.cack
               /\ e.core.PIGX = r.core.PIGX /\ e.core.BLOCKX = r.core.BLOCKX
               /\ e.qswu.EXIT = r.qswu.EXIT /\ e.qswu.BLOCKX = r.qswu.BLOCKX
               /\ e.core.BLOCKE = {}
               /\ e.core.PIGE = IF held THEN r.core.PIGE
                                ELSE r.core.PIGE \union r.core.BLOCKE
<1>. DEFINE v == Vector["entry"]
            held == v.status \in r.status
            Moved(f, to) == [w \in DOMAIN f |-> IF w = v.block THEN {}
                                 ELSE IF w = to THEN f[w] \union f[v.block]
                                                ELSE f[w]]
            c1 == Moved(r.core, IF held THEN v.suspend ELSE v.core)
            q1 == Moved(r.qswu, IF held THEN v.suspend ELSE v.qswu)
<1>1. Released("entry", r) = [r EXCEPT !.core = c1, !.qswu = q1]
  BY ReleasedIs
<1>2. /\ v.block = "BLOCKE" /\ v.suspend = "SUSPENDE" /\ v.core = "PIGE"
      /\ v.qswu = "ENTRY" /\ v.status = "ENTRY_SUSPENDED"
  BY DEF Vector
<1>. HIDE DEF v
<1>3. /\ c1.PIGX = r.core.PIGX /\ c1.BLOCKX = r.core.BLOCKX
      /\ c1.BLOCKE = {}
      /\ c1.PIGE = IF held THEN r.core.PIGE
                   ELSE r.core.PIGE \union r.core.BLOCKE
  BY <1>2 DEF Records, CoreVectors
<1>4. q1.BLOCKX = r.qswu.BLOCKX /\ q1.EXIT = r.qswu.EXIT
  BY <1>2 DEF Records, QswuVectors
<1>. HIDE DEF c1, q1
<1>. QED  BY <1>1, <1>2, <1>3, <1>4 DEF Records

(* What is unblocked is asked for again, unless all are suspended.         *)
NowFree(r, e) ==
    /\ e.level = r.level /\ e.quad = r.quad /\ e.cack = r.cack
    /\ e.status = r.status
    /\ e.core.BLOCKX \subseteq r.core.BLOCKX
    /\ e.core.BLOCKE \subseteq r.core.BLOCKE
    /\ e.qswu.BLOCKX \subseteq r.qswu.BLOCKX
    /\ e.qswu.EXIT \subseteq r.qswu.EXIT \union r.qswu.BLOCKX
    /\ e.core.PIGX \subseteq r.core.PIGX \union r.core.BLOCKX
    /\ e.core.PIGE \subseteq r.core.PIGE \union r.core.BLOCKE
    /\ "EXIT_SUSPENDED" \in r.status => e.core.PIGX = r.core.PIGX
    /\ "ENTRY_SUSPENDED" \in r.status => e.core.PIGE = r.core.PIGE

LEMMA UnblockedIs ==
    ASSUME NEW r \in Records
    PROVE  NowFree(r, Unblocked(r))
<1>. DEFINE G == {s \in Records : NowFree(r, s)}
<1>1. r \in G
  BY DEF NowFree
<1>2. \A d \in BlockWhat : \A s \in G : Released(d, s) \in G
  <2>. TAKE d \in BlockWhat
  <2>. TAKE s \in G
  <2>1. Released(d, s) \in Records /\ Released(d, s).status = s.status
    BY ReleasedType, ReleasedFrame DEF SameFrame
  <2>2. NowFree(r, s)
    OBVIOUS
  <2>3. CASE d = "exit"
    <3>1. LET e == Released("exit", s)
              held == "EXIT_SUSPENDED" \in s.status
          IN  /\ e.level = s.level /\ e.quad = s.quad /\ e.cack = s.cack
              /\ e.core.PIGE = s.core.PIGE /\ e.core.BLOCKE = s.core.BLOCKE
              /\ e.core.BLOCKX = {} /\ e.qswu.BLOCKX = {}
              /\ e.core.PIGX = IF held THEN s.core.PIGX
                               ELSE s.core.PIGX \union s.core.BLOCKX
              /\ e.qswu.EXIT = IF held THEN s.qswu.EXIT
                               ELSE s.qswu.EXIT \union s.qswu.BLOCKX
      BY <2>3, ReleasedExit
    <3>2. NowFree(r, Released(d, s))
      BY <2>1, <2>2, <2>3, <3>1 DEF NowFree
    <3>. QED  BY <2>1, <3>2
  <2>4. CASE d = "entry"
    <3>1. LET e == Released("entry", s)
              held == "ENTRY_SUSPENDED" \in s.status
          IN  /\ e.level = s.level /\ e.quad = s.quad /\ e.cack = s.cack
              /\ e.core.PIGX = s.core.PIGX /\ e.core.BLOCKX = s.core.BLOCKX
              /\ e.qswu.EXIT = s.qswu.EXIT /\ e.qswu.BLOCKX = s.qswu.BLOCKX
              /\ e.core.BLOCKE = {}
              /\ e.core.PIGE = IF held THEN s.core.PIGE
                               ELSE s.core.PIGE \union s.core.BLOCKE
      BY <2>4, ReleasedEntry
    <3>2. NowFree(r, Released(d, s))
      BY <2>1, <2>2, <2>4, <3>1 DEF NowFree
    <3>. QED  BY <2>1, <3>2
  <2>. QED  BY <2>3, <2>4, SgpeAssumption
<1>. HIDE DEF G
<1>3. Unblocked(r) \in G
  BY <1>1, <1>2, UnblockedIn
<1>. QED  BY <1>3 DEF G

LEMMA AcknowledgedIs ==
    ASSUME NEW r \in Records, NEW c \in Cores, NEW what
    PROVE  LET e == Acknowledged(r, c, what)
               s == [r EXCEPT !.cack = @ \union {c}]
           IN  /\ s \in Records /\ NowFree(s, e)
               /\ e.cack = r.cack \union {c}
               /\ ~(what = "ack_unblock" /\ r.cack \union {c} = r.creq)
                       => e.core = r.core /\ e.qswu = r.qswu
<1>. DEFINE s == [r EXCEPT !.cack = @ \union {c}]
<1>1. s \in Records
  BY DEF Records
<1>2. /\ s.cack = r.cack \union {c} /\ s.creq = r.creq
      /\ s.core = r.core /\ s.qswu = r.qswu
  BY DEF Records
<1>3. Acknowledged(r, c, what) =
          IF what = "ack_unblock" /\ s.cack = s.creq THEN Unblocked(s) ELSE s
  BY DEF Acknowledged
<1>. HIDE DEF s
<1>4. NowFree(s, Unblocked(s)) /\ NowFree(s, s)
  BY <1>1, UnblockedIs DEF NowFree
<1>. QED  BY <1>1, <1>2, <1>3, <1>4 DEF NowFree, s

-----------------------------------------------------------------------------
(* All that the packets cs of type t can have done to the record.          *)
Exits(t, cs) ==
    {c \in cs : payload[t][c] \in {"hw_wakeup", "dec_wakeup"}
                /\ ~Late(c, payload[t][c])}
    \union {x \in rec.core.RCLKX : \E c \in cs :
                payload[t][c] = "exit_rclk" /\ QuadOf(x) = QuadOf(c)}
Stops(t, cs) == {c \in cs : payload[t][c] \in {"stop5", "stop11"}}
Frees(t, cs) == \E c \in cs \intersect rec.creq : payload[t][c] = "ack_unblock"
Clocked(t, cs, what) ==
    {q \in Quads : \E c \in cs : payload[t][c] = what /\ QuadOf(c) = q}

ParsesClocks(t, cs, r) ==
    /\ \A x \in Cores : r.level[x] = 11 =>
           \/ rec.level[x] = 11
           \/ x \in cs /\ payload[t][x] \in {"stop11", "entry_rclk"}
    /\ r.quad.RCLK_REQ \subseteq rec.quad.RCLK_REQ
    /\ rec.quad.RCLK_REQ \subseteq r.quad.RCLK_REQ \union Clocked(t, cs, "entry_rclk")
    /\ r.quad.RCLKX \subseteq rec.quad.RCLKX
    /\ rec.quad.RCLKX \subseteq r.quad.RCLKX \union Clocked(t, cs, "exit_rclk")
    /\ r.quad.RCLK_DONE \subseteq rec.quad.RCLK_DONE \union Clocked(t, cs, "entry_rclk")
ParsesBlocked(t, cs, r) ==
    /\ r.qswu.BLOCKX \subseteq rec.qswu.BLOCKX
    /\ r.qswu.EXIT \subseteq rec.qswu.EXIT \union rec.qswu.BLOCKX
    /\ \A x \in r.core.BLOCKX :
           \/ x \in rec.core.BLOCKX
           \/ x \in Exits(t, cs) /\ QuadOf(x) \in rec.quad.BLOCKX
    /\ \A x \in r.core.BLOCKE :
           \/ x \in rec.core.BLOCKE
           \/ x \in Stops(t, cs) /\ QuadOf(x) \in rec.quad.BLOCKE
ParsesWanted(t, cs, r) ==
    /\ \A x \in r.core.PIGX :
           \/ x \in Exits(t, cs)
           \/ x \in rec.core.BLOCKX /\ Frees(t, cs)
    /\ \A x \in r.core.PIGE :
           \/ x \in Stops(t, cs)
           \/ x \in rec.core.BLOCKE /\ Frees(t, cs)
    /\ "EXIT_SUSPENDED" \in rec.status => r.core.PIGX = {}
    /\ "ENTRY_SUSPENDED" \in rec.status => r.core.PIGE = {}
Parses(t, cs, r) ==
    /\ SameFrame(rec, r)
    /\ ParsesClocks(t, cs, r) /\ ParsesBlocked(t, cs, r) /\ ParsesWanted(t, cs, r)

LEMMA FrameChain ==
    ASSUME NEW r, NEW s, NEW e, SameFrame(r, s), SameFrame(s, e)
    PROVE  SameFrame(r, e)
BY DEF SameFrame

LEMMA FrameIs ==
    ASSUME NEW r, NEW s, SameFrame(r, s)
    PROVE  /\ s.act = r.act /\ s.status = r.status /\ s.creq = r.creq
           /\ s.core.EXIT = r.core.EXIT /\ s.core.ACTIVE = r.core.ACTIVE
           /\ s.core.RCLKE = r.core.RCLKE /\ s.core.RCLKX = r.core.RCLKX
           /\ s.quad.BLOCKX = r.quad.BLOCKX /\ s.quad.BLOCKE = r.quad.BLOCKE
           /\ s.quad.ENTRY = r.quad.ENTRY /\ s.quad.EXIT = r.quad.EXIT
           /\ s.quad.ACTIVE = r.quad.ACTIVE
BY DEF SameFrame, KeptCore, KeptQuad, QuadVectors

LEMMA PacketParses ==
    ASSUME TypeInv, NEW t \in CoreTypes, NEW cs \in SUBSET Cores, NEW c \in cs,
           payload[t][c] # "none",
           NEW r \in Records, Parses(t, cs, r)
    PROVE  Parses(t, cs, Packet(t, c, r))
<1>. DEFINE what == payload[t][c]
            q == QuadOf(c)
            e == Packet(t, c, r)
<1>1. c \in Cores /\ q \in Quads /\ c \in CoresOf(q)
  BY CoresOfQuads
<1>2. what \in Payloads \ {"none"}
  BY <1>1 DEF TypeInv, TypesOfPackets
<1>3. SameFrame(rec, e)
  <2>1. SameFrame(r, e)
    BY <1>1, PacketFrame
  <2>2. SameFrame(rec, r)
    BY DEF Parses
  <2>. HIDE DEF e
  <2>. QED  BY <2>1, <2>2, FrameChain
<1>4. /\ r.status = rec.status /\ r.creq = rec.creq
      /\ r.core.RCLKX = rec.core.RCLKX
      /\ r.quad.BLOCKX = rec.quad.BLOCKX /\ r.quad.BLOCKE = rec.quad.BLOCKE
  BY FrameIs DEF Parses
<1>0. ParsesClocks(t, cs, r) /\ ParsesBlocked(t, cs, r) /\ ParsesWanted(t, cs, r)
  BY DEF Parses
<1>9. /\ what = "ack_suspend" => e = r
      /\ what \in {"ack_block", "ack_unblock"} => e = Acknowledged(r, c, what)
      /\ what \in ExitEvents => e = IF Late(c, what) THEN r
                                    ELSE ExitPacket(r, c, what)
      /\ what \in {"stop5", "stop11", "entry_rclk"} => e = EntryPacket(r, c, what)
  <2>1. e = CASE what = "ack_suspend" -> r
          [] what \in Acks \ {"ack_suspend"} -> Acknowledged(r, c, what)
          [] Late(c, what) -> r
          [] what \in ExitEvents /\ ~Late(c, what) -> ExitPacket(r, c, what)
          [] OTHER -> EntryPacket(r, c, what)
    BY DEF Packet
  <2>2. Late(c, what) => what = "dec_wakeup"
    BY DEF Late
  <2>. HIDE DEF e, what
  <2>. QED  BY <2>1, <2>2 DEF Acks, ExitEvents
<1>. SUFFICES Parses(t, cs, e)
  OBVIOUS
<1>. HIDE DEF e
<1>5. CASE what = "ack_suspend" \/ Late(c, what)
  <2>1. e = r
    BY <1>5, <1>9 DEF Late, ExitEvents
  <2>. QED  BY <2>1
<1>6. CASE what \in {"ack_block", "ack_unblock"}
  <2>1. e = Acknowledged(r, c, what)
    BY <1>6, <1>9
  <2>. DEFINE s == [r EXCEPT !.cack = @ \union {c}]
  <2>2. /\ s \in Records /\ NowFree(s, e)
        /\ ~(what = "ack_unblock" /\ r.cack \union {c} = r.creq)
                  => e.core = r.core /\ e.qswu = r.qswu
    BY <1>1, <2>1, AcknowledgedIs
  <2>3. /\ s.level = r.level /\ s.quad = r.quad /\ s.qswu = r.qswu
        /\ s.core = r.core /\ s.status = r.status
    BY DEF Records
  <2>. HIDE DEF s
  <2>4. what = "ack_unblock" /\ r.cack \union {c} = r.creq => Frees(t, cs)
    <3>1. SUFFICES ASSUME what = "ack_unblock", r.cack \union {c} = r.creq
          PROVE  Frees(t, cs)
      OBVIOUS
    <3>2. c \in cs \intersect rec.creq
      BY <1>4, <3>1
    <3>. QED  BY <3>1, <3>2 DEF Frees
  <2>. HIDE DEF what
  <2>5. /\ e.level = r.level /\ e.quad = r.quad
        /\ e.core.BLOCKX \subseteq r.core.BLOCKX
        /\ e.core.BLOCKE \subseteq r.core.BLOCKE
        /\ e.qswu.BLOCKX \subseteq r.qswu.BLOCKX
        /\ e.qswu.EXIT \subseteq r.qswu.EXIT \union r.qswu.BLOCKX
        /\ \/ e.core.PIGX \subseteq r.core.PIGX
           \/ Frees(t, cs) /\ e.core.PIGX \subseteq r.core.PIGX \union r.core.BLOCKX
        /\ \/ e.core.PIGE \subseteq r.core.PIGE
           \/ Frees(t, cs) /\ e.core.PIGE \subseteq r.core.PIGE \union r.core.BLOCKE
        /\ "EXIT_SUSPENDED" \in r.status => e.core.PIGX = r.core.PIGX
        /\ "ENTRY_SUSPENDED" \in r.status => e.core.PIGE = r.core.PIGE
    BY <2>2, <2>3, <2>4 DEF NowFree
  <2>6. ParsesClocks(t, cs, e)
    BY <1>0, <1>4, <2>5 DEF ParsesClocks
  <2>7. ParsesBlocked(t, cs, e)
    BY <1>0, <1>4, <2>5 DEF ParsesBlocked
  <2>8. ParsesWanted(t, cs, e)
    BY <1>0, <1>4, <2>5 DEF ParsesWanted, ParsesBlocked
  <2>. QED  BY <1>3, <2>6, <2>7, <2>8 DEF Parses
<1>7. CASE what \in ExitEvents /\ ~Late(c, what)
  <2>. DEFINE xs == IF what = "exit_rclk" THEN r.core.RCLKX \intersect CoresOf(q)
                                          ELSE {c}
  <2>1. e = ExitPacket(r, c, what)
    BY <1>7, <1>9
  <2>2. /\ e.level = r.level /\ e.qswu = r.qswu
        /\ e.quad.RCLK_REQ = r.quad.RCLK_REQ
        /\ e.quad.RCLK_DONE = r.quad.RCLK_DONE
        /\ e.quad.RCLKX = IF what = "exit_rclk" THEN r.quad.RCLKX \ {q}
                                                ELSE r.quad.RCLKX
        /\ e.core.PIGE = r.core.PIGE /\ e.core.BLOCKE = r.core.BLOCKE
        /\ e.core.PIGX = IF /\ "EXIT_SUSPENDED" \notin r.status
                            /\ q \notin r.quad.BLOCKX
                         THEN r.core.PIGX \union xs ELSE r.core.PIGX
        /\ e.core.BLOCKX = IF q \in r.quad.BLOCKX
                           THEN r.core.BLOCKX \union xs ELSE r.core.BLOCKX
    <3>1. c \in Cores /\ what \in Payloads
      BY <1>1, <1>2
    <3>. HIDE DEF what
    <3>2. AfterExit(r, c, what, ExitPacket(r, c, what))
      BY <3>1, ExitPacketIs
    <3>. QED  BY <2>1, <3>2 DEF AfterExit
  <2>3. \A x \in xs : x \in Exits(t, cs) /\ QuadOf(x) = q
    <3>1. CASE what = "exit_rclk"
      BY <1>1, <1>4, <3>1, CoresOfQuads DEF Exits
    <3>2. CASE what # "exit_rclk"
      BY <1>7, <3>2 DEF Exits, ExitEvents
    <3>. QED  BY <3>1, <3>2
  <2>4. what = "exit_rclk" => q \in Clocked(t, cs, "exit_rclk")
    BY <1>1 DEF Clocked
  <2>. HIDE DEF xs, what
  <2>6. ParsesClocks(t, cs, e)
    BY <1>0, <1>4, <2>2, <2>3, <2>4 DEF ParsesClocks
  <2>7. ParsesBlocked(t, cs, e)
    BY <1>0, <1>4, <2>2, <2>3, <2>4 DEF ParsesBlocked
  <2>8. ParsesWanted(t, cs, e)
    BY <1>0, <1>4, <2>2, <2>3, <2>4 DEF ParsesWanted
  <2>. QED  BY <1>3, <2>6, <2>7, <2>8 DEF Parses
<1>8. CASE what \in {"stop5", "stop11", "entry_rclk"}
  <2>1. e = EntryPacket(r, c, what)
    BY <1>8, <1>9
  <2>2. /\ e.level = [r.level EXCEPT ![c] = IF what = "stop5" THEN 5 ELSE 11]
        /\ e.qswu = r.qswu
        /\ e.quad.RCLKX = r.quad.RCLKX
        /\ e.quad.RCLK_REQ = IF what = "entry_rclk" THEN r.quad.RCLK_REQ \ {q}
                                                    ELSE r.quad.RCLK_REQ
        /\ e.quad.RCLK_DONE = IF what = "entry_rclk" THEN r.quad.RCLK_DONE \union {q}
                                                     ELSE r.quad.RCLK_DONE
        /\ e.core.PIGX = r.core.PIGX /\ e.core.BLOCKX = r.core.BLOCKX
        /\ e.core.PIGE = IF /\ what # "entry_rclk"
                            /\ "ENTRY_SUSPENDED" \notin r.status
                            /\ q \notin r.quad.BLOCKE
                         THEN r.core.PIGE \union {c} ELSE r.core.PIGE
        /\ e.core.BLOCKE = IF what # "entry_rclk" /\ q \in r.quad.BLOCKE
                           THEN r.core.BLOCKE \union {c} ELSE r.core.BLOCKE
    <3>1. c \in Cores /\ what \in Payloads
      BY <1>1, <1>2
    <3>. HIDE DEF what
    <3>2. AfterEntry(r, c, what, EntryPacket(r, c, what))
      BY <3>1, EntryPacketIs
    <3>. QED  BY <2>1, <3>2 DEF AfterEntry
  <2>3. what # "entry_rclk" => c \in Stops(t, cs)
    BY <1>8 DEF Stops
  <2>4. what = "entry_rclk" => q \in Clocked(t, cs, "entry_rclk")
    BY <1>1 DEF Clocked
  <2>5. \A x \in Cores : e.level[x] = 11 =>
            \/ r.level[x] = 11
            \/ x \in cs /\ payload[t][x] \in {"stop11", "entry_rclk"}
    BY <1>1, <1>8, <2>2 DEF Records
  <2>. HIDE DEF what
  <2>6. ParsesClocks(t, cs, e)
    BY <1>0, <1>4, <2>2, <2>4, <2>5 DEF ParsesClocks
  <2>7. ParsesBlocked(t, cs, e)
    BY <1>0, <1>4, <2>2, <2>3 DEF ParsesBlocked
  <2>8. ParsesWanted(t, cs, e)
    BY <1>0, <1>4, <2>2, <2>3 DEF ParsesWanted, ParsesBlocked
  <2>. QED  BY <1>3, <2>6, <2>7, <2>8 DEF Parses
<1>. QED  BY <1>2, <1>5, <1>6, <1>7, <1>8 DEF Payloads, ExitEvents, Acks

LEMMA ParsedIs ==
    ASSUME TypeInv, NEW t \in CoreTypes, NEW cs \in SUBSET Cores,
           \A c \in cs : payload[t][c] # "none"
    PROVE  Parsed(t, cs) \in Records /\ Parses(t, cs, Parsed(t, cs))
<1>. DEFINE G == {r \in Records : Parses(t, cs, r)}
            r0 == [rec EXCEPT !.core.PIGE = {}, !.core.PIGX = {}]
            c1 == [rec.core EXCEPT !.PIGE = {}, !.PIGX = {}]
<1>0. rec \in Records
  BY DEF TypeInv
<1>1. IsFiniteSet(cs)
  BY SgpeAssumption, FS_Subset
<1>2. r0 \in Records /\ r0 = [rec EXCEPT !.core = c1]
  BY <1>0 DEF Records, CoreVectors
<1>3. /\ \A v \in CoreVectors \ {"PIGE", "PIGX"} : c1[v] = rec.core[v]
      /\ c1.PIGE = {} /\ c1.PIGX = {}
  BY <1>0 DEF Records, CoreVectors
<1>. HIDE DEF c1, r0
<1>4. /\ r0.core = c1 /\ r0.level = rec.level /\ r0.act = rec.act
      /\ r0.quad = rec.quad /\ r0.qswu = rec.qswu /\ r0.status = rec.status
      /\ r0.creq = rec.creq /\ r0.entry_pending = rec.entry_pending
  BY <1>0, <1>2 DEF Records
<1>5. Parses(t, cs, r0)
  <2>1. SameFrame(rec, r0)
    BY <1>3, <1>4 DEF SameFrame, KeptCore, CoreVectors
  <2>2. /\ r0.core.PIGX = {} /\ r0.core.PIGE = {}
        /\ r0.core.BLOCKX = rec.core.BLOCKX /\ r0.core.BLOCKE = rec.core.BLOCKE
    BY <1>3, <1>4 DEF CoreVectors
  <2>3. ParsesClocks(t, cs, r0)
    BY <1>4 DEF ParsesClocks
  <2>4. ParsesBlocked(t, cs, r0) /\ ParsesWanted(t, cs, r0)
    BY <1>4, <2>2 DEF ParsesBlocked, ParsesWanted
  <2>. QED  BY <2>1, <2>3, <2>4 DEF Parses
<1>6. \A c \in cs : \A r \in G : Packet(t, c, r) \in G
  BY PacketParses, PacketType
<1>7. r0 \in G
  BY <1>2, <1>5
<1>. HIDE DEF G
<1>8. Parsed(t, cs) \in G
  BY <1>1, <1>6, <1>7, ParsedIn DEF r0
<1>. QED  BY <1>8 DEF G

-----------------------------------------------------------------------------
(* The partners and the suspension.  Where a core or a quad is on its way  *)
(* into STOP11 and back, in one predicate per record or packet that tells  *)
(* of it.                                                                  *)

(* The windows in which the SGPE and its partners do disagree, and two     *)
(* blocked quads that are unblocked together, are left out.                *)
Regime ==
    /\ Windows \intersect {"special_entry", "starved"} = {}
    /\ "exit" \in BlockWhat =>
           /\ Special \intersect BlockQuads = {}
           /\ \A p, q \in BlockQuads : p = q

In11(c) == c \in wns /\ type[c] = "TYPE3"
AllIn11(q) == \A c \in CoresOf(q) : In11(c)
Seen(t) == IF handler.at = t THEN handler.set ELSE {}
Waiting(t) == pend[t] \union Seen(t)
ExitBlocked == IF "exit" \in BlockWhat THEN BlockQuads ELSE {}
Entering == job.thread = "entry" /\ job.at \in {"purge", "quads"}
EntryLeft == IF job.at = "purge" THEN rec.quad.ENTRY ELSE job.left
Exiting == job.thread = "exit" /\ job.at \in {"express", "quads"}
ExitWorks == job.thread = "exit" /\ job.at \in {"posted", "select", "express", "quads"}

CoresAre ==
    /\ running \intersect wns = {}
    /\ \A c \in notified : type[c] = "TYPE2"
    /\ rec.core.PIGX = {} /\ rec.core.PIGE = {}
    /\ pgpe.cores = rec.core.ACTIVE

(* The packets of each type, and of which cores.                           *)
PayloadKinds ==
    /\ \A c \in Cores : payload.TYPE0[c] \in {"none", "entry_rclk", "exit_rclk"}
    /\ \A c \in Cores : payload.TYPE2[c] \in {"none", "stop5", "hw_wakeup", "dec_wakeup"}
    /\ \A c \in Cores : payload.TYPE3[c] \in {"none", "stop11", "hw_wakeup"} \union Acks
Packets2 == \A c \in Waiting("TYPE2") :
    /\ payload.TYPE2[c] # "none"
    /\ payload.TYPE2[c] # "dec_wakeup" => c \in wns /\ type[c] = "TYPE2"
    /\ In11(c) => c \in pend.TYPE3
Packets3 == \A c \in Waiting("TYPE3") :
    /\ payload.TYPE3[c] # "none"
    /\ payload.TYPE3[c] \in {"stop11", "hw_wakeup"} => In11(c)
NotStale == "TYPE2" \in override /\ "TYPE3" \notin override =>
    \A c \in pend.TYPE2 : ~In11(c)
Handed == handler.at = "handoff" =>
    \A c \in handler.set : c \in wns /\ type[c] = "TYPE2"

Deep == \A c \in Cores : rec.level[c] = 11 => In11(c)
QuadsAre ==
    /\ rec.quad.ACTIVE = powered
    /\ \A q \in Quads : (rec.act[q] = 0) <=> (q \in powered)
    /\ \A q \in Quads \ powered : AllIn11(q)

(* The resonant clock is turned off for whole quads of cores in STOP11,    *)
(* and no core of them is exiting meanwhile.                               *)
ClocksAre ==
    /\ \A q \in Quads : \/ CoresOf(q) \subseteq rec.core.RCLKE
                        \/ CoresOf(q) \intersect rec.core.RCLKE = {}
    /\ \A c \in rec.core.RCLKE : In11(c) /\ QuadOf(c) \in powered
    /\ \A q \in rec.quad.RCLK_REQ : CoresOf(q) \subseteq rec.core.RCLKE
    /\ \A q \in rec.quad.RCLKX : /\ q \in powered /\ AllIn11(q)
                                 /\ CoresOf(q) \intersect rec.core.RCLKE = {}
    /\ Seen("TYPE3") \intersect rec.core.RCLKE = {}
ExitsClocked == ExitWorks => rec.core.EXIT \intersect rec.core.RCLKE = {}

(* The request to turn the clock off or on is in one place: a doorbell of  *)
(* the first core or its answer.                                           *)
ClockMessage(c) ==
    /\ db2[c] = "RESONANT_CLOCK_DISABLE" => QuadOf(c) \in rec.quad.RCLK_REQ
    /\ db2[c] = "RESONANT_CLOCK_ENABLE" => QuadOf(c) \in rec.quad.RCLKX
    /\ c \in Waiting("TYPE0") =>
           /\ \/ payload.TYPE0[c] = "entry_rclk" /\ QuadOf(c) \in rec.quad.RCLK_REQ \ rclk
              \/ payload.TYPE0[c] = "exit_rclk" /\ QuadOf(c) \in rec.quad.RCLKX \intersect rclk
           /\ db2[c] \in {"none", "DECREMENTER_WAKEUP"}
           /\ c = First(QuadOf(c))
           /\ ~(c \in pend.TYPE0 /\ c \in Seen("TYPE0"))
    /\ c # First(QuadOf(c)) => db2[c] \in {"none", "DECREMENTER_WAKEUP"}
ClockMessages == \A c \in Cores : ClockMessage(c)
ClocksDone == \A q \in rec.quad.RCLK_DONE :
    q \notin rclk /\ CoresOf(q) \subseteq rec.core.RCLKE
RclkOff == \A q \in Quads \ rclk :
    /\ AllIn11(q)
    /\ q \in powered => \/ q \in rec.quad.RCLKX
                        \/ CoresOf(q) \subseteq rec.core.RCLKE
                        \/ Entering /\ q \in rec.quad.ENTRY

SpecialsAre ==
    /\ rec.qswu.EXIT = {} /\ rec.qswu.BLOCKX = {}
    /\ \A q \in Waiting("TYPE6") : payload.TYPE6[q] = "exit" =>
           /\ q \in Special /\ q \in powered
           /\ Entering /\ q \in EntryLeft => job.at = "purge" /\ q \in job.left
BlocksAre ==
    /\ rec.quad.BLOCKX \subseteq ExitBlocked
    /\ \A c \in rec.core.BLOCKX : QuadOf(c) \in ExitBlocked
    /\ \A c \in rec.creq : QuadOf(c) \in BlockQuads

(* What the threads have still to do.                                      *)
Places == {"idle", "posted", "select", "express", "quads", "purge", "end",
           "closing", "suspending"}
JobIs == job.at \in Places /\ (job.thread = "none" => job.at = "idle")
EntryJob == Entering =>
    /\ job.left \subseteq rec.quad.ENTRY
    /\ \A q \in EntryLeft : /\ q \in powered /\ AllIn11(q)
                            /\ q \notin rec.quad.RCLKX /\ q \notin rclk
                            /\ CoresOf(q) \intersect rec.core.RCLKE = {}
    /\ job.at = "quads" => (rec.quad.ENTRY \ job.left) \intersect powered = {}
ExitJob == Exiting =>
    /\ job.left \intersect powered = {} /\ job.left \subseteq rec.quad.EXIT
    /\ rec.quad.EXIT \ job.left \subseteq powered
    /\ \A q \in job.left : \E c \in CoresOf(q) : c \in rec.core.EXIT
    /\ job.at = "express" =>
           \A c \in rec.core.EXIT : QuadOf(c) \in powered \union rec.quad.EXIT
PgpeQuads == pgpe.quads = rec.quad.ACTIVE \union
    (IF Exiting THEN rec.quad.EXIT
     ELSE IF job.thread = "entry" /\ job.at = "quads" THEN rec.quad.ENTRY ELSE {})
Sound == panic \notin {"BAD_QUAD_LIST", "PHANTOM", "RESCLK_ON"}

PartnersInv ==
    /\ CoresAre /\ PayloadKinds /\ Packets2 /\ Packets3 /\ NotStale /\ Handed
    /\ Deep /\ QuadsAre /\ ClocksAre /\ ExitsClocked /\ ClockMessages /\ RclkOff
    /\ ClocksDone /\ SpecialsAre /\ BlocksAre /\ JobIs /\ EntryJob /\ ExitJob /\ PgpeQuads
    /\ Sound

-----------------------------------------------------------------------------
(* What leaves each of them alone.                                         *)
CoresStay == running' = running /\ wns' = wns /\ type' = type
In11Grows == \A c \in Cores : In11(c) => In11(c)'
ClocksStay ==
    /\ rec'.core.RCLKE = rec.core.RCLKE
    /\ rec'.quad.RCLK_REQ = rec.quad.RCLK_REQ /\ rec'.quad.RCLKX = rec.quad.RCLKX
    /\ rec'.quad.RCLK_DONE = rec.quad.RCLK_DONE
PacketsStay == UNCHANGED <<pend, payload, handler>>
ListsStay ==
    /\ rec'.core.PIGX = rec.core.PIGX /\ rec'.core.PIGE = rec.core.PIGE
    /\ rec'.core.ACTIVE = rec.core.ACTIVE /\ pgpe'.cores = pgpe.cores
QuadsStay ==
    /\ rec'.quad.ACTIVE = rec.quad.ACTIVE /\ rec'.act = rec.act
    /\ powered' = powered
JobStays ==
    /\ job' = job /\ rec'.quad.ENTRY = rec.quad.ENTRY
    /\ rec'.quad.EXIT = rec.quad.EXIT /\ rec'.core.EXIT = rec.core.EXIT
BlocksStay ==
    /\ rec'.quad.BLOCKX = rec.quad.BLOCKX /\ rec'.core.BLOCKX = rec.core.BLOCKX
    /\ rec'.creq = rec.creq
SpecialsStay == rec'.qswu.EXIT = rec.qswu.EXIT /\ rec'.qswu.BLOCKX = rec.qswu.BLOCKX

LEMMA CoresGrow == CoresStay => In11Grows
BY DEF CoresStay, In11Grows, In11

LEMMA In11OfQuad ==
    ASSUME In11Grows
    PROVE  \A q \in Quads : AllIn11(q) => AllIn11(q)'
BY CoresOfQuads DEF In11Grows, AllIn11

LEMMA PartnersStay ==
    ASSUME PartnersInv, TypeInv
    PROVE  /\ CoresStay /\ ListsStay /\ notified' \subseteq notified => CoresAre'
           /\ payload' = payload => PayloadKinds'
           /\ CoresStay /\ PacketsStay => Packets2' /\ Packets3' /\ Handed'
           /\ CoresStay /\ pend' = pend /\ override' = override => NotStale'
           /\ In11Grows /\ rec'.level = rec.level => Deep'
           /\ In11Grows /\ QuadsStay => QuadsAre'
           /\ In11Grows /\ ClocksStay /\ powered' = powered /\ handler' = handler
                  => ClocksAre'
           /\ ClocksStay /\ JobStays => ExitsClocked'
           /\ ClocksStay /\ PacketsStay /\ db2' = db2 /\ rclk' = rclk => ClockMessages'
           /\ In11Grows /\ ClocksStay /\ JobStays /\ powered' = powered /\ rclk' = rclk
                  => RclkOff'
           /\ ClocksStay /\ rclk' = rclk => ClocksDone'
           /\ SpecialsStay /\ PacketsStay /\ JobStays /\ powered' = powered
                  => SpecialsAre'
           /\ BlocksStay => BlocksAre'
           /\ job' = job => JobIs'
           /\ In11Grows /\ ClocksStay /\ JobStays /\ powered' = powered /\ rclk' = rclk
                  => EntryJob'
           /\ JobStays /\ powered' = powered => ExitJob'
           /\ JobStays /\ pgpe'.quads = pgpe.quads
              /\ rec'.quad.ACTIVE = rec.quad.ACTIVE => PgpeQuads'
           /\ panic' = panic => Sound'
<1>. USE DEF PartnersInv
<1>1. CoresStay /\ ListsStay /\ notified' \subseteq notified => CoresAre'
  BY DEF CoresStay, ListsStay, CoresAre
<1>2. payload' = payload => PayloadKinds'
  BY DEF PayloadKinds
<1>3. CoresStay /\ PacketsStay => Packets2' /\ Packets3' /\ Handed'
  BY DEF CoresStay, PacketsStay, Packets2, Packets3, Handed, Waiting, Seen, In11
<1>4. CoresStay /\ pend' = pend /\ override' = override => NotStale'
  BY DEF CoresStay, NotStale, In11
<1>5. In11Grows /\ rec'.level = rec.level => Deep'
  BY DEF In11Grows, Deep
<1>6. In11Grows /\ QuadsStay => QuadsAre'
  BY In11OfQuad DEF QuadsStay, QuadsAre
<1>7. In11Grows /\ ClocksStay /\ powered' = powered /\ handler' = handler
          => ClocksAre'
  BY In11OfQuad DEF TypeInv, Records, CoreVectors, QuadVectors, In11Grows, ClocksStay,
     ClocksAre, Seen
<1>8. ClocksStay /\ JobStays => ExitsClocked'
  BY DEF ClocksStay, JobStays, ExitsClocked, ExitWorks
<1>9. ClocksStay /\ PacketsStay /\ db2' = db2 /\ rclk' = rclk => ClockMessages'
  BY DEF ClocksStay, PacketsStay, ClockMessages, ClockMessage, Waiting, Seen
<1>10. In11Grows /\ ClocksStay /\ JobStays /\ powered' = powered /\ rclk' = rclk
          => RclkOff'
  BY In11OfQuad DEF ClocksStay, JobStays, RclkOff, Entering
<1>11. SpecialsStay /\ PacketsStay /\ JobStays /\ powered' = powered
          => SpecialsAre'
  BY DEF SpecialsStay, PacketsStay, JobStays, SpecialsAre, Waiting, Seen,
         Entering, EntryLeft
<1>12. BlocksStay => BlocksAre'
  BY DEF BlocksStay, BlocksAre
<1>13. job' = job => JobIs'
  BY DEF JobIs
<1>14. In11Grows /\ ClocksStay /\ JobStays /\ powered' = powered /\ rclk' = rclk
          => EntryJob'
  <2>1. Entering => EntryLeft \subseteq Quads
    BY DEF Entering, EntryLeft, TypeInv, TypesOfJob, Records, QuadVectors
  <2>. QED  BY <2>1, In11OfQuad DEF ClocksStay, JobStays, EntryJob, Entering, EntryLeft
<1>15. JobStays /\ powered' = powered => ExitJob'
  BY DEF JobStays, ExitJob, Exiting
<1>16. JobStays /\ pgpe'.quads = pgpe.quads
       /\ rec'.quad.ACTIVE = rec.quad.ACTIVE => PgpeQuads'
  BY DEF JobStays, PgpeQuads, Exiting
<1>17. panic' = panic => Sound'
  BY DEF Sound
<1>18. ClocksStay /\ rclk' = rclk => ClocksDone'
  BY DEF ClocksStay, ClocksDone
<1>. QED  BY <1>1, <1>2, <1>3, <1>4, <1>5, <1>6, <1>7, <1>8, <1>9, <1>10, <1>11,
             <1>12, <1>13, <1>14, <1>15, <1>16, <1>17, <1>18

(* With the record as it was only the cores, the packets and the doorbells *)
(* remain.                                                                 *)
LEMMA RecordStays ==
    ASSUME rec' = rec
    PROVE  /\ ClocksStay /\ SpecialsStay /\ BlocksStay
           /\ job' = job => JobStays
           /\ pgpe' = pgpe => ListsStay
           /\ powered' = powered => QuadsStay
BY DEF ClocksStay, SpecialsStay, BlocksStay, JobStays, ListsStay, QuadsStay

-----------------------------------------------------------------------------
(* What a packet changes.                                                  *)
Sent(t, c, what) ==
    /\ pend'[t] = pend[t] \union {c}
    /\ \A u \in StopTypes \ {t} : pend'[u] = pend[u]
    /\ payload'[t] = [payload[t] EXCEPT ![c] = what]
    /\ \A x \in Cores : payload'[t][x] = IF x = c THEN what ELSE payload[t][x]
    /\ \A u \in StopTypes \ {t} : payload'[u] = payload[u]

LEMMA SendIs ==
    ASSUME TypeInv, NEW t \in CoreTypes, NEW c \in Cores,
           NEW what \in Payloads, Send(t, c, what)
    PROVE  Sent(t, c, what)
<1>1. /\ pend' = [pend EXCEPT ![t] = @ \union {c}]
      /\ payload' = [payload EXCEPT ![t][c] = what]
  BY DEF Send
<1>2. TypesOfPackets
  BY DEF TypeInv
<1>3. t \in StopTypes /\ CoreTypes \subseteq StopTypes
  BY DEF CoreTypes, StopTypes
<1>4. /\ pend'[t] = pend[t] \union {c}
      /\ \A u \in StopTypes \ {t} : pend'[u] = pend[u]
  BY <1>1, <1>2, <1>3 DEF TypesOfPackets
<1>5. /\ payload'[t] = [payload[t] EXCEPT ![c] = what]
      /\ \A u \in StopTypes \ {t} : payload'[u] = payload[u]
  BY <1>1, <1>2, <1>3 DEF TypesOfPackets
<1>6. payload[t] \in [Cores -> Payloads]
  BY <1>2 DEF TypesOfPackets
<1>. QED  BY <1>4, <1>5, <1>6 DEF Sent

(* A core or a CME that moves, and a packet of type 2 or 3.                *)
OthersStay ==
    /\ UNCHANGED <<rec, handler, job, powered, rclk, db2, panic, pgpe>>
    /\ pend'.TYPE0 = pend.TYPE0 /\ payload'.TYPE0 = payload.TYPE0
    /\ pend'.TYPE6 = pend.TYPE6 /\ payload'.TYPE6 = payload.TYPE6

LEMMA PartnersSend ==
    ASSUME PartnersInv, TypeInv, OthersStay, In11Grows,
           CoresAre', PayloadKinds', Packets2', Packets3', NotStale', Handed'
    PROVE  PartnersInv'
<1>. USE DEF OthersStay
<1>1. ClockMessages'
  BY DEF PartnersInv, ClockMessages, ClockMessage, Waiting, Seen
<1>2. SpecialsAre'
  BY DEF PartnersInv, SpecialsAre, Waiting, Seen, Entering, EntryLeft
<1>3. Deep' /\ QuadsAre' /\ ClocksAre' /\ ExitsClocked' /\ RclkOff' /\ BlocksAre'
      /\ ClocksDone' /\ JobIs' /\ EntryJob' /\ ExitJob' /\ PgpeQuads' /\ Sound'
  BY PartnersStay, RecordStays
<1>. QED  BY <1>1, <1>2, <1>3 DEF PartnersInv

LEMMA SendTells ==
    ASSUME TypeInv, NEW t \in {"TYPE2", "TYPE3"}, NEW c \in Cores, NEW what \in Payloads,
           Send(t, c, what), UNCHANGED <<rec, handler, job, powered, rclk, db2, panic, pgpe>>
    PROVE  OthersStay
<1>1. t \in CoreTypes /\ "TYPE0" \in StopTypes \ {t} /\ "TYPE6" \in StopTypes \ {t}
  BY DEF CoreTypes, StopTypes
<1>. QED  BY <1>1, SendIs DEF OthersStay, Sent

LEMMA PartnersCoreStops ==
    ASSUME Regime, TypeInv, PartnersInv, NEW q \in Quads, NEW c \in CoresOf(q),
           NEW level \in Levels, CoreStops(q, c, level)
    PROVE  PartnersInv'
<1>. DEFINE t == IF level = 11 THEN "TYPE3" ELSE "TYPE2"
            what == PacketOf(level)
<1>1. /\ c \in running /\ c \notin notified /\ c \notin wns /\ c \in Cores
      /\ running' = running \ {c} /\ wns' = wns \union {c}
      /\ type' = [type EXCEPT ![c] = t] /\ type \in [Cores -> {"TYPE2", "TYPE3"}]
      /\ notified' = notified /\ pgpe' = pgpe /\ rec' = rec /\ handler' = handler
      /\ override' = override
      /\ level = 5 \/ ~(c \in pend.TYPE2 /\ "TYPE2" \in override)
  BY CoresOfQuads DEF CoreStops, CmeFree, PartnersInv, CoresAre, TypeInv, TypesOfCores,
         irqVars, Regime
<1>2. level \in {5, 11} /\ t \in {"TYPE2", "TYPE3"} /\ t \in CoreTypes
      /\ what = (IF level = 11 THEN "stop11" ELSE "stop5") /\ what \in Payloads
  BY SgpeAssumption DEF CoreTypes, PacketOf, Payloads
<1>3. Send(t, c, what) /\ UNCHANGED <<rec, handler, job, powered, rclk, db2, panic, pgpe>>
  BY DEF CoreStops, cmeVars, threadVars
<1>4. OthersStay
  <2>. HIDE DEF t, what
  <2>. QED  BY <1>1, <1>2, <1>3, SendTells
<1>5. /\ pend'[t] = pend[t] \union {c}
      /\ \A u \in StopTypes \ {t} : pend'[u] = pend[u]
      /\ \A x \in Cores : payload'[t][x] = IF x = c THEN what ELSE payload[t][x]
      /\ \A u \in StopTypes \ {t} : payload'[u] = payload[u]
  <2>. HIDE DEF t, what
  <2>1. Sent(t, c, what)
    BY <1>1, <1>2, <1>3, SendIs
  <2>. QED  BY <2>1 DEF Sent
<1>6. /\ \A x \in Cores \ {c} : (In11(x) <=> In11(x)')
      /\ \A x \in wns : x # c /\ x \in wns' /\ type'[x] = type[x]
      /\ type'[c] = (IF level = 11 THEN "TYPE3" ELSE "TYPE2") /\ c \in wns' /\ (In11(c)' <=> level = 11)
      /\ ~In11(c)
      /\ \A x \in Cores \ {c} : (x \in wns <=> x \in wns') /\ type'[x] = type[x]
  BY <1>1, <1>2 DEF In11, TypeInv, TypesOfCores
<1>7. In11Grows
  BY <1>6 DEF In11Grows
<1>8. CoresAre'
  BY <1>1, <1>6 DEF TypeInv, TypesOfCores, PartnersInv, CoresAre
<1>9. /\ pend'.TYPE2 = IF level = 11 THEN pend.TYPE2 ELSE pend.TYPE2 \union {c}
      /\ pend'.TYPE3 = IF level = 11 THEN pend.TYPE3 \union {c} ELSE pend.TYPE3
      /\ \A x \in Cores : payload'.TYPE0[x] = payload.TYPE0[x]
      /\ \A x \in Cores : payload'.TYPE2[x] =
             IF level = 5 /\ x = c THEN "stop5" ELSE payload.TYPE2[x]
      /\ \A x \in Cores : payload'.TYPE3[x] =
             IF level = 11 /\ x = c THEN "stop11" ELSE payload.TYPE3[x]
  BY <1>2, <1>5, SMTT(60) DEF StopTypes
<1>10. PayloadKinds'
  BY <1>9 DEF PartnersInv, PayloadKinds
<1>. HIDE DEF t, what
<1>11. Seen("TYPE2")' = Seen("TYPE2") /\ Seen("TYPE3")' = Seen("TYPE3")
  BY <1>1 DEF Seen
<1>12. /\ Waiting("TYPE2")' = pend'.TYPE2 \union Seen("TYPE2")
       /\ Waiting("TYPE3")' = pend'.TYPE3 \union Seen("TYPE3")
  BY <1>11 DEF Waiting
<1>17. Waiting("TYPE2") \subseteq Cores /\ Waiting("TYPE3") \subseteq Cores
  BY DEF Waiting, Seen, TypeInv, TypesOfPackets, TypesOfHandler, CoreTypes
<1>13. Packets2'
  <2>. SUFFICES ASSUME NEW x \in Waiting("TYPE2")'
       PROVE  (/\ payload.TYPE2[x] # "none"
               /\ payload.TYPE2[x] # "dec_wakeup" => x \in wns /\ type[x] = "TYPE2"
               /\ In11(x) => x \in pend.TYPE3)'
    BY DEF Packets2
  <2>1. x \in Cores /\ (x \in Waiting("TYPE2") \/ (x = c /\ level = 5))
    BY <1>1, <1>2, <1>9, <1>12, <1>17 DEF Waiting
  <2>2. CASE x = c /\ level = 5
    BY <1>6, <1>9, <2>1, <2>2
  <2>3. CASE x = c /\ level = 11
    BY <1>1, <1>6, <1>9, <2>1, <2>3 DEF PartnersInv, Packets2
  <2>4. CASE x # c
    BY <1>6, <1>9, <2>1, <2>4 DEF PartnersInv, Packets2
  <2>. QED  BY <1>2, <2>2, <2>3, <2>4
<1>14. Packets3'
  <2>. SUFFICES ASSUME NEW x \in Waiting("TYPE3")'
       PROVE  (/\ payload.TYPE3[x] # "none"
               /\ payload.TYPE3[x] \in {"stop11", "hw_wakeup"} => In11(x))'
    BY DEF Packets3
  <2>1. x \in Cores /\ (x \in Waiting("TYPE3") \/ (x = c /\ level = 11))
    BY <1>1, <1>2, <1>9, <1>12, <1>17 DEF Waiting
  <2>2. CASE x = c /\ level = 11
    BY <1>6, <1>9, <2>1, <2>2
  <2>3. CASE x = c /\ level = 5
    BY <1>6, <1>9, <2>1, <2>3 DEF PartnersInv, Packets3
  <2>4. CASE x # c
    BY <1>6, <1>9, <2>1, <2>4 DEF PartnersInv, Packets3
  <2>. QED  BY <1>2, <2>2, <2>3, <2>4
<1>15. NotStale'
  <2>1. pend.TYPE2 \subseteq Cores
    BY DEF TypeInv, TypesOfPackets, CoreTypes
  <2>. QED  BY <1>1, <1>2, <1>6, <1>9, <2>1 DEF PartnersInv, NotStale
<1>16. Handed'
  BY <1>1, <1>6 DEF TypeInv, TypesOfHandler, PartnersInv, Handed
<1>. QED  BY <1>4, <1>7, <1>8, <1>10, <1>13, <1>14, <1>15, <1>16, PartnersSend

-----------------------------------------------------------------------------
(* No packet is sent, or one of types 2 and 3 of a core that is in the     *)
(* level of its type.                                                      *)
LEMMA PartnersQuiet ==
    ASSUME PartnersInv, TypeInv, wns' = wns, type' = type, CoresAre', NotStale',
           UNCHANGED <<rec, handler, job, powered, rclk, db2, panic, pgpe>>,
           UNCHANGED pigVars
    PROVE  PartnersInv'
<1>1. In11Grows /\ OthersStay
  BY DEF In11Grows, In11, OthersStay, pigVars
<1>2. PayloadKinds' /\ Packets2' /\ Packets3' /\ Handed'
  BY DEF PartnersInv, PayloadKinds, Packets2, Packets3, Handed, Waiting, Seen, In11, pigVars
<1>. QED  BY <1>1, <1>2, PartnersSend

LEMMA PartnersPacket ==
    ASSUME PartnersInv, TypeInv, wns' = wns, type' = type, CoresAre',
           UNCHANGED <<rec, handler, job, powered, rclk, db2, panic, pgpe, override>>,
           NEW t \in {"TYPE2", "TYPE3"}, NEW c \in Cores, NEW what \in Payloads,
           Send(t, c, what),
           t = "TYPE2" => /\ what \in {"hw_wakeup", "dec_wakeup"} /\ type[c] = "TYPE2"
                          /\ what = "hw_wakeup" => c \in wns,
           t = "TYPE3" => \/ what \in Acks
                          \/ what = "hw_wakeup" /\ In11(c)
    PROVE  PartnersInv'
<1>1. In11Grows /\ OthersStay
  BY SendTells DEF In11Grows, In11
<1>2. \A x : In11(x)' <=> In11(x)
  BY DEF In11
<1>3. Sent(t, c, what) /\ t \in CoreTypes
  BY SendIs DEF CoreTypes
<1>4. /\ pend'.TYPE2 = IF t = "TYPE2" THEN pend.TYPE2 \union {c} ELSE pend.TYPE2
      /\ pend'.TYPE3 = IF t = "TYPE3" THEN pend.TYPE3 \union {c} ELSE pend.TYPE3
      /\ \A x \in Cores : payload'.TYPE0[x] = payload.TYPE0[x]
      /\ \A x \in Cores : payload'.TYPE2[x] =
             IF t = "TYPE2" /\ x = c THEN what ELSE payload.TYPE2[x]
      /\ \A x \in Cores : payload'.TYPE3[x] =
             IF t = "TYPE3" /\ x = c THEN what ELSE payload.TYPE3[x]
  BY <1>3 DEF StopTypes, Sent
<1>5. Waiting("TYPE2") \subseteq Cores /\ Waiting("TYPE3") \subseteq Cores
      /\ pend.TYPE2 \subseteq Cores
  BY DEF Waiting, Seen, TypeInv, TypesOfPackets, TypesOfHandler, CoreTypes
<1>6. /\ Waiting("TYPE2")' = pend'.TYPE2 \union Seen("TYPE2")
      /\ Waiting("TYPE3")' = pend'.TYPE3 \union Seen("TYPE3")
  BY DEF Waiting, Seen
<1>7. PayloadKinds'
  BY <1>4 DEF PartnersInv, PayloadKinds
<1>8. Packets2'
  <2>. SUFFICES ASSUME NEW x \in Waiting("TYPE2")'
       PROVE  (/\ payload.TYPE2[x] # "none"
               /\ payload.TYPE2[x] # "dec_wakeup" => x \in wns /\ type[x] = "TYPE2"
               /\ In11(x) => x \in pend.TYPE3)'
    BY DEF Packets2
  <2>1. x \in Cores /\ (x \in Waiting("TYPE2") \/ (x = c /\ t = "TYPE2"))
    BY <1>4, <1>5, <1>6 DEF Waiting
  <2>2. CASE x = c /\ t = "TYPE2"
    BY <1>2, <1>4, <2>1, <2>2 DEF In11
  <2>3. CASE ~(x = c /\ t = "TYPE2")
    BY <1>2, <1>4, <2>1, <2>3 DEF PartnersInv, Packets2
  <2>. QED  BY <2>2, <2>3
<1>9. Packets3'
  <2>. SUFFICES ASSUME NEW x \in Waiting("TYPE3")'
       PROVE  (/\ payload.TYPE3[x] # "none"
               /\ payload.TYPE3[x] \in {"stop11", "hw_wakeup"} => In11(x))'
    BY DEF Packets3
  <2>1. x \in Cores /\ (x \in Waiting("TYPE3") \/ (x = c /\ t = "TYPE3"))
    BY <1>4, <1>5, <1>6 DEF Waiting
  <2>2. CASE x = c /\ t = "TYPE3"
    BY <1>2, <1>4, <2>1, <2>2 DEF Acks
  <2>3. CASE ~(x = c /\ t = "TYPE3")
    BY <1>2, <1>4, <2>1, <2>3 DEF PartnersInv, Packets3
  <2>. QED  BY <2>2, <2>3
<1>10. NotStale'
  BY <1>2, <1>4, <1>5 DEF PartnersInv, NotStale, In11
<1>11. Handed'
  BY DEF PartnersInv, Handed
<1>. QED  BY <1>1, <1>7, <1>8, <1>9, <1>10, <1>11, PartnersSend

LEMMA PartnersCoresMove ==
    ASSUME TypeInv, PartnersInv, NEW q \in Quads, NEW c \in CoresOf(q),
           \/ WakeUp(q, c) \/ PcInterrupt(q, c)
           \/ PcwuRead(q, c) \/ PcwuSend(c) \/ CmeExit(q, c)
    PROVE  PartnersInv'
<1>1. c \in Cores /\ type[c] \in {"TYPE2", "TYPE3"}
  BY CoresOfQuads DEF TypeInv, TypesOfCores
<1>2. wns' = wns /\ type' = type
      /\ UNCHANGED <<rec, handler, job, powered, rclk, db2, panic, pgpe, override>>
  BY DEF WakeUp, PcInterrupt, PcwuRead, PcwuSend, CmeExit, cmeVars, threadVars, irqVars
<1>3. CoresAre'
  <2>1. CASE CmeExit(q, c)
    BY <1>2, <2>1 DEF PartnersInv, CoresAre, CmeExit
  <2>2. CASE \/ WakeUp(q, c) \/ PcInterrupt(q, c) \/ PcwuRead(q, c) \/ PcwuSend(c)
    BY <1>2, <2>2 DEF PartnersInv, CoresAre, WakeUp, PcInterrupt, PcwuRead, PcwuSend
  <2>. QED  BY <2>1, <2>2
<1>4. CASE UNCHANGED pigVars
  BY <1>2, <1>4, <1>3, PartnersQuiet DEF PartnersInv, NotStale, In11, pigVars
<1>5. CASE WakeUp(q, c) /\ c \in wns
  <2>1. Send(type[c], c, "hw_wakeup") /\ "hw_wakeup" \in Payloads
    BY <1>5 DEF WakeUp, Payloads, ExitEvents
  <2>2. CASE type[c] = "TYPE2"
    BY <1>1, <1>2, <1>3, <1>5, <2>1, <2>2, PartnersPacket
  <2>3. CASE type[c] = "TYPE3"
    BY <1>1, <1>2, <1>3, <1>5, <2>1, <2>3, PartnersPacket DEF In11
  <2>. QED  BY <1>1, <2>2, <2>3
<1>6. CASE PcwuSend(c)
  BY <1>6, <1>1, <1>2, <1>3, PartnersPacket DEF PcwuSend, Payloads, ExitEvents,
     PartnersInv, CoresAre
<1>. QED  BY <1>4, <1>5, <1>6 DEF WakeUp, PcInterrupt, PcwuRead, CmeExit

(* The first core of a CME acknowledges.                                   *)
LEMMA PartnersCmeDb1 ==
    ASSUME TypeInv, PartnersInv, NEW q \in Quads, CmeDb1(q)
    PROVE  PartnersInv'
<1>1. First(q) \in Cores /\ db1[q] \in Acks /\ Acks \subseteq Payloads
  BY CoresOfQuads DEF CmeDb1, TypeInv, TypesOfCmes, Payloads
<1>2. wns' = wns /\ type' = type
      /\ UNCHANGED <<rec, handler, job, powered, rclk, db2, panic, pgpe, override>>
  BY DEF CmeDb1, coreVars, threadVars, irqVars
<1>3. CoresAre'
  BY <1>2 DEF PartnersInv, CoresAre, CmeDb1, coreVars
<1>4. Send("TYPE3", First(q), db1[q])
  BY DEF CmeDb1
<1>. QED  BY <1>1, <1>2, <1>3, <1>4, PartnersPacket

(* Who only asks, and the FIT.                                             *)
LEMMA PartnersAsk ==
    ASSUME Regime, TypeInv, PartnersInv,
           OccBlocks \/ OccUnblocks \/ PgpeSuspends \/ Fit \/ UNCHANGED vars
    PROVE  PartnersInv'
<1>1. wns' = wns /\ type' = type /\ running' = running /\ notified' = notified
      /\ UNCHANGED <<rec, handler, job, powered, rclk, db2, panic, pgpe>>
      /\ UNCHANGED pigVars
  BY DEF OccBlocks, OccUnblocks, OccRequest, PgpeSuspends, Fit, coreVars, cmeVars,
         threadVars, irqVars, pigVars, vars
<1>2. CoresAre'
  BY <1>1 DEF PartnersInv, CoresAre
<1>3. NotStale'
  <2>1. CASE override' = override
    BY <1>1, <2>1 DEF PartnersInv, NotStale, In11, pigVars
  <2>2. CASE Fit
    BY <1>1, <2>2 DEF Fit, Regime, NotStale, In11, pigVars
  <2>. QED  BY <2>1, <2>2
            DEF OccBlocks, OccUnblocks, OccRequest, PgpeSuspends, irqVars, vars
<1>. QED  BY <1>1, <1>2, <1>3, PartnersQuiet

-----------------------------------------------------------------------------
(* The doorbells of the resonant clock, and the special wakeups.           *)
LEMMA PartnersCmeDb2 ==
    ASSUME TypeInv, PartnersInv, NEW q \in Quads, NEW c \in CoresOf(q), CmeDb2(q, c)
    PROVE  PartnersInv'
<1>1. /\ c \in Cores /\ QuadOf(c) = q /\ q \in powered /\ db2[c] # "none"
      /\ db2' = [db2 EXCEPT ![c] = "none"]
      /\ UNCHANGED <<running, wns, type, notified, powered, rec, override, handler,
                     job, pgpe, panic>>
  BY CoresOfQuads DEF CmeDb2, CmeFree, irqVars, threadVars
<1>2. db2 \in [Cores -> {"none", "DECREMENTER_WAKEUP", "RESONANT_CLOCK_DISABLE",
                         "RESONANT_CLOCK_ENABLE"}]
  BY DEF TypeInv, TypesOfCmes
<1>3. \A x \in Cores : db2'[x] = IF x = c THEN "none" ELSE db2[x]
  BY <1>1, <1>2
<1>4. /\ In11Grows /\ (\A x : In11(x)' <=> In11(x))
      /\ CoresStay
  BY <1>1 DEF In11Grows, In11, CoresStay
<1>5. ClocksStay /\ ListsStay /\ QuadsStay /\ JobStays /\ BlocksStay /\ SpecialsStay
  BY <1>1, RecordStays
<1>6. Waiting("TYPE0") \subseteq Cores
  BY DEF Waiting, Seen, TypeInv, TypesOfPackets, TypesOfHandler, CoreTypes
<1>7. Seen("TYPE0")' = Seen("TYPE0") /\ Seen("TYPE2")' = Seen("TYPE2")
      /\ Seen("TYPE3")' = Seen("TYPE3") /\ Seen("TYPE6")' = Seen("TYPE6")
  BY <1>1 DEF Seen
<1>8. ASSUME NEW what \in {"entry_rclk", "exit_rclk"}, Send("TYPE0", c, what)
      PROVE  /\ pend'.TYPE0 = pend.TYPE0 \union {c}
             /\ \A u \in {"TYPE2", "TYPE3", "TYPE6"} :
                    pend'[u] = pend[u] /\ payload'[u] = payload[u]
             /\ \A x \in Cores : payload'.TYPE0[x] = IF x = c THEN what
                                                     ELSE payload.TYPE0[x]
  <2>1. Sent("TYPE0", c, what)
    BY <1>1, <1>8, SendIs DEF CoreTypes, Payloads, ExitEvents
  <2>. QED  BY <2>1 DEF Sent, StopTypes
<1>9. CASE db2[c] = "DECREMENTER_WAKEUP"
  <2>1. rclk' = rclk /\ UNCHANGED pigVars
    BY <1>9 DEF CmeDb2
  <2>2. ClockMessages'
    BY <1>1, <1>3, <2>1 DEF PartnersInv, ClockMessages, ClockMessage, Waiting, Seen, pigVars
  <2>3. PacketsStay /\ payload' = payload /\ pend' = pend
    BY <1>1, <2>1 DEF PacketsStay, pigVars
  <2>. QED  BY <1>1, <1>4, <1>5, <2>1, <2>2, <2>3, PartnersStay DEF PartnersInv
<1>10. ASSUME NEW what \in {"entry_rclk", "exit_rclk"}, Send("TYPE0", c, what),
              db2[c] \in {"RESONANT_CLOCK_DISABLE", "RESONANT_CLOCK_ENABLE"},
              ClockMessages', RclkOff', ClocksDone', EntryJob'
       PROVE  PartnersInv'
  <2>1. /\ \A u \in {"TYPE2", "TYPE3", "TYPE6"} :
               pend'[u] = pend[u] /\ payload'[u] = payload[u]
        /\ \A x \in Cores : payload'.TYPE0[x] \in {what, payload.TYPE0[x]}
    BY <1>8, <1>10
  <2>2. PayloadKinds'
    BY <2>1 DEF PartnersInv, PayloadKinds
  <2>3. Packets2' /\ Packets3' /\ NotStale' /\ Handed'
    BY <1>1, <1>4, <1>7, <2>1
       DEF PartnersInv, Packets2, Packets3, NotStale, Handed, Waiting
  <2>4. SpecialsAre'
    BY <1>1, <1>7, <2>1 DEF PartnersInv, SpecialsAre, Waiting, Entering, EntryLeft
  <2>. QED  BY <1>1, <1>4, <1>5, <1>10, <2>2, <2>3, <2>4, PartnersStay DEF PartnersInv
<1>11. ClockMessage(c) /\ \A x \in Cores : ClockMessage(x)
  BY <1>1 DEF PartnersInv, ClockMessages
<1>12. CASE db2[c] = "RESONANT_CLOCK_DISABLE"
  <2>1. rclk' = rclk \ {q} /\ Send("TYPE0", c, "entry_rclk")
    BY <1>12 DEF CmeDb2
  <2>2. c = First(q) /\ q \in rec.quad.RCLK_REQ /\ c \notin Waiting("TYPE0")
    BY <1>1, <1>11, <1>12 DEF ClockMessage
  <2>3. /\ pend'.TYPE0 = pend.TYPE0 \union {c}
        /\ \A x \in Cores : payload'.TYPE0[x] = IF x = c THEN "entry_rclk"
                                                ELSE payload.TYPE0[x]
    BY <1>8, <2>1
  <2>4. ClockMessages'
    <3>. SUFFICES ASSUME NEW x \in Cores PROVE ClockMessage(x)'
      BY DEF ClockMessages
    <3>1. ClockMessage(x)
      BY <1>11
    <3>2. CASE x = c
      BY <1>1, <1>3, <1>7, <2>1, <2>2, <2>3, <3>2 DEF ClockMessage, Waiting
    <3>3. CASE x # c
      <4>1. x \in Waiting("TYPE0") => QuadOf(x) # q
        BY <2>2, <3>1, <3>3 DEF ClockMessage
      <4>2. (x \in Waiting("TYPE0"))' <=> x \in Waiting("TYPE0")
        BY <1>7, <2>3, <3>3 DEF Waiting
      <4>3. x \in pend'.TYPE0 <=> x \in pend.TYPE0
        BY <2>3, <3>3
      <4>4. /\ rec' = rec /\ db2'[x] = db2[x] /\ payload'.TYPE0[x] = payload.TYPE0[x]
            /\ QuadOf(x) # q => (QuadOf(x) \in rclk' <=> QuadOf(x) \in rclk)
        BY <1>1, <1>3, <2>1, <2>3, <3>3
      <4>. QED  BY <1>7, <3>1, <4>1, <4>2, <4>3, <4>4 DEF ClockMessage
    <3>. QED  BY <3>2, <3>3
  <2>5. RclkOff'
    <3>1. CoresOf(q) \subseteq rec.core.RCLKE /\ AllIn11(q)
      BY <2>2, CoresOfQuads DEF PartnersInv, ClocksAre, AllIn11
    <3>2. \A p \in Quads : AllIn11(p) => AllIn11(p)'
      BY <1>4, In11OfQuad
    <3>. QED  BY <1>1, <2>1, <3>1, <3>2 DEF PartnersInv, RclkOff, Entering
  <2>6. ClocksDone'
    BY <1>1, <2>1 DEF PartnersInv, ClocksDone
  <2>7. EntryJob'
    BY <1>1, <1>4, <2>1, In11OfQuad DEF PartnersInv, EntryJob, Entering, EntryLeft, TypeInv,
       TypesOfJob, Records, QuadVectors
  <2>. QED  BY <1>10, <1>12, <2>1, <2>4, <2>5, <2>6, <2>7
<1>13. CASE db2[c] = "RESONANT_CLOCK_ENABLE"
  <2>1. rclk' = rclk \union {q} /\ Send("TYPE0", c, "exit_rclk")
    BY <1>13 DEF CmeDb2
  <2>2. c = First(q) /\ q \in rec.quad.RCLKX /\ c \notin Waiting("TYPE0")
    BY <1>1, <1>11, <1>13 DEF ClockMessage
  <2>3. /\ pend'.TYPE0 = pend.TYPE0 \union {c}
        /\ \A x \in Cores : payload'.TYPE0[x] = IF x = c THEN "exit_rclk"
                                                ELSE payload.TYPE0[x]
    BY <1>8, <2>1
  <2>4. ClockMessages'
    <3>. SUFFICES ASSUME NEW x \in Cores PROVE ClockMessage(x)'
      BY DEF ClockMessages
    <3>1. ClockMessage(x)
      BY <1>11
    <3>2. CASE x = c
      BY <1>1, <1>3, <1>7, <2>1, <2>2, <2>3, <3>2 DEF ClockMessage, Waiting
    <3>3. CASE x # c
      <4>2. (x \in Waiting("TYPE0"))' <=> x \in Waiting("TYPE0")
        BY <1>7, <2>3, <3>3 DEF Waiting
      <4>3. x \in pend'.TYPE0 <=> x \in pend.TYPE0
        BY <2>3, <3>3
      <4>4. /\ rec' = rec /\ db2'[x] = db2[x] /\ payload'.TYPE0[x] = payload.TYPE0[x]
            /\ QuadOf(x) \in rclk => QuadOf(x) \in rclk'
            /\ QuadOf(x) # q => (QuadOf(x) \in rclk' <=> QuadOf(x) \in rclk)
        BY <1>1, <1>3, <2>1, <2>3, <3>3
      <4>5. q \notin rec.quad.RCLK_REQ
        BY <1>1, <2>2 DEF PartnersInv, ClocksAre
      <4>. QED  BY <1>7, <3>1, <4>2, <4>3, <4>4, <4>5 DEF ClockMessage
    <3>. QED  BY <3>2, <3>3
  <2>5. RclkOff'
    <3>2. \A p \in Quads : AllIn11(p) => AllIn11(p)'
      BY <1>4, In11OfQuad
    <3>. QED  BY <1>1, <2>1, <3>2 DEF PartnersInv, RclkOff, Entering
  <2>6. ClocksDone'
    <3>1. q \notin rec.quad.RCLK_DONE
      BY <1>1, <2>2 DEF PartnersInv, ClocksDone, ClocksAre
    <3>. QED  BY <1>1, <2>1, <3>1 DEF PartnersInv, ClocksDone
  <2>7. EntryJob'
    BY <1>1, <1>4, <2>1, <2>2, In11OfQuad DEF PartnersInv, EntryJob, Entering, EntryLeft,
       TypeInv, TypesOfJob, Records, QuadVectors
  <2>. QED  BY <1>10, <1>13, <2>1, <2>4, <2>5, <2>6, <2>7
<1>. QED  BY <1>1, <1>2, <1>9, <1>12, <1>13

LEMMA PartnersSpecialWakeup ==
    ASSUME Regime, TypeInv, PartnersInv, NEW q \in Quads,
           SpecialWakeup(q) \/ ReleaseSpecial(q)
    PROVE  PartnersInv'
<1>1. UNCHANGED <<running, wns, type, notified, powered, rclk, db2, rec, override,
                  handler, job, pgpe, panic>>
  BY DEF SpecialWakeup, ReleaseSpecial, coreVars, cmeVars, irqVars, threadVars
<1>2. PICK what \in {"exit", "entry"} :
          /\ SendQuad(q, what)
          /\ what = "exit" => SpecialWakeup(q)
  BY DEF SpecialWakeup, ReleaseSpecial
<1>3. /\ pend'.TYPE6 = pend.TYPE6 \union {q}
      /\ \A u \in CoreTypes : pend'[u] = pend[u] /\ payload'[u] = payload[u]
      /\ \A p \in Quads : payload'.TYPE6[p] = IF p = q THEN what ELSE payload.TYPE6[p]
  <2>1. TypesOfPackets
    BY DEF TypeInv
  <2>2. "TYPE6" \in StopTypes /\ CoreTypes = StopTypes \ {"TYPE6"}
    BY DEF CoreTypes, StopTypes
  <2>3. /\ pend'.TYPE6 = pend.TYPE6 \union {q}
        /\ \A u \in CoreTypes : pend'[u] = pend[u] /\ payload'[u] = payload[u]
        /\ payload'.TYPE6 = [payload.TYPE6 EXCEPT ![q] = what]
    BY <1>2, <2>1, <2>2 DEF SendQuad, TypesOfPackets
  <2>. QED  BY <2>1, <2>3 DEF TypesOfPackets
<1>4. /\ pend'.TYPE0 = pend.TYPE0 /\ pend'.TYPE2 = pend.TYPE2 /\ pend'.TYPE3 = pend.TYPE3
      /\ payload'.TYPE0 = payload.TYPE0 /\ payload'.TYPE2 = payload.TYPE2
      /\ payload'.TYPE3 = payload.TYPE3
  BY <1>3 DEF CoreTypes
<1>5. In11Grows /\ CoresStay /\ (\A x : In11(x)' <=> In11(x))
  BY <1>1 DEF In11Grows, In11, CoresStay
<1>6. ClocksStay /\ ListsStay /\ QuadsStay /\ JobStays /\ BlocksStay /\ SpecialsStay
  BY <1>1, RecordStays
<1>7. PayloadKinds' /\ Packets2' /\ Packets3' /\ NotStale' /\ Handed'
  BY <1>1, <1>4, <1>5 DEF PartnersInv, PayloadKinds, Packets2, Packets3, NotStale,
     Handed, Waiting, Seen
<1>8. ClockMessages'
  BY <1>1, <1>4 DEF PartnersInv, ClockMessages, ClockMessage, Waiting, Seen
<1>9. SpecialsAre'
  <2>1. rec'.qswu.EXIT = {} /\ rec'.qswu.BLOCKX = {}
    BY <1>1 DEF PartnersInv, SpecialsAre
  <2>. SUFFICES ASSUME NEW p \in Waiting("TYPE6")', payload'.TYPE6[p] = "exit"
       PROVE  /\ p \in Special /\ p \in powered'
              /\ (Entering /\ p \in EntryLeft => job.at = "purge" /\ p \in job.left)'
    BY <2>1 DEF SpecialsAre
  <2>2. p \in Quads /\ (p \in Waiting("TYPE6") \/ p = q)
    BY <1>1, <1>3 DEF Waiting, Seen, TypeInv, TypesOfPackets, TypesOfHandler
  <2>3. /\ Entering' <=> Entering
        /\ EntryLeft' = EntryLeft
    BY <1>1 DEF Entering, EntryLeft
  <2>4. CASE p # q
    BY <1>3, <2>2, <2>4, <1>1, <2>3 DEF PartnersInv, SpecialsAre
  <2>5. CASE p = q
    <3>1. SpecialWakeup(q)
      BY <1>2, <1>3, <2>5
    <3>2. q \in Special /\ q \in powered /\ ~(q \in rec.quad.ENTRY /\ Purged(q))
      BY <3>1 DEF SpecialWakeup, Regime
    <3>3. Entering /\ job.at = "quads" => job.left \subseteq rec.quad.ENTRY
      BY DEF PartnersInv, EntryJob
    <3>. QED  BY <1>1, <2>3, <2>5, <3>2, <3>3 DEF Entering, EntryLeft, Purged
  <2>. QED  BY <2>4, <2>5
<1>. QED  BY <1>1, <1>5, <1>6, <1>7, <1>8, <1>9, PartnersStay DEF PartnersInv

-----------------------------------------------------------------------------
(* The threads where they only start and end, and the suspensions.         *)
RecKeeps ==
    /\ rec'.level = rec.level /\ rec'.act = rec.act /\ rec'.core = rec.core
    /\ rec'.quad = rec.quad /\ rec'.qswu = rec.qswu /\ rec'.creq = rec.creq
Elsewhere == ~Entering /\ ~Exiting
HandlerQuiet == handler.at \notin {"TYPE0", "TYPE2", "TYPE3", "TYPE6", "handoff"}

LEMMA RecKeepsIs ==
    ASSUME TypeInv,
           \/ rec' = rec
           \/ \E s : rec' = [rec EXCEPT !.status = s]
           \/ \E s, b : rec' = [rec EXCEPT !.status = s, !.entry_pending = b]
    PROVE  RecKeeps
BY DEF TypeInv, Records, RecKeeps

LEMMA PartnersMoves ==
    ASSUME PartnersInv, TypeInv, RecKeeps,
           UNCHANGED <<running, wns, type, notified, powered, rclk, db2, pgpe>>,
           UNCHANGED pigVars,
           handler' = handler \/ (HandlerQuiet /\ HandlerQuiet'),
           job' = job \/ (Elsewhere /\ Elsewhere'),
           ExitWorks' => ExitWorks, JobIs', NotStale', Sound'
    PROVE  PartnersInv'
<1>1. In11Grows /\ CoresStay /\ (\A x : In11(x)' <=> In11(x)) /\ payload' = payload
  BY DEF In11Grows, In11, CoresStay, pigVars
<1>2. /\ ClocksStay /\ ListsStay /\ QuadsStay /\ BlocksStay /\ SpecialsStay
      /\ rec'.quad.ENTRY = rec.quad.ENTRY /\ rec'.quad.EXIT = rec.quad.EXIT
      /\ rec'.core.EXIT = rec.core.EXIT /\ rec'.level = rec.level
      /\ job' = job => JobStays
  BY DEF RecKeeps, ClocksStay, ListsStay, QuadsStay, BlocksStay, SpecialsStay, JobStays
<1>3. /\ Seen("TYPE0")' = Seen("TYPE0") /\ Seen("TYPE2")' = Seen("TYPE2")
      /\ Seen("TYPE3")' = Seen("TYPE3") /\ Seen("TYPE6")' = Seen("TYPE6")
  BY DEF Seen, HandlerQuiet
<1>4. /\ Waiting("TYPE0")' = Waiting("TYPE0") /\ Waiting("TYPE2")' = Waiting("TYPE2")
      /\ Waiting("TYPE3")' = Waiting("TYPE3") /\ Waiting("TYPE6")' = Waiting("TYPE6")
      /\ pend' = pend
  BY <1>3 DEF Waiting, pigVars
<1>5. CoresAre' /\ PayloadKinds' /\ Deep' /\ QuadsAre' /\ BlocksAre'
  BY <1>1, <1>2, PartnersStay
<1>6. Packets2' /\ Packets3'
  BY <1>1, <1>4 DEF PartnersInv, Packets2, Packets3
<1>7. Handed'
  BY DEF PartnersInv, Handed, HandlerQuiet
<1>8. ClocksAre'
  BY <1>1, <1>2, <1>3, In11OfQuad, CoresOfQuads DEF PartnersInv, ClocksAre, ClocksStay,
     TypeInv, Records, CoreVectors, QuadVectors
<1>9. ExitsClocked'
  BY <1>2 DEF PartnersInv, ExitsClocked, ClocksStay
<1>10. ClockMessages'
  BY <1>1, <1>2, <1>3, <1>4 DEF PartnersInv, ClockMessages, ClockMessage, ClocksStay
<1>11. RclkOff'
  <2>1. \A q \in Quads : AllIn11(q) => AllIn11(q)'
    BY <1>1, In11OfQuad
  <2>2. Entering => Entering'
    BY DEF Elsewhere, Entering
  <2>. QED  BY <1>2, <2>1, <2>2 DEF PartnersInv, RclkOff, ClocksStay
<1>12. SpecialsAre'
  BY <1>1, <1>2, <1>4 DEF PartnersInv, SpecialsAre, SpecialsStay, JobStays, Elsewhere, Entering,
     EntryLeft
<1>13. EntryJob'
  <2>1. CASE job' = job
    BY <1>1, <1>2, <2>1, PartnersStay
  <2>2. CASE Elsewhere'
    BY <2>2 DEF EntryJob, Elsewhere
  <2>. QED  BY <2>1, <2>2
<1>14. ExitJob'
  <2>1. CASE job' = job
    BY <1>1, <1>2, <2>1, PartnersStay
  <2>2. CASE Elsewhere'
    BY <2>2 DEF ExitJob, Elsewhere
  <2>. QED  BY <2>1, <2>2
<1>15. PgpeQuads'
  <2>1. CASE job' = job
    BY <1>1, <1>2, <2>1, PartnersStay DEF QuadsStay
  <2>2. CASE Elsewhere /\ Elsewhere'
    BY <1>2, <2>2 DEF PartnersInv, PgpeQuads, Elsewhere, Entering, QuadsStay
  <2>. QED  BY <2>1, <2>2
<1>16. ClocksDone'
  BY <1>2, PartnersStay
<1>. QED  BY <1>5, <1>6, <1>7, <1>8, <1>9, <1>10, <1>11, <1>12, <1>13, <1>14, <1>15,
             <1>16 DEF PartnersInv

LEMMA RestoreIsSound ==
    ASSUME PartnersInv, VecRestore \/ UNCHANGED panic
    PROVE  Sound'
BY DEF VecRestore, Halt, PartnersInv, Sound

LEMMA StaleStays ==
    ASSUME PartnersInv, wns' = wns, type' = type, pend' = pend,
           override' = override \/ "TYPE2" \notin override' \/ "TYPE3" \in override'
    PROVE  NotStale'
BY DEF PartnersInv, NotStale, In11

LEMMA PartnersThreadMoves ==
    ASSUME TypeInv, MaskInv, PartnersInv, NEW thread \in {"exit", "entry"},
           \/ ThreadStarts(thread) \/ ThreadSuspends(thread) \/ ThreadCloses(thread)
           \/ ExitThreadEnds \/ EntryThreadEnds
    PROVE  PartnersInv'
<1>1. /\ UNCHANGED <<running, wns, type, notified, powered, rclk, db2, pgpe, handler>>
      /\ UNCHANGED pigVars
  BY DEF ThreadStarts, ThreadSuspends, SuspendDone, ThreadCloses, ExitThreadEnds,
         EntryThreadEnds, coreVars, cmeVars
<1>2. RecKeeps
  BY RecKeepsIs DEF ThreadStarts, ThreadSuspends, SuspendDone, ThreadCloses,
     ExitThreadEnds, EntryThreadEnds
<1>3. job.at \in {"posted", "suspending", "closing", "end"} /\ Elsewhere
      /\ job.thread \in {"exit", "entry"}
  BY DEF ThreadStarts, ThreadSuspends, ThreadCloses, ExitThreadEnds, EntryThreadEnds,
         ThreadRuns, Elsewhere, Entering, Exiting
<1>4. /\ job'.at \in {"select", "closing", "suspending", "posted", "idle"}
      /\ job'.thread = "none" => job'.at = "idle"
      /\ job'.at = "select" => job.at = "posted" /\ job'.thread = job.thread
      /\ job'.at = "posted" => job'.thread = "entry"
  <2>1. \/ job' = [job EXCEPT !.at = "select"] /\ job.at = "posted"
        \/ job' = [job EXCEPT !.at = "closing"] \/ job' = [job EXCEPT !.at = "suspending"]
        \/ job' = [NoJob EXCEPT !.thread = "entry", !.at = "posted"] \/ job' = NoJob
    BY DEF ThreadStarts, ThreadSuspends, ThreadCloses, ExitThreadEnds, EntryThreadEnds,
           ThreadRuns, To, Posted
  <2>2. job = [thread |-> job.thread, at |-> job.at, left |-> job.left,
               aborted |-> job.aborted]
    BY DEF MaskInv, Shapes, IsHandler, IsJob
  <2>3. ASSUME job' = [job EXCEPT !.at = "select"]
        PROVE  job'.at = "select" /\ job'.thread = job.thread
    BY <2>2, <2>3
  <2>7. ASSUME job' = [job EXCEPT !.at = "closing"]
        PROVE  job'.at = "closing" /\ job'.thread = job.thread
    BY <2>2, <2>7
  <2>8. ASSUME job' = [job EXCEPT !.at = "suspending"]
        PROVE  job'.at = "suspending" /\ job'.thread = job.thread
    BY <2>2, <2>8
  <2>4. ASSUME job' = [NoJob EXCEPT !.thread = "entry", !.at = "posted"]
        PROVE  job'.at = "posted" /\ job'.thread = "entry"
    BY <2>4 DEF NoJob
  <2>5. ASSUME job' = NoJob
        PROVE  job'.at = "idle"
    BY <2>5 DEF NoJob
  <2>6. \/ job'.at = "select" /\ job'.thread = job.thread /\ job.at = "posted"
        \/ job'.at = "closing" /\ job'.thread = job.thread
        \/ job'.at = "suspending" /\ job'.thread = job.thread
        \/ job'.at = "posted" /\ job'.thread = "entry"
        \/ job'.at = "idle"
    BY <2>1, <2>3, <2>4, <2>5, <2>7, <2>8
  <2>. QED  BY <1>3, <2>6
<1>5. Elsewhere' /\ JobIs' /\ (ExitWorks' => ExitWorks)
  BY <1>3, <1>4 DEF Elsewhere, Entering, Exiting, JobIs, Places, ExitWorks
<1>6. NotStale'
  <2>1. override' = override \/ "TYPE2" \notin override'
    BY DEF ThreadStarts, ThreadSuspends, SuspendDone, ThreadCloses, ExitThreadEnds,
           EntryThreadEnds, irqVars, StopTypes
  <2>. QED  BY <1>1, <2>1, StaleStays DEF pigVars
<1>7. Sound'
  BY RestoreIsSound DEF ThreadStarts, ThreadSuspends, ThreadCloses, ExitThreadEnds,
     EntryThreadEnds
<1>. QED  BY <1>1, <1>2, <1>3, <1>5, <1>6, <1>7, PartnersMoves

LEMMA PartnersSuspends ==
    ASSUME TypeInv, MaskInv, PartnersInv, SuspendRequest \/ HandlerSuspends
    PROVE  PartnersInv'
<1>1. /\ UNCHANGED <<running, wns, type, notified, powered, rclk, db2, pgpe, job>>
      /\ UNCHANGED pigVars
  BY DEF SuspendRequest, HandlerSuspends, SuspendDone, coreVars, cmeVars, threadVars
<1>2. RecKeeps
  BY RecKeepsIs DEF SuspendRequest, HandlerSuspends, SuspendDone
<1>3. HandlerQuiet
  BY DEF SuspendRequest, HandlerSuspends, HandlerRuns, HandlerQuiet
<1>4. handler'.at \in {"none", "suspending"}
  <2>1. handler = [irq |-> handler.irq, at |-> handler.at, set |-> handler.set]
    BY DEF MaskInv, Shapes, IsHandler, IsJob
  <2>2. CASE handler' = NoHandler
    BY <2>2 DEF NoHandler
  <2>3. CASE handler' = [handler EXCEPT !.at = "suspending"]
    BY <2>1, <2>3
  <2>. QED  BY <2>2, <2>3 DEF SuspendRequest, HandlerSuspends
<1>5. HandlerQuiet' /\ JobIs' /\ (ExitWorks' => ExitWorks)
  BY <1>1, <1>4 DEF HandlerQuiet, PartnersInv, JobIs, ExitWorks
<1>6. NotStale'
  BY <1>1, StaleStays DEF SuspendRequest, HandlerSuspends, SuspendDone, StopTypes,
     pigVars
<1>7. Sound'
  BY RestoreIsSound DEF SuspendRequest, HandlerSuspends
<1>. QED  BY <1>1, <1>2, <1>3, <1>5, <1>6, <1>7, PartnersMoves

-----------------------------------------------------------------------------
(* An interrupt is taken.  Type 3 is taken only when no packet of type 2   *)
(* of a core that has since entered STOP11 is left behind it.              *)
LEMMA Type3IsAfterType2 ==
    ASSUME TypeInv, MaskInv, PartnersInv, TakeInterrupt("TYPE3")
    PROVE  \A c \in pend.TYPE2 : ~In11(c)
<1>1. /\ "TYPE3" \in Asserted \ override /\ PrtyLvl["TYPE3"] < prty
      /\ \A j \in Deliverable : PrtyLvl["TYPE3"] <= PrtyLvl[j]
  BY DEF TakeInterrupt, Deliverable
<1>2. PrtyLvl["TYPE3"] = 5 /\ PrtyLvl["TYPE2"] = 2
  BY DEF PrtyLvl
<1>3. prty \in Int
  BY DEF MaskInv, StackFits, DISABLED
<1>4. "TYPE2" \notin Deliverable
  BY <1>1, <1>2
<1>5. pend.TYPE2 # {} => "TYPE2" \in Asserted
  BY DEF Asserted, StopTypes
<1>6. pend.TYPE2 # {} => "TYPE2" \in override
  BY <1>1, <1>2, <1>3, <1>4, <1>5 DEF Deliverable
<1>. QED  BY <1>1, <1>6 DEF PartnersInv, NotStale

LEMMA PartnersTakeInterrupt ==
    ASSUME TypeInv, MaskInv, PartnersInv, NEW i \in Irqs, TakeInterrupt(i)
    PROVE  PartnersInv'
<1>. DEFINE seen == IF i \notin StopTypes THEN {}
                    ELSE IF i = "TYPE3" THEN pend[i] \ rec.core.RCLKE
                    ELSE pend[i]
<1>1. /\ UNCHANGED <<running, wns, type, notified, powered, rclk, db2, pgpe, rec, job>>
      /\ payload' = payload /\ override' = override /\ handler = NoHandler
      /\ rec' = rec /\ job' = job
  BY DEF TakeInterrupt, coreVars, cmeVars, threadVars
<1>2. \A t \in StopTypes : Seen(t) = {}
  BY <1>1 DEF Seen, NoHandler, StopTypes
<1>3. CASE Len(stack) = 8
  <2>1. Halt("STACK_OVERFLOW") /\ handler' = handler /\ pend' = pend
    BY <1>3 DEF TakeInterrupt
  <2>2. RecKeeps /\ UNCHANGED pigVars
    BY <1>1, <2>1 DEF RecKeeps, pigVars
  <2>3. JobIs' /\ (ExitWorks' => ExitWorks) /\ NotStale' /\ Sound'
    BY <1>1, <2>1, StaleStays DEF PartnersInv, JobIs, ExitWorks, Halt, Sound
  <2>. QED  BY <1>1, <2>1, <2>2, <2>3, PartnersMoves
<1>4. CASE Len(stack) # 8
  <2>1. /\ handler' = [irq |-> i, at |-> i, set |-> seen]
        /\ pend' = IF i \in StopTypes THEN [pend EXCEPT ![i] = @ \ seen] ELSE pend
        /\ panic' = panic
    BY <1>4 DEF TakeInterrupt
  <2>2. seen \subseteq pend[i] \/ seen = {}
    OBVIOUS
  <2>3. i = "TYPE3" => seen \intersect rec.core.RCLKE = {}
    OBVIOUS
  <2>. HIDE DEF seen
  <2>4. handler'.at = i /\ handler'.set = seen
    BY <2>1
  <2>5. \A t \in StopTypes : pend'[t] = IF t = i THEN pend[t] \ seen ELSE pend[t]
    BY <2>1 DEF TypeInv, TypesOfPackets
  <2>6. \A t \in StopTypes : Seen(t)' = IF t = i THEN seen ELSE {}
    BY <2>4 DEF Seen
  <2>7. i \in StopTypes => seen \subseteq pend[i]
    BY <2>2
  <2>8. \A t \in StopTypes : Waiting(t)' = Waiting(t)
    BY <1>2, <2>5, <2>6, <2>7 DEF Waiting
  <2>9. /\ Waiting("TYPE0")' = Waiting("TYPE0") /\ Waiting("TYPE2")' = Waiting("TYPE2")
        /\ Waiting("TYPE3")' = Waiting("TYPE3") /\ Waiting("TYPE6")' = Waiting("TYPE6")
        /\ pend'.TYPE2 \subseteq pend.TYPE2
        /\ i # "TYPE3" => pend'.TYPE3 = pend.TYPE3
        /\ pend'.TYPE0 \intersect Seen("TYPE0")' = {}
        /\ Seen("TYPE3")' \intersect rec.core.RCLKE = {}
    BY <2>3, <2>5, <2>6, <2>8 DEF StopTypes
  <2>10. In11Grows /\ CoresStay /\ (\A x : In11(x)' <=> In11(x))
    BY <1>1 DEF In11Grows, In11, CoresStay
  <2>11. ClocksStay /\ ListsStay /\ QuadsStay /\ JobStays /\ BlocksStay /\ SpecialsStay
    BY <1>1, RecordStays
  <2>12. Packets2'
    <3>1. CASE i = "TYPE3"
      <4>1. \A c \in pend.TYPE2 : ~In11(c)
        BY <3>1, Type3IsAfterType2
      <4>2. Waiting("TYPE2") = pend.TYPE2
        BY <1>2 DEF Waiting, StopTypes
      <4>. QED  BY <1>1, <2>9, <2>10, <4>1, <4>2 DEF PartnersInv, Packets2
    <3>2. CASE i # "TYPE3"
      BY <1>1, <2>9, <2>10, <3>2 DEF PartnersInv, Packets2
    <3>. QED  BY <3>1, <3>2
  <2>13. Packets3'
    BY <1>1, <2>9, <2>10 DEF PartnersInv, Packets3
  <2>14. NotStale' /\ Handed'
    BY <1>1, <2>4, <2>9, <2>10 DEF PartnersInv, NotStale, Handed, Irqs, CoreTypes
  <2>15. ClocksAre'
    <3>1. \A q \in Quads : AllIn11(q) => AllIn11(q)'
      BY <2>10, In11OfQuad
    <3>2. rec.core.RCLKE \subseteq Cores /\ rec.quad.RCLKX \subseteq Quads
      BY DEF TypeInv, Records, CoreVectors, QuadVectors
    <3>. QED  BY <1>1, <2>9, <2>10, <3>1, <3>2 DEF PartnersInv, ClocksAre
  <2>16. ClockMessages'
    BY <1>1, <2>9 DEF PartnersInv, ClockMessages, ClockMessage
  <2>17. SpecialsAre'
    BY <1>1, <2>9 DEF PartnersInv, SpecialsAre, Entering, EntryLeft
  <2>. QED  BY <1>1, <2>1, <2>10, <2>11, <2>12, <2>13, <2>14, <2>15, <2>16, <2>17,
               PartnersStay DEF PartnersInv
<1>. QED  BY <1>3, <1>4

-----------------------------------------------------------------------------
(* Cores are handed over by the handler of type 2: they are in STOP5.      *)
LEMMA HandedOverIs ==
    ASSUME NEW r \in Records, NEW cs \in SUBSET Cores
    PROVE  LET e == HandedOver(r, cs)
           IN  /\ e.act = r.act /\ e.quad = r.quad /\ e.qswu = r.qswu
               /\ e.creq = r.creq
               /\ \A x \in Cores : e.level[x] = IF x \in cs THEN 0 ELSE r.level[x]
               /\ \A v \in CoreVectors \ {"PCWU", "EXIT"} : e.core[v] = r.core[v]
               /\ e.core.EXIT = r.core.EXIT \ cs
<1>. DEFINE lv == [c \in Cores |-> IF c \in cs THEN 0 ELSE r.level[c]]
            c1 == [r.core EXCEPT !.PCWU = @ \ cs, !.EXIT = @ \ cs]
            e == HandedOver(r, cs)
<1>1. e = [r EXCEPT !.level = lv, !.core.PCWU = @ \ cs, !.core.EXIT = @ \ cs]
  BY DEF HandedOver
<1>2. e = [r EXCEPT !.level = lv, !.core = c1]
  <2>. HIDE DEF lv, e
  <2>. QED  BY <1>1 DEF Records
<1>3. /\ \A v \in CoreVectors \ {"PCWU", "EXIT"} : c1[v] = r.core[v]
      /\ c1.EXIT = r.core.EXIT \ cs
  BY DEF Records, CoreVectors
<1>4. \A x \in Cores : lv[x] = IF x \in cs THEN 0 ELSE r.level[x]
  OBVIOUS
<1>. HIDE DEF lv, c1, e
<1>5. /\ e.act = r.act /\ e.quad = r.quad /\ e.qswu = r.qswu
      /\ e.creq = r.creq /\ e.level = lv /\ e.core = c1
  BY <1>2 DEF Records
<1>6. /\ e.act = r.act /\ e.quad = r.quad /\ e.qswu = r.qswu
      /\ e.creq = r.creq
      /\ \A x \in Cores : e.level[x] = IF x \in cs THEN 0 ELSE r.level[x]
      /\ \A v \in CoreVectors \ {"PCWU", "EXIT"} : e.core[v] = r.core[v]
      /\ e.core.EXIT = r.core.EXIT \ cs
  BY <1>3, <1>4, <1>5
<1>. QED  BY <1>6 DEF e

DoorbellsMayAdd == \A x \in Cores : db2'[x] \in {db2[x], "DECREMENTER_WAKEUP"}
RecHandsOver(cs) ==
    /\ rec'.act = rec.act /\ rec'.quad = rec.quad /\ rec'.qswu = rec.qswu
    /\ rec'.creq = rec.creq
    /\ \A x \in Cores : rec'.level[x] = 11 => rec.level[x] = 11
    /\ \A v \in CoreVectors \ {"PCWU", "EXIT"} : rec'.core[v] = rec.core[v]
    /\ rec'.core.EXIT = rec.core.EXIT \ cs
HandsOver(cs) ==
    /\ wns' = wns \ cs /\ payload' = payload
    /\ \A t \in StopTypes : pend'[t] = IF t \in {"TYPE2", "TYPE3"} THEN pend[t] \ cs
                                                                   ELSE pend[t]

LEMMA DoorbellPcAdds ==
    ASSUME NEW cs, db2' = DoorbellPc(cs)
    PROVE  DoorbellsMayAdd
BY DEF DoorbellPc, DoorbellsMayAdd

LEMMA HandOverIs ==
    ASSUME TypeInv, NEW cs, HandOver(cs), payload' = payload
    PROVE  HandsOver(cs)
BY DEF HandOver, HandsOver, TypeInv, TypesOfPackets, StopTypes

LEMMA PartnersHandOver ==
    ASSUME PartnersInv, TypeInv, NEW cs \in SUBSET Cores,
           \A c \in cs : type[c] = "TYPE2",
           UNCHANGED <<running, type, notified, powered, rclk, override, job, pgpe>>,
           RecHandsOver(cs), HandsOver(cs), DoorbellsMayAdd, Sound',
           handler.at = "handoff", handler' = NoHandler \/ (handler' = handler /\ cs = {})
    PROVE  PartnersInv'
<1>1. \A x \in Cores : In11(x)' <=> In11(x)
  BY DEF In11, HandsOver
<1>2. In11Grows
  BY <1>1 DEF In11Grows
<1>3. /\ rec'.core.RCLKE = rec.core.RCLKE /\ rec'.core.ACTIVE = rec.core.ACTIVE
      /\ rec'.core.PIGX = rec.core.PIGX /\ rec'.core.PIGE = rec.core.PIGE
      /\ rec'.core.BLOCKX = rec.core.BLOCKX
      /\ rec'.core.EXIT = rec.core.EXIT \ cs
      /\ rec'.act = rec.act /\ rec'.quad = rec.quad /\ rec'.qswu = rec.qswu
      /\ rec'.creq = rec.creq
  BY DEF RecHandsOver, CoreVectors
<1>4. ClocksStay /\ ListsStay /\ QuadsStay /\ BlocksStay /\ SpecialsStay
  BY <1>3 DEF ClocksStay, ListsStay, QuadsStay, BlocksStay, SpecialsStay
<1>5. /\ Seen("TYPE0") = {} /\ Seen("TYPE2") = {} /\ Seen("TYPE3") = {}
      /\ Seen("TYPE6") = {}
      /\ Seen("TYPE0")' = {} /\ Seen("TYPE2")' = {} /\ Seen("TYPE3")' = {}
      /\ Seen("TYPE6")' = {}
  BY DEF Seen, NoHandler
<1>6. /\ Waiting("TYPE0")' = Waiting("TYPE0") /\ Waiting("TYPE6")' = Waiting("TYPE6")
      /\ Waiting("TYPE2")' = Waiting("TYPE2") \ cs
      /\ Waiting("TYPE3")' = Waiting("TYPE3") \ cs
      /\ pend'.TYPE2 = pend.TYPE2 \ cs /\ pend'.TYPE3 = pend.TYPE3 \ cs
  BY <1>5 DEF Waiting, HandsOver, StopTypes
<1>7. Waiting("TYPE2") \subseteq Cores /\ Waiting("TYPE3") \subseteq Cores
      /\ pend.TYPE2 \subseteq Cores
  BY DEF Waiting, Seen, TypeInv, TypesOfPackets, TypesOfHandler, CoreTypes
<1>8. CoresAre'
  BY <1>3 DEF PartnersInv, CoresAre, HandsOver
<1>9. Packets2'
  BY <1>1, <1>6, <1>7 DEF PartnersInv, Packets2, HandsOver
<1>10. Packets3'
  BY <1>1, <1>6, <1>7 DEF PartnersInv, Packets3, HandsOver
<1>11. NotStale'
  BY <1>1, <1>6, <1>7 DEF PartnersInv, NotStale
<1>12. Handed'
  BY DEF PartnersInv, Handed, NoHandler, HandsOver
<1>13. Deep'
  BY <1>2 DEF PartnersInv, Deep, RecHandsOver, In11Grows
<1>14. ClocksAre'
  <2>1. \A q \in Quads : AllIn11(q) => AllIn11(q)'
    BY <1>2, In11OfQuad
  <2>2. rec.core.RCLKE \subseteq Cores /\ rec.quad.RCLKX \subseteq Quads
    BY DEF TypeInv, Records, CoreVectors, QuadVectors
  <2>. QED  BY <1>1, <1>3, <1>5, <2>1, <2>2 DEF PartnersInv, ClocksAre
<1>15. ExitsClocked'
  BY <1>3 DEF PartnersInv, ExitsClocked, ExitWorks
<1>16. ClockMessages'
  <2>1. payload' = payload
    BY DEF HandsOver
  <2>2. \A x \in Cores : db2'[x] \in {db2[x], "DECREMENTER_WAKEUP"}
    BY DEF DoorbellsMayAdd
  <2>. QED  BY <1>3, <1>5, <1>6, <2>1, <2>2 DEF PartnersInv, ClockMessages, ClockMessage
<1>17. RclkOff'
  BY <1>2, <1>3, In11OfQuad DEF PartnersInv, RclkOff, Entering
<1>18. SpecialsAre'
  BY <1>3, <1>6 DEF HandsOver, PartnersInv, SpecialsAre, Entering, EntryLeft
<1>19. EntryJob'
  <2>1. \A q \in Quads : AllIn11(q) => AllIn11(q)'
    BY <1>2, In11OfQuad
  <2>2. Entering => EntryLeft \subseteq Quads
    BY DEF Entering, EntryLeft, TypeInv, TypesOfJob, Records, QuadVectors
  <2>. QED  BY <1>3, <2>1, <2>2 DEF PartnersInv, EntryJob, Entering, EntryLeft
<1>20. ExitJob'
  <2>1. \A q \in job.left : Exiting => AllIn11(q)
    BY DEF PartnersInv, ExitJob, QuadsAre, TypeInv, TypesOfJob
  <2>2. \A q \in job.left : AllIn11(q) => CoresOf(q) \intersect cs = {}
    BY DEF AllIn11, In11
  <2>. QED  BY <1>3, <2>1, <2>2 DEF PartnersInv, ExitJob, Exiting
<1>21. PgpeQuads'
  BY <1>3 DEF PartnersInv, PgpeQuads, Exiting
<1>22. PayloadKinds' /\ JobIs'
  BY DEF HandsOver, PartnersInv, PayloadKinds, JobIs
<1>23. QuadsAre' /\ BlocksAre' /\ ClocksDone'
  BY <1>2, <1>4, PartnersStay
<1>. QED  BY <1>8, <1>9, <1>10, <1>11, <1>12, <1>13, <1>14, <1>15, <1>16, <1>17, <1>18,
             <1>19, <1>20, <1>21, <1>22, <1>23 DEF PartnersInv

LEMMA PartnersHandOff ==
    ASSUME TypeInv, PartnersInv, HandOff \/ \E c \in Cores : DoorbellFirst(c)
    PROVE  PartnersInv'
<1>1. /\ UNCHANGED <<running, type, notified, powered, rclk, override, job, pgpe>>
      /\ handler.at = "handoff"
  BY DEF HandOff, DoorbellFirst, HandlerRuns, coreVars, cmeVars, irqVars, threadVars
<1>2. rec \in Records /\ handler.set \in SUBSET Cores
      /\ \A c \in handler.set : type[c] = "TYPE2"
  BY <1>1 DEF TypeInv, TypesOfHandler, PartnersInv, Handed
<1>3. CASE HandOff
  <2>1. RecHandsOver(handler.set)
    BY <1>3, <1>2, HandedOverIs DEF HandOff, RecHandsOver
  <2>2. HandsOver(handler.set) /\ DoorbellsMayAdd /\ handler' = NoHandler
    BY <1>3, HandOverIs, DoorbellPcAdds DEF HandOff
  <2>3. Sound'
    BY <1>3, RestoreIsSound DEF HandOff
  <2>. QED  BY <1>1, <1>2, <2>1, <2>2, <2>3, PartnersHandOver
<1>4. ASSUME NEW c \in Cores, DoorbellFirst(c) PROVE PartnersInv'
  <2>1. RecHandsOver({})
    <3>. DEFINE c1 == [rec.core EXCEPT !.PCWU = @ \ {c}]
    <3>1. rec' = [rec EXCEPT !.core = c1]
      BY <1>2, <1>4 DEF DoorbellFirst, Records
    <3>2. \A v \in CoreVectors \ {"PCWU"} : c1[v] = rec.core[v]
      BY <1>2 DEF Records, CoreVectors
    <3>. HIDE DEF c1
    <3>3. /\ rec'.act = rec.act /\ rec'.quad = rec.quad /\ rec'.qswu = rec.qswu
          /\ rec'.creq = rec.creq /\ rec'.level = rec.level /\ rec'.core = c1
      BY <1>2, <3>1 DEF Records
    <3>. QED  BY <3>2, <3>3 DEF RecHandsOver, CoreVectors
  <2>2. HandsOver({}) /\ DoorbellsMayAdd /\ handler' = handler
    BY <1>4, DoorbellPcAdds DEF DoorbellFirst, HandsOver, coreVars, pigVars, TypeInv, TypesOfPackets
  <2>3. Sound'
    BY <1>4 DEF DoorbellFirst, PartnersInv, Sound
  <2>. QED  BY <1>1, <1>2, <2>1, <2>2, <2>3, PartnersHandOver
<1>. QED  BY <1>3, <1>4

-----------------------------------------------------------------------------
(* The threads at work.                                                    *)
LEMMA LowestIn ==
    ASSUME NEW qs \in SUBSET Quads, qs # {}
    PROVE  Lowest(qs) \in qs
<1>1. qs \subseteq Nat
  BY SgpeAssumption
<1>2. \E q \in qs : \A p \in qs : ~(<<p, q>> \in OpToRel(<, Nat))
  BY <1>1, NatLessThanWellFounded, WFMin
<1>3. \E q \in qs : \A p \in qs : ~(p < q)
  BY <1>1, <1>2 DEF OpToRel
<1>4. \E q \in qs : \A p \in qs : q <= p
  BY <1>1, <1>3
<1>. QED  BY <1>4 DEF Lowest

LEMMA PartnersWork ==
    ASSUME PartnersInv, TypeInv, CoresStay, PacketsStay, ListsStay,
           notified' \subseteq notified, override' = override,
           Deep', QuadsAre', ClocksAre', ExitsClocked', ClockMessages', RclkOff',
           ClocksDone', SpecialsAre', BlocksAre', JobIs', EntryJob', ExitJob', PgpeQuads', Sound'
    PROVE  PartnersInv'
<1>1. CoresAre' /\ Packets2' /\ Packets3' /\ Handed'
  BY PartnersStay
<1>2. PayloadKinds' /\ NotStale'
  BY PartnersStay DEF PacketsStay
<1>. QED  BY <1>1, <1>2 DEF PartnersInv

(* The job after a step of a thread.                                       *)
LEMMA JobGoes ==
    ASSUME Shapes, NEW at, NEW qs
    PROVE  /\ ToQuads(at, qs) => job'.thread = job.thread /\ job'.at = at /\ job'.left = qs
           /\ To(at) => job'.thread = job.thread /\ job'.at = at /\ job'.left = job.left
BY DEF Shapes, IsJob, IsHandler, To, ToQuads

(* What p9_sgpe_stop_entry changes when it has chosen the quads that enter  *)
(* and those whose resonant clock is to be turned off first.                *)
EntrySelected(enter, disable) ==
    /\ \A q \in enter \union disable :
           /\ q \notin rec.quad.RCLK_REQ /\ q \notin rec.quad.RCLKX
           /\ rec.act[q] = 0 /\ \A c \in CoresOf(q) : rec.level[c] = 11
    /\ enter \intersect disable = {}
    /\ rec'.level = rec.level /\ rec'.act = rec.act /\ rec'.creq = rec.creq
    /\ rec'.qswu = rec.qswu
    /\ rec'.quad.ENTRY = enter
    /\ rec'.quad.RCLK_REQ = rec.quad.RCLK_REQ \union disable
    /\ rec'.quad.RCLK_DONE = rec.quad.RCLK_DONE \ enter
    /\ enter \subseteq rec.quad.RCLK_DONE
    /\ \A v \in {"RCLKX", "ACTIVE", "EXIT", "BLOCKX"} : rec'.quad[v] = rec.quad[v]
    /\ rec'.core.RCLKE = (rec.core.RCLKE \ In(enter)) \union In(disable)
    /\ \A v \in CoreVectors \ {"RCLKE"} : rec'.core[v] = rec.core[v]
    /\ \A c \in Cores : db2'[c] = IF \E q \in disable : c = First(q)
                                  THEN "RESONANT_CLOCK_DISABLE" ELSE db2[c]
    /\ job'.thread = job.thread /\ job'.at = "purge" /\ job'.left = enter

LEMMA EntrySelectsIs ==
    ASSUME TypeInv, Shapes, EntrySelects
    PROVE  \E enter, disable \in SUBSET Quads : EntrySelected(enter, disable)
<1>. DEFINE kept == UNION {rec.qswu.ACTIVE, rec.quad.BLOCKE, rec.quad.RCLK_REQ,
                           rec.quad.RCLKX}
            asleep == {q \in Quads \ kept :
                          rec.act[q] < 11
                          /\ \A c \in CoresOf(q) : rec.level[c] >= 11}
            enter == asleep \intersect rec.quad.RCLK_DONE
            disable == asleep \ (rec.quad.RCLK_DONE \union rec.quad.IN_STOP11)
            d1 == [rec.quad EXCEPT
                      !.ENTRY = enter, !.RCLK_DONE = @ \ enter,
                      !.IN_STOP11 = @ \union enter, !.RCLK_REQ = @ \union disable]
            c1 == [rec.core EXCEPT !.RCLKE = (@ \ In(enter)) \union In(disable)]
<1>1. /\ rec' = [rec EXCEPT
                         !.quad.ENTRY = enter,
                         !.quad.RCLK_DONE = @ \ enter,
                         !.quad.IN_STOP11 = @ \union enter,
                         !.quad.RCLK_REQ = @ \union disable,
                         !.core.RCLKE = (@ \ In(enter)) \union In(disable)]
      /\ db2' = [c \in Cores |-> IF c \in {First(q) : q \in disable}
                                 THEN "RESONANT_CLOCK_DISABLE" ELSE db2[c]]
      /\ ToQuads("purge", enter)
  BY DEF EntrySelects
<1>2. rec \in Records
  BY DEF TypeInv
<1>3. /\ enter \subseteq Quads /\ disable \subseteq Quads
      /\ enter \subseteq rec.quad.RCLK_DONE
      /\ enter \intersect disable = {} /\ enter \union disable \subseteq asleep
  OBVIOUS
<1>4. \A q \in asleep :
         /\ q \notin rec.quad.RCLK_REQ /\ q \notin rec.quad.RCLKX
         /\ rec.act[q] = 0 /\ \A c \in CoresOf(q) : rec.level[c] = 11
  BY <1>2, CoresOfQuads, SMTT(60) DEF Records
<1>. HIDE DEF enter, disable, asleep
<1>5. rec' = [rec EXCEPT !.quad = d1, !.core = c1]
  BY <1>1, <1>2 DEF Records
<1>6. /\ d1.ENTRY = enter /\ d1.RCLK_REQ = rec.quad.RCLK_REQ \union disable
      /\ d1.RCLK_DONE = rec.quad.RCLK_DONE \ enter
      /\ \A v \in {"RCLKX", "ACTIVE", "EXIT", "BLOCKX"} : d1[v] = rec.quad[v]
      /\ c1.RCLKE = (rec.core.RCLKE \ In(enter)) \union In(disable)
      /\ \A v \in CoreVectors \ {"RCLKE"} : c1[v] = rec.core[v]
  BY <1>2 DEF Records, QuadVectors, CoreVectors
<1>. HIDE DEF d1, c1
<1>7. /\ rec'.level = rec.level /\ rec'.act = rec.act /\ rec'.creq = rec.creq
      /\ rec'.qswu = rec.qswu /\ rec'.quad = d1 /\ rec'.core = c1
  BY <1>2, <1>5 DEF Records
<1>8. job'.thread = job.thread /\ job'.at = "purge" /\ job'.left = enter
  BY <1>1, JobGoes
<1>9. \A c \in Cores : db2'[c] = IF \E q \in disable : c = First(q)
                                 THEN "RESONANT_CLOCK_DISABLE" ELSE db2[c]
  BY <1>1
<1>10. \A q \in enter \union disable :
         /\ q \notin rec.quad.RCLK_REQ /\ q \notin rec.quad.RCLKX
         /\ rec.act[q] = 0 /\ \A c \in CoresOf(q) : rec.level[c] = 11
  BY <1>3, <1>4
<1>11. EntrySelected(enter, disable)
  BY <1>3, <1>6, <1>7, <1>8, <1>9, <1>10 DEF EntrySelected
<1>. QED  BY <1>3, <1>11

LEMMA PartnersEntrySelects ==
    ASSUME TypeInv, MaskInv, PartnersInv, EntrySelects
    PROVE  PartnersInv'
<1>1. PICK enter \in SUBSET Quads, disable \in SUBSET Quads :
         EntrySelected(enter, disable)
  BY EntrySelectsIs DEF MaskInv
<1>. USE DEF EntrySelected
<1>2. /\ CoresStay /\ PacketsStay /\ handler = NoHandler /\ handler' = NoHandler
      /\ notified' = notified /\ override' = override /\ powered' = powered
      /\ rclk' = rclk /\ pgpe' = pgpe /\ panic' = panic
      /\ pend' = pend /\ payload' = payload
      /\ job.thread = "entry" /\ job.at = "select"
  BY DEF EntrySelects, ThreadRuns, coreVars, pigVars, irqVars, CoresStay, PacketsStay
<1>3. /\ rec'.quad.RCLKX = rec.quad.RCLKX /\ rec'.quad.ACTIVE = rec.quad.ACTIVE
      /\ rec'.quad.EXIT = rec.quad.EXIT /\ rec'.quad.BLOCKX = rec.quad.BLOCKX
      /\ rec'.core.PIGX = rec.core.PIGX /\ rec'.core.PIGE = rec.core.PIGE
      /\ rec'.core.ACTIVE = rec.core.ACTIVE /\ rec'.core.EXIT = rec.core.EXIT
      /\ rec'.core.BLOCKX = rec.core.BLOCKX
      /\ rec'.level = rec.level /\ rec'.act = rec.act
  BY <1>1 DEF CoreVectors
<1>4. In11Grows /\ ListsStay /\ QuadsStay /\ BlocksStay /\ SpecialsStay
      /\ (\A x : In11(x)' <=> In11(x)) /\ (\A q : AllIn11(q)' <=> AllIn11(q))
  BY <1>1, <1>2, <1>3, CoresGrow DEF ListsStay, QuadsStay, BlocksStay, SpecialsStay,
     In11, AllIn11, CoresStay
<1>5. \A q \in enter \union disable : q \in powered /\ AllIn11(q)
  BY <1>1, CoresOfQuads DEF PartnersInv, QuadsAre, Deep, AllIn11
<1>6. \A c \in Cores : c \in rec'.core.RCLKE <=>
          \/ c \in rec.core.RCLKE /\ QuadOf(c) \notin enter
          \/ QuadOf(c) \in disable
  BY <1>1, CoresIn
<1>7. rec'.core.RCLKE \subseteq Cores /\ rec.core.RCLKE \subseteq Cores
  BY <1>1, CoresIn DEF TypeInv, Records, CoreVectors
<1>8. \A t \in StopTypes : Seen(t) = {} /\ Seen(t)' = {}
  BY <1>2 DEF Seen, NoHandler, StopTypes
<1>9. \A t \in StopTypes : Waiting(t)' = Waiting(t)
  BY <1>2, <1>8 DEF Waiting
<1>10. Deep' /\ QuadsAre' /\ BlocksAre'
  BY <1>3, <1>4, PartnersStay
<1>11. ClocksAre'
  <2>1. \A q \in Quads : \/ CoresOf(q) \subseteq rec'.core.RCLKE
                         \/ CoresOf(q) \intersect rec'.core.RCLKE = {}
    <3>. SUFFICES ASSUME NEW q \in Quads
         PROVE  \/ CoresOf(q) \subseteq rec'.core.RCLKE
                \/ CoresOf(q) \intersect rec'.core.RCLKE = {}
      OBVIOUS
    <3>1. CoresOf(q) \subseteq Cores /\ \A c \in CoresOf(q) : QuadOf(c) = q
      BY CoresOfQuads
    <3>2. \/ CoresOf(q) \subseteq rec.core.RCLKE
          \/ CoresOf(q) \intersect rec.core.RCLKE = {}
      BY DEF PartnersInv, ClocksAre
    <3>. QED  BY <1>6, <3>1, <3>2
  <2>2. \A c \in rec'.core.RCLKE : In11(c)' /\ QuadOf(c) \in powered'
    <3>1. \A c \in rec.core.RCLKE : In11(c) /\ QuadOf(c) \in powered
      BY DEF PartnersInv, ClocksAre
    <3>2. \A c \in Cores : QuadOf(c) \in disable => In11(c) /\ QuadOf(c) \in powered
      BY <1>5, CoresOfQuads DEF AllIn11
    <3>. QED  BY <1>2, <1>4, <1>6, <1>7, <3>1, <3>2
  <2>3. \A q \in rec'.quad.RCLK_REQ : CoresOf(q) \subseteq rec'.core.RCLKE
    BY <1>1, <1>6, CoresOfQuads DEF PartnersInv, ClocksAre, TypeInv, Records,
       QuadVectors
  <2>4. \A q \in rec'.quad.RCLKX : /\ q \in powered' /\ AllIn11(q)'
                                   /\ CoresOf(q) \intersect rec'.core.RCLKE = {}
    BY <1>1, <1>2, <1>3, <1>4, <1>6, CoresOfQuads DEF PartnersInv, ClocksAre, TypeInv,
       Records, QuadVectors
  <2>. QED  BY <1>8, <2>1, <2>2, <2>3, <2>4 DEF ClocksAre, StopTypes
<1>12. ClockMessages'
  <2>. SUFFICES ASSUME NEW c \in Cores PROVE ClockMessage(c)'
    BY DEF ClockMessages
  <2>1. ClockMessage(c)
    BY DEF PartnersInv, ClockMessages
  <2>2. /\ Waiting("TYPE0")' = Waiting("TYPE0") /\ Seen("TYPE0")' = Seen("TYPE0")
        /\ rec'.quad.RCLKX = rec.quad.RCLKX
        /\ rec.quad.RCLK_REQ \subseteq rec'.quad.RCLK_REQ
    BY <1>1, <1>3, <1>8, <1>9 DEF StopTypes
  <2>3. CASE \E q \in disable : c = First(q)
    <3>1. QuadOf(c) \in disable /\ c = First(QuadOf(c))
      BY <2>3, CoresOfQuads
    <3>2. db2'[c] = "RESONANT_CLOCK_DISABLE" /\ QuadOf(c) \in rec'.quad.RCLK_REQ
      BY <1>1, <2>3, <3>1
    <3>3. c \notin Waiting("TYPE0")
      BY <1>1, <2>1, <3>1 DEF ClockMessage
    <3>. QED  BY <2>2, <3>1, <3>2, <3>3 DEF ClockMessage
  <2>4. CASE ~\E q \in disable : c = First(q)
    BY <1>1, <2>4, <1>2, <2>1, <2>2 DEF ClockMessage
  <2>. QED  BY <2>3, <2>4
<1>13. RclkOff'
  <2>. SUFFICES ASSUME NEW q \in Quads, q \notin rclk
       PROVE  (/\ AllIn11(q)
               /\ q \in powered => \/ q \in rec.quad.RCLKX
                                   \/ CoresOf(q) \subseteq rec.core.RCLKE
                                   \/ Entering /\ q \in rec.quad.ENTRY)'
    BY <1>2 DEF RclkOff
  <2>1. ~Entering /\ Entering'
    BY <1>1, <1>2 DEF Entering
  <2>2. /\ AllIn11(q)
        /\ q \in powered => q \in rec.quad.RCLKX \/ CoresOf(q) \subseteq rec.core.RCLKE
    BY <2>1 DEF PartnersInv, RclkOff
  <2>3. CoresOf(q) \subseteq rec.core.RCLKE => q \in enter \/ CoresOf(q) \subseteq rec'.core.RCLKE
    BY <1>6, CoresOfQuads
  <2>. QED  BY <1>1, <1>2, <1>3, <1>4, <2>1, <2>2, <2>3
<1>14. SpecialsAre'
  BY <1>9, <1>1, <1>2, <1>4 DEF StopTypes, PartnersInv, SpecialsAre, SpecialsStay,
     EntryLeft
<1>15. JobIs' /\ ExitJob' /\ ExitsClocked'
  BY <1>1, <1>2 DEF JobIs, Places, ExitJob, Exiting, ExitsClocked, ExitWorks
<1>16. EntryJob'
  <2>1. enter \intersect rclk = {}
    BY <1>1 DEF PartnersInv, ClocksDone
  <2>. QED  BY <1>1, <1>6, <1>2, <1>3, <1>4, <1>5, <2>1, CoresOfQuads DEF EntryJob, EntryLeft
<1>17. PgpeQuads' /\ Sound'
  BY <1>1, <1>2, <1>3 DEF PartnersInv, PgpeQuads, Exiting, Sound
<1>18. ClocksDone'
  <2>1. \A q \in rec.quad.RCLK_DONE \ enter :
            CoresOf(q) \subseteq Cores /\ \A c \in CoresOf(q) : QuadOf(c) \notin enter
    BY CoresOfQuads DEF TypeInv, Records, QuadVectors
  <2>. QED  BY <1>1, <1>2, <1>6, <2>1 DEF PartnersInv, ClocksDone
<1>. QED  BY <1>2, <1>4, <1>10, <1>11, <1>12, <1>13, <1>14, <1>15, <1>16, <1>17, <1>18,
             PartnersWork

-----------------------------------------------------------------------------
(* What the entry thread leaves alone.                                     *)
EntryFrame ==
    /\ CoresStay /\ PacketsStay /\ handler = NoHandler
    /\ notified' \subseteq notified /\ override' = override /\ rclk' = rclk
    /\ pgpe'.cores = pgpe.cores
    /\ job.thread = "entry" /\ job'.thread = "entry"
    /\ job'.at \in Places
    /\ rec'.level = rec.level /\ rec'.core = rec.core /\ rec'.creq = rec.creq
    /\ rec'.qswu.EXIT = rec.qswu.EXIT /\ rec'.qswu.BLOCKX = rec.qswu.BLOCKX
    /\ rec'.quad.RCLK_REQ = rec.quad.RCLK_REQ /\ rec'.quad.BLOCKX = rec.quad.BLOCKX
    /\ rec'.quad.RCLK_DONE = rec.quad.RCLK_DONE

LEMMA PartnersEntryFrame ==
    ASSUME TypeInv, PartnersInv, EntryFrame,
           QuadsAre', ClocksAre', ClockMessages', RclkOff', SpecialsAre', EntryJob',
           PgpeQuads', Sound'
    PROVE  PartnersInv'
<1>1. In11Grows /\ ListsStay /\ CoresStay /\ PacketsStay
  BY CoresGrow DEF EntryFrame, ListsStay
<1>2. Deep' /\ BlocksAre'
  BY <1>1, PartnersStay DEF EntryFrame, BlocksStay
<1>3. ExitsClocked' /\ ExitJob' /\ JobIs'
  BY DEF EntryFrame, ExitsClocked, ExitWorks, ExitJob, Exiting, JobIs
<1>4. ClocksDone'
  BY DEF EntryFrame, PartnersInv, ClocksDone
<1>. QED  BY <1>1, <1>2, <1>3, <1>4, PartnersWork DEF EntryFrame

LEMMA EntryFrameTells ==
    ASSUME EntryFrame
    PROVE  /\ \A x : In11(x)' <=> In11(x)
           /\ \A q : AllIn11(q)' <=> AllIn11(q)
           /\ \A t \in StopTypes : Seen(t) = {} /\ Seen(t)' = {}
           /\ \A t \in StopTypes : Waiting(t)' = Waiting(t) /\ Waiting(t) = pend[t]
           /\ Waiting("TYPE6")' = Waiting("TYPE6") /\ Waiting("TYPE6") = pend.TYPE6
           /\ Waiting("TYPE0")' = Waiting("TYPE0") /\ Seen("TYPE3")' = {}
           /\ Seen("TYPE0") = {} /\ Seen("TYPE0")' = {}
           /\ payload' = payload /\ pend' = pend
BY DEF EntryFrame, In11, AllIn11, CoresStay, PacketsStay, Seen, Waiting, NoHandler, StopTypes

LEMMA PartnersPurge ==
    ASSUME Regime, TypeInv, MaskInv, PartnersInv, NEW q \in Quads, Purge(q)
    PROVE  PartnersInv'
<1>. DEFINE abort == \/ job.aborted
                     \/ q \notin rec.quad.BLOCKX /\ ExitArrived(q)
            d1 == [rec.quad EXCEPT !.RCLKX = @ \union {q}, !.ENTRY = @ \ {q}]
<1>1. /\ job' = [job EXCEPT !.left = @ \ {q}, !.aborted = abort]
      /\ rec' = IF abort THEN [rec EXCEPT !.quad.RCLKX = @ \union {q},
                                          !.quad.ENTRY = @ \ {q}]
                ELSE rec
      /\ db2' = IF abort THEN [db2 EXCEPT ![First(q)] = "RESONANT_CLOCK_ENABLE"]
                ELSE db2
  BY DEF Purge
<1>2. rec \in Records /\ Shapes
  BY DEF TypeInv, MaskInv
<1>3. /\ job.thread = "entry" /\ job.at = "purge" /\ job.left # {} /\ q = Lowest(job.left)
      /\ UNCHANGED <<coreVars, cmeBlock, cmeSuspend, db1, powered, rclk,
                     requestVars, pigVars, irqVars, ee, handler, pgpe, panic>>
      /\ handler = NoHandler
  BY DEF Purge, ThreadRuns
<1>4. ~abort => \/ q \in rec.quad.BLOCKX
                \/ ~(q \in pend.TYPE6 /\ payload.TYPE6[q] = "exit")
  BY DEF ExitArrived
<1>5. q \in job.left /\ job.left \subseteq rec.quad.ENTRY /\ Entering
      /\ q \in rec.quad.ENTRY
      /\ \A p \in rec.quad.ENTRY : /\ p \in powered /\ AllIn11(p)
                                   /\ p \notin rec.quad.RCLKX /\ p \notin rclk
                                   /\ CoresOf(p) \intersect rec.core.RCLKE = {}
  BY <1>3, LowestIn DEF TypeInv, TypesOfJob, PartnersInv, EntryJob, Entering, EntryLeft
<1>. HIDE DEF abort
<1>6. job'.thread = "entry" /\ job'.at = "purge" /\ job'.left = job.left \ {q}
  BY <1>1, <1>2, <1>3 DEF Shapes, IsJob, IsHandler
<1>7. /\ d1.RCLKX = rec.quad.RCLKX \union {q} /\ d1.ENTRY = rec.quad.ENTRY \ {q}
      /\ \A v \in QuadVectors \ {"RCLKX", "ENTRY"} : d1[v] = rec.quad[v]
  BY <1>2 DEF Records, QuadVectors
<1>8. rec' = IF abort THEN [rec EXCEPT !.quad = d1] ELSE rec
  BY <1>1, <1>2 DEF Records
<1>. HIDE DEF d1
<1>9. /\ rec'.level = rec.level /\ rec'.core = rec.core /\ rec'.creq = rec.creq
      /\ rec'.qswu = rec.qswu /\ rec'.act = rec.act
      /\ rec'.quad = IF abort THEN d1 ELSE rec.quad
  BY <1>2, <1>8 DEF Records
<1>10. /\ rec'.quad.RCLKX = IF abort THEN rec.quad.RCLKX \union {q} ELSE rec.quad.RCLKX
       /\ rec'.quad.ENTRY = IF abort THEN rec.quad.ENTRY \ {q} ELSE rec.quad.ENTRY
       /\ rec'.quad.RCLK_REQ = rec.quad.RCLK_REQ /\ rec'.quad.BLOCKX = rec.quad.BLOCKX
       /\ rec'.quad.ACTIVE = rec.quad.ACTIVE /\ rec'.quad.RCLK_DONE = rec.quad.RCLK_DONE
  BY <1>7, <1>9 DEF QuadVectors
<1>11. EntryFrame
  BY <1>3, <1>6, <1>9, <1>10 DEF EntryFrame, CoresStay, PacketsStay, coreVars, pigVars,
     irqVars, Places
<1>12. QuadsAre'
  BY <1>3, <1>9, <1>10, <1>11, EntryFrameTells DEF PartnersInv, QuadsAre
<1>13. ClocksAre'
  BY <1>3, <1>5, <1>9, <1>10, <1>11, EntryFrameTells DEF PartnersInv, ClocksAre
<1>14. ClockMessages'
  <2>. SUFFICES ASSUME NEW c \in Cores PROVE ClockMessage(c)'
    BY DEF ClockMessages
  <2>1. ClockMessage(c) /\ First(q) \in CoresOf(q) /\ QuadOf(First(q)) = q
        /\ First(q) \in Cores
    BY CoresOfQuads DEF PartnersInv, ClockMessages
  <2>2. /\ Waiting("TYPE0")' = Waiting("TYPE0") /\ Seen("TYPE0")' = Seen("TYPE0")
        /\ pend' = pend /\ payload' = payload /\ rclk' = rclk
        /\ rec.quad.RCLKX \subseteq rec'.quad.RCLKX
        /\ rec'.quad.RCLK_REQ = rec.quad.RCLK_REQ
    BY <1>10, <1>11, EntryFrameTells DEF EntryFrame
  <2>3. CASE abort /\ c = First(q)
    <3>1. db2'[c] = "RESONANT_CLOCK_ENABLE" /\ q \in rec'.quad.RCLKX
      BY <1>1, <1>10, <2>3, <2>1 DEF TypeInv, TypesOfCmes
    <3>2. q \notin rec.quad.RCLK_REQ
      BY <1>5, <2>1 DEF PartnersInv, ClocksAre
    <3>3. c \notin Waiting("TYPE0")
      BY <1>5, <2>1, <2>3, <3>2 DEF ClockMessage
    <3>. QED  BY <2>1, <2>2, <2>3, <3>1, <3>3 DEF ClockMessage
  <2>4. CASE ~(abort /\ c = First(q))
    BY <1>1, <2>4, <2>1, <2>2 DEF TypeInv, TypesOfCmes, ClockMessage
  <2>. QED  BY <2>3, <2>4
<1>15. RclkOff'
  BY <1>3, <1>5, <1>6, <1>9, <1>10, <1>11, EntryFrameTells DEF PartnersInv, RclkOff,
     Entering, EntryFrame
<1>16. SpecialsAre'
  <2>1. rec'.qswu.EXIT = {} /\ rec'.qswu.BLOCKX = {} /\ powered' = powered
    BY <1>3, <1>9 DEF PartnersInv, SpecialsAre
  <2>2. EntryLeft' = rec'.quad.ENTRY /\ EntryLeft = rec.quad.ENTRY
    BY <1>3, <1>6 DEF EntryLeft
  <2>3. ~abort /\ q \in pend.TYPE6 /\ payload.TYPE6[q] = "exit" => q \notin Special
    BY <1>4 DEF PartnersInv, BlocksAre, Regime, ExitBlocked
  <2>. QED  BY <1>3, <1>5, <1>6, <1>10, <1>11, <2>1, <2>2, <2>3, EntryFrameTells
            DEF PartnersInv, SpecialsAre
<1>17. EntryJob'
  BY <1>6, <1>3, <1>5, <1>9, <1>10, <1>11, EntryFrameTells DEF EntryLeft, EntryJob
<1>18. PgpeQuads' /\ Sound'
  BY <1>3, <1>6, <1>10 DEF PartnersInv, PgpeQuads, Exiting, Sound
<1>. QED  BY <1>11, <1>12, <1>13, <1>14, <1>15, <1>16, <1>17, <1>18, PartnersEntryFrame

(* The PGPE knows which quads are active, and those that enter.            *)
LEMMA PartnersEntryTells ==
    ASSUME TypeInv, MaskInv, PartnersInv, EntryNotifies \/ EntryTellsDone
    PROVE  PartnersInv'
<1>. DEFINE done == EntryTellsDone
<1>1. /\ job.thread = "entry" /\ job.left = {} /\ rec' = rec
      /\ job.at = IF done THEN "quads" ELSE "purge"
      /\ TellsEntry(IF done THEN "DONE" ELSE "NOTIFY", IF done THEN "end" ELSE "quads")
      /\ UNCHANGED <<coreVars, cmeVars, pigVars, irqVars, handler>>
      /\ handler = NoHandler
  <2>1. CASE EntryTellsDone
    BY <2>1 DEF EntryTellsDone, ThreadRuns
  <2>2. CASE EntryNotifies /\ ~done
    BY <2>2 DEF EntryNotifies, ThreadRuns
  <2>. QED  BY <2>1, <2>2
<1>. HIDE DEF done
<1>2. pgpe.quads = rec.quad.ACTIVE \union (IF done THEN rec.quad.ENTRY ELSE {})
      /\ rec.quad.ACTIVE = powered
  BY <1>1 DEF PartnersInv, PgpeQuads, Exiting, QuadsAre
<1>3. /\ ~done => rec.quad.ENTRY \subseteq powered
      /\ done => rec.quad.ENTRY \intersect powered = {}
  BY <1>1 DEF PartnersInv, EntryJob, Entering, EntryLeft
<1>4. /\ ToQuads(IF done THEN "end" ELSE "quads", rec.quad.ENTRY)
      /\ pgpe'.quads = IF done THEN rec.quad.ACTIVE \ rec.quad.ENTRY ELSE pgpe.quads
      /\ pgpe'.cores = pgpe.cores /\ panic' = panic
  <2>. DEFINE quads == pgpe.quads \ rec.quad.ENTRY
  <2>1. CASE rec.quad.ENTRY = {}
    BY <1>1, <2>1, <1>2 DEF TellsEntry
  <2>2. CASE rec.quad.ENTRY # {}
    <3>1. quads = rec.quad.ACTIVE \ rec.quad.ENTRY
      BY <1>2
    <3>2. /\ pgpe' = IF done THEN [pgpe EXCEPT !.quads = quads] ELSE pgpe
          /\ ToQuads(IF done THEN "end" ELSE "quads", rec.quad.ENTRY)
          /\ UNCHANGED panic
      BY <1>1, <2>2, <3>1 DEF TellsEntry
    <3>3. pgpe = [cores |-> pgpe.cores, quads |-> pgpe.quads]
      BY DEF TypeInv, TypesOfPgpe
    <3>. HIDE DEF quads
    <3>4. CASE done
      BY <3>1, <3>2, <3>3, <3>4
    <3>5. CASE ~done
      BY <3>2, <3>5
    <3>. QED  BY <3>2, <3>4, <3>5
  <2>. QED  BY <2>1, <2>2
<1>5. job'.thread = "entry" /\ job'.at = (IF done THEN "end" ELSE "quads")
      /\ job'.left = rec.quad.ENTRY
  BY <1>1, <1>4, JobGoes DEF MaskInv
<1>6. EntryFrame
  BY <1>1, <1>4, <1>5 DEF EntryFrame, CoresStay, PacketsStay, coreVars, cmeVars, pigVars,
     irqVars, Places
<1>7. powered' = powered /\ rclk' = rclk /\ db2' = db2 /\ handler' = handler
  BY <1>1 DEF cmeVars
<1>8. QuadsAre' /\ ClocksAre' /\ ClockMessages'
  BY <1>1, <1>6, <1>7, CoresGrow, RecordStays, PartnersStay DEF EntryFrame
<1>9. RclkOff'
  BY <1>1, <1>5, <1>3, <1>6, <1>7, EntryFrameTells DEF Entering, TypeInv, Records,
     QuadVectors, PartnersInv, RclkOff
<1>10. SpecialsAre'
  BY <1>1, <1>5, <1>6, <1>7, EntryFrameTells DEF PartnersInv, SpecialsAre, Entering, EntryLeft
<1>11. EntryJob'
  BY <1>1, <1>5, <1>6, <1>7, EntryFrameTells DEF PartnersInv, EntryJob, Entering, EntryLeft
<1>12. PgpeQuads' /\ Sound'
  BY <1>1, <1>2, <1>3, <1>4, <1>5 DEF PartnersInv, PgpeQuads, Exiting, Sound
<1>. QED  BY <1>6, <1>8, <1>9, <1>10, <1>11, <1>12, PartnersEntryFrame

LEMMA PartnersEntryQuad ==
    ASSUME TypeInv, MaskInv, PartnersInv, NEW q \in Quads, EntryQuad(q)
    PROVE  PartnersInv'
<1>. DEFINE d1 == [rec.quad EXCEPT !.ACTIVE = @ \ {q}]
            q1 == [rec.qswu EXCEPT !.ENTRY = @ \ {q}]
            a1 == [rec.act EXCEPT ![q] = 11]
<1>1. /\ job.thread = "entry" /\ job.at = "quads" /\ job.left # {} /\ q = Lowest(job.left)
      /\ handler = NoHandler
      /\ powered' = powered \ {q} /\ notified' = notified \ CoresOf(q)
      /\ db2' = [c \in Cores |-> IF c \in CoresOf(q) THEN "none" ELSE db2[c]]
      /\ rec' = [rec EXCEPT !.act[q] = 11, !.quad.ACTIVE = @ \ {q},
                            !.qswu.ENTRY = @ \ {q}]
      /\ ToQuads("quads", job.left \ {q})
      /\ UNCHANGED <<running, wns, type, rclk, pigVars, irqVars, handler, pgpe>>
      /\ panic' = IF q \in rclk THEN "RESCLK_ON" ELSE panic
  BY DEF EntryQuad, ThreadRuns
<1>2. rec \in Records
  BY DEF TypeInv
<1>3. /\ d1.ACTIVE = rec.quad.ACTIVE \ {q}
      /\ \A v \in QuadVectors \ {"ACTIVE"} : d1[v] = rec.quad[v]
      /\ q1.EXIT = rec.qswu.EXIT /\ q1.BLOCKX = rec.qswu.BLOCKX
      /\ \A p \in Quads : a1[p] = IF p = q THEN 11 ELSE rec.act[p]
  BY <1>2 DEF Records, QuadVectors, QswuVectors
<1>4. rec' = [rec EXCEPT !.act = a1, !.quad = d1, !.qswu = q1]
  BY <1>1, <1>2 DEF Records
<1>. HIDE DEF d1, q1, a1
<1>5. /\ rec'.level = rec.level /\ rec'.core = rec.core /\ rec'.creq = rec.creq
      /\ rec'.act = a1 /\ rec'.quad = d1 /\ rec'.qswu = q1
  BY <1>2, <1>4 DEF Records
<1>6. /\ rec'.quad.ACTIVE = rec.quad.ACTIVE \ {q} /\ rec'.quad.ENTRY = rec.quad.ENTRY
      /\ rec'.quad.RCLK_REQ = rec.quad.RCLK_REQ /\ rec'.quad.RCLKX = rec.quad.RCLKX
      /\ rec'.quad.BLOCKX = rec.quad.BLOCKX /\ rec'.quad.RCLK_DONE = rec.quad.RCLK_DONE
  BY <1>3, <1>5 DEF QuadVectors
<1>7. job'.thread = "entry" /\ job'.at = "quads" /\ job'.left = job.left \ {q}
  BY <1>1, JobGoes DEF MaskInv
<1>8. EntryFrame
  BY <1>1, <1>3, <1>5, <1>6, <1>7 DEF EntryFrame, CoresStay, PacketsStay, pigVars, irqVars, Places
<1>9. /\ q \in job.left /\ q \in rec.quad.ENTRY /\ job.left \subseteq rec.quad.ENTRY
      /\ \A p \in job.left : /\ p \in powered /\ AllIn11(p)
                             /\ p \notin rec.quad.RCLKX /\ p \notin rclk
                             /\ CoresOf(p) \intersect rec.core.RCLKE = {}
      /\ (rec.quad.ENTRY \ job.left) \intersect powered = {}
      /\ Entering
  BY <1>1, LowestIn DEF TypeInv, TypesOfJob, PartnersInv, EntryJob, Entering, EntryLeft
<1>10. QuadsAre'
  <2>1. /\ rec.quad.ACTIVE = powered
        /\ \A p \in Quads : (rec.act[p] = 0) <=> (p \in powered)
        /\ \A p \in Quads \ powered : AllIn11(p)
    BY DEF PartnersInv, QuadsAre
  <2>2. rec'.quad.ACTIVE = powered'
    BY <1>1, <1>6, <2>1
  <2>3. \A p \in Quads : (rec'.act[p] = 0) <=> (p \in powered')
    <3>. SUFFICES ASSUME NEW p \in Quads PROVE (rec'.act[p] = 0) <=> (p \in powered')
      OBVIOUS
    <3>1. rec'.act[p] = IF p = q THEN 11 ELSE rec.act[p]
      BY <1>3, <1>5
    <3>2. powered' = powered \ {q} /\ ((rec.act[p] = 0) <=> (p \in powered))
      BY <1>1, <2>1
    <3>. QED  BY <3>1, <3>2
  <2>4. \A p \in Quads \ powered' : AllIn11(p)'
    BY <1>1, <1>8, <1>9, <2>1, EntryFrameTells
  <2>. QED  BY <2>2, <2>3, <2>4 DEF QuadsAre
<1>11. ClocksAre'
  <2>1. \A c \in rec.core.RCLKE : QuadOf(c) # q
    BY <1>2, <1>9, CoresOfQuads DEF Records, CoreVectors
  <2>. QED  BY <1>1, <1>5, <1>6, <1>8, <1>9, <2>1, EntryFrameTells DEF PartnersInv, ClocksAre
<1>12. ClockMessages'
  <2>1. \A c \in Cores : db2'[c] \in {"none", db2[c]}
    BY <1>1
  <2>2. /\ Waiting("TYPE0")' = Waiting("TYPE0") /\ Seen("TYPE0")' = Seen("TYPE0")
        /\ pend' = pend /\ payload' = payload /\ rclk' = rclk
    BY <1>8, EntryFrameTells DEF EntryFrame
  <2>. QED  BY <1>6, <2>1, <2>2 DEF PartnersInv, ClockMessages, ClockMessage
<1>13. RclkOff'
  BY <1>1, <1>5, <1>6, <1>7, <1>8, EntryFrameTells DEF PartnersInv, RclkOff, Entering
<1>14. SpecialsAre'
  <2>1. EntryLeft = job.left /\ EntryLeft' = job'.left /\ payload' = payload
        /\ Waiting("TYPE6")' = Waiting("TYPE6")
    BY <1>1, <1>7, <1>8, EntryFrameTells DEF EntryLeft
  <2>2. rec'.qswu.EXIT = {} /\ rec'.qswu.BLOCKX = {}
    BY <1>3, <1>5 DEF PartnersInv, SpecialsAre
  <2>. SUFFICES ASSUME NEW p \in Waiting("TYPE6"), payload.TYPE6[p] = "exit"
       PROVE  p \in Special /\ p \in powered' /\ p \notin job'.left
    BY <2>1, <2>2 DEF SpecialsAre
  <2>3. p \in Special /\ p \in powered /\ p \notin job.left
    BY <1>1, <1>9, <2>1 DEF PartnersInv, SpecialsAre
  <2>. QED  BY <1>1, <1>7, <1>9, <2>3
<1>15. EntryJob'
  BY <1>7, <1>1, <1>5, <1>6, <1>8, <1>9, EntryFrameTells DEF EntryLeft, EntryJob
<1>16. PgpeQuads' /\ Sound'
  BY <1>1, <1>6, <1>7, <1>9 DEF PartnersInv, PgpeQuads, Exiting, Sound, QuadsAre
<1>. QED  BY <1>8, <1>10, <1>11, <1>12, <1>13, <1>14, <1>15, <1>16, PartnersEntryFrame

-----------------------------------------------------------------------------
(* The exit thread tells the PGPE which quads exit.                        *)
TellsAs(r, at) ==
    /\ rec' = r /\ job'.thread = job.thread /\ job'.at = at
    /\ job'.left = r.quad.EXIT /\ panic' = panic
    /\ pgpe'.cores = pgpe.cores /\ pgpe'.quads = pgpe.quads \union r.quad.EXIT

LEMMA TellsExitIs ==
    ASSUME TypeInv, Shapes, NEW r, NEW at, TellsExit(r, at),
           pgpe.quads \union r.quad.EXIT = r.quad.EXIT \union r.quad.ACTIVE
    PROVE  TellsAs(r, at)
<1>. DEFINE quads == pgpe.quads \union r.quad.EXIT
<1>1. pgpe = [cores |-> pgpe.cores, quads |-> pgpe.quads]
  BY DEF TypeInv, TypesOfPgpe
<1>2. CASE r.quad.EXIT = {}
  BY <1>2, JobGoes DEF TellsExit, TellsAs
<1>3. CASE r.quad.EXIT # {}
  <2>1. /\ pgpe' = [pgpe EXCEPT !.quads = quads]
        /\ rec' = r /\ ToQuads(at, r.quad.EXIT) /\ UNCHANGED panic
    BY <1>3 DEF TellsExit
  <2>. HIDE DEF quads
  <2>2. pgpe'.cores = pgpe.cores /\ pgpe'.quads = quads
    BY <1>1, <2>1
  <2>. QED  BY <2>1, <2>2, JobGoes DEF TellsAs, quads
<1>. QED  BY <1>2, <1>3

LEMMA PartnersExitTells ==
    ASSUME TypeInv, MaskInv, PartnersInv, ExitSelects \/ ExitTellsDone
    PROVE  PartnersInv'
<1>1. /\ UNCHANGED <<coreVars, cmeVars, pigVars, irqVars, handler>>
      /\ job.thread = "exit" /\ rec \in Records
      /\ running' = running /\ wns' = wns /\ type' = type /\ notified' = notified
      /\ powered' = powered /\ rclk' = rclk /\ db2' = db2 /\ pend' = pend
      /\ payload' = payload /\ override' = override /\ handler' = handler
  BY DEF ExitSelects, ExitTellsDone, ThreadRuns, TypeInv, coreVars, cmeVars, pigVars, irqVars
<1>2. PICK r \in Records, at \in {"express", "end"} :
         /\ TellsExit(r, at)
         /\ r.level = rec.level /\ r.act = rec.act /\ r.core = rec.core
         /\ r.qswu = rec.qswu /\ r.creq = rec.creq
         /\ \A v \in QuadVectors \ {"EXIT"} : r.quad[v] = rec.quad[v]
         /\ \/ /\ at = "express" /\ job.at = "select"
               /\ r.quad.EXIT = {q \in Quads :
                      /\ \/ CoresOf(q) \intersect rec.core.EXIT # {}
                         \/ q \in rec.qswu.EXIT
                      /\ rec.act[q] = 11}
            \/ /\ at = "end" /\ job.at = "quads" /\ job.left = {} /\ r = rec
  <2>1. CASE ExitSelects
    <3>. DEFINE quads == {q \in Quads :
                      /\ \/ CoresOf(q) \intersect rec.core.EXIT # {}
                         \/ q \in rec.qswu.EXIT
                      /\ rec.act[q] = 11}
                d1 == [rec.quad EXCEPT !.EXIT = quads]
                r == [rec EXCEPT !.quad = d1]
    <3>1. TellsExit([rec EXCEPT !.quad.EXIT = quads], "express") /\ job.at = "select"
      BY <2>1 DEF ExitSelects, ThreadRuns
    <3>. quads \subseteq Quads
      OBVIOUS
    <3>. HIDE DEF quads
    <3>2. [rec EXCEPT !.quad.EXIT = quads] = r
      BY <1>1 DEF Records
    <3>3. /\ d1 \in [QuadVectors -> SUBSET Quads] /\ d1.EXIT = quads
          /\ \A v \in QuadVectors \ {"EXIT"} : d1[v] = rec.quad[v]
      BY <1>1 DEF Records, QuadVectors
    <3>. HIDE DEF d1
    <3>4. /\ r.level = rec.level /\ r.act = rec.act /\ r.core = rec.core
          /\ r.qswu = rec.qswu /\ r.creq = rec.creq /\ r.quad = d1
          /\ r \in Records
      BY <1>1, <3>3 DEF Records
    <3>. HIDE DEF r
    <3>5. TellsExit(r, "express")
      BY <3>1, <3>2
    <3>. QED  BY <3>1, <3>3, <3>4, <3>5 DEF quads
  <2>2. CASE ExitTellsDone
    BY <1>1, <2>2 DEF ExitTellsDone, ThreadRuns
  <2>. QED  BY <2>1, <2>2
<1>3. r.quad.ACTIVE = powered /\ rec.quad.ACTIVE = powered /\ rec.qswu.EXIT = {}
  BY <1>2 DEF QuadVectors, PartnersInv, QuadsAre, SpecialsAre
<1>4. /\ pgpe.quads \union r.quad.EXIT = r.quad.EXIT \union r.quad.ACTIVE
      /\ at = "end" => pgpe.quads \union r.quad.EXIT = powered
  BY <1>1, <1>2, <1>3 DEF PartnersInv, PgpeQuads, Exiting, ExitJob
<1>5. TellsAs(r, at)
  BY <1>2, <1>4, TellsExitIs DEF MaskInv
<1>6. /\ rec' = r /\ job'.thread = "exit" /\ job'.at = at
      /\ job'.left = r.quad.EXIT /\ panic' = panic
      /\ pgpe'.cores = pgpe.cores /\ pgpe'.quads = pgpe.quads \union r.quad.EXIT
  BY <1>1, <1>5 DEF TellsAs
<1>7. /\ rec'.quad.RCLKX = rec.quad.RCLKX /\ rec'.quad.RCLK_REQ = rec.quad.RCLK_REQ
      /\ rec'.quad.RCLK_DONE = rec.quad.RCLK_DONE
      /\ rec'.quad.ACTIVE = rec.quad.ACTIVE /\ rec'.quad.BLOCKX = rec.quad.BLOCKX
      /\ rec'.core = rec.core /\ rec'.level = rec.level /\ rec'.act = rec.act
      /\ rec'.creq = rec.creq /\ rec'.qswu = rec.qswu
  BY <1>2, <1>6 DEF QuadVectors
<1>8. /\ In11Grows /\ CoresStay /\ PacketsStay /\ ListsStay /\ QuadsStay /\ ClocksStay
      /\ BlocksStay
  BY <1>1, <1>6, <1>7, CoresGrow DEF CoresStay, PacketsStay, ListsStay, QuadsStay, ClocksStay,
     BlocksStay
<1>9. Deep' /\ QuadsAre' /\ ClocksAre' /\ ClockMessages' /\ ClocksDone' /\ BlocksAre'
  BY <1>1, <1>7, <1>8, PartnersStay
<1>10. ExitsClocked'
  BY <1>1, <1>2, <1>7 DEF PartnersInv, ExitsClocked, ExitWorks
<1>11. ~Entering /\ ~Entering'
  BY <1>1, <1>6 DEF Entering
<1>12. RclkOff'
  BY <1>8, <1>1, <1>7, <1>11, In11OfQuad DEF PartnersInv, RclkOff
<1>13. SpecialsAre'
  BY <1>1, <1>7, <1>11 DEF PartnersInv, SpecialsAre, Waiting, Seen
<1>14. JobIs' /\ EntryJob'
  BY <1>2, <1>6, <1>11 DEF JobIs, Places, EntryJob
<1>15. ExitJob'
  <2>1. CASE at = "end"
    BY <1>6, <2>1 DEF ExitJob, Exiting
  <2>2. CASE at = "express"
    <3>. DEFINE qs == r.quad.EXIT
    <3>1. \A q \in Quads : q \in qs <=> /\ \E c \in CoresOf(q) : c \in rec.core.EXIT
                                        /\ rec.act[q] = 11
      BY <1>2, <1>3, <2>2
    <3>2. qs \subseteq Quads
      BY <1>2 DEF Records, QuadVectors
    <3>3. \A q \in Quads : (rec.act[q] = 11) <=> q \notin powered
      BY <1>1 DEF PartnersInv, QuadsAre, Records
    <3>4. \A c \in rec.core.EXIT : c \in Cores
      BY <1>1 DEF Records, CoreVectors
    <3>5. rec'.quad.EXIT = qs /\ job'.left = qs /\ rec'.core = rec.core /\ powered' = powered
      BY <1>1, <1>6, <1>7
    <3>. HIDE DEF qs
    <3>6. \A c \in rec.core.EXIT : QuadOf(c) \in powered \union qs
      BY <3>1, <3>3, <3>4, CoresOfQuads
    <3>. QED  BY <3>1, <3>2, <3>3, <3>5, <3>6 DEF ExitJob
  <2>. QED  BY <2>1, <2>2
<1>16. PgpeQuads' /\ Sound'
  BY <1>1, <1>2, <1>3, <1>4, <1>6, <1>7 DEF PartnersInv, PgpeQuads, Exiting, Sound
<1>. QED  BY <1>1, <1>8, <1>9, <1>10, <1>12, <1>13, <1>14, <1>15, <1>16, PartnersWork

-----------------------------------------------------------------------------
(* The exit thread hands over cores of quads with power and a clock.       *)
ExitHands(cs) ==
    /\ UNCHANGED <<running, type, notified, override, pgpe, panic, handler>>
    /\ HandsOver(cs) /\ cs \subseteq rec.core.EXIT
    /\ Exiting /\ Exiting' /\ handler = NoHandler
    /\ \A x \in Cores : rec'.level[x] = 11 => rec.level[x] = 11 /\ x \notin cs
    /\ \A v \in {"RCLKE", "ACTIVE", "PIGX", "PIGE", "BLOCKX"} : rec'.core[v] = rec.core[v]
    /\ rec'.core.EXIT = rec.core.EXIT \ cs
    /\ \A v \in {"RCLK_REQ", "RCLK_DONE", "RCLKX", "BLOCKX", "EXIT"} :
               rec'.quad[v] = rec.quad[v]
    /\ rec'.qswu.EXIT \subseteq rec.qswu.EXIT /\ rec'.qswu.BLOCKX = rec.qswu.BLOCKX
    /\ rec'.creq = rec.creq
    /\ \A x \in Cores : db2'[x] \in {"none", db2[x], "DECREMENTER_WAKEUP"}
    /\ powered \subseteq powered' /\ rclk \subseteq rclk'
    /\ powered' \ powered \subseteq rclk' /\ (rclk' \ rclk) \intersect powered = {}
    /\ \A c \in cs : QuadOf(c) \notin rec.quad.RCLKX /\ QuadOf(c) \in rclk'

LEMMA PartnersExitHands ==
    ASSUME TypeInv, PartnersInv, NEW cs \in SUBSET Cores, ExitHands(cs),
           QuadsAre', ExitJob', PgpeQuads'
    PROVE  PartnersInv'
<1>1. /\ running' = running /\ type' = type /\ notified' = notified /\ override' = override
      /\ pgpe' = pgpe /\ panic' = panic /\ handler' = handler /\ handler = NoHandler
      /\ payload' = payload /\ wns' = wns \ cs
      /\ rec'.core.RCLKE = rec.core.RCLKE /\ rec'.core.ACTIVE = rec.core.ACTIVE
      /\ rec'.core.PIGX = rec.core.PIGX /\ rec'.core.PIGE = rec.core.PIGE
      /\ rec'.core.BLOCKX = rec.core.BLOCKX
      /\ rec'.quad.RCLK_REQ = rec.quad.RCLK_REQ /\ rec'.quad.RCLKX = rec.quad.RCLKX
      /\ rec'.quad.BLOCKX = rec.quad.BLOCKX /\ rec'.creq = rec.creq
      /\ rec'.quad.RCLK_DONE = rec.quad.RCLK_DONE
      /\ ~Entering /\ ~Entering'
  BY DEF ExitHands, HandsOver, Exiting, Entering
<1>2. \A t \in StopTypes : Seen(t) = {} /\ Seen(t)' = {}
  BY <1>1 DEF Seen, NoHandler, StopTypes
<1>3. /\ Waiting("TYPE0")' = Waiting("TYPE0") /\ Waiting("TYPE6")' = Waiting("TYPE6")
      /\ Waiting("TYPE2") = pend.TYPE2 /\ Waiting("TYPE3") = pend.TYPE3
      /\ Waiting("TYPE2")' = pend.TYPE2 \ cs /\ Waiting("TYPE3")' = pend.TYPE3 \ cs
      /\ pend'.TYPE2 = pend.TYPE2 \ cs /\ pend'.TYPE3 = pend.TYPE3 \ cs
      /\ pend'.TYPE0 = pend.TYPE0 /\ Seen("TYPE0")' = Seen("TYPE0") /\ Seen("TYPE3")' = {}
  BY <1>2 DEF Waiting, ExitHands, HandsOver, StopTypes
<1>4. \A x : In11(x)' <=> In11(x) /\ x \notin cs
  BY <1>1 DEF In11
<1>5. CoresAre'
  BY <1>1 DEF PartnersInv, CoresAre
<1>6. PayloadKinds' /\ Packets2' /\ Packets3' /\ NotStale' /\ Handed'
  BY <1>1, <1>3, <1>4 DEF PartnersInv, PayloadKinds, Packets2, Packets3, NotStale, Handed,
     NoHandler
<1>7. Deep'
  BY <1>4 DEF PartnersInv, Deep, ExitHands
<1>8. cs \intersect rec.core.RCLKE = {} /\ cs \subseteq Cores
  BY DEF ExitHands, PartnersInv, ExitsClocked, ExitWorks, Exiting
<1>9. \A q \in Quads : q \in rec.quad.RCLKX /\ AllIn11(q) => AllIn11(q)'
  BY <1>4, CoresOfQuads DEF AllIn11, ExitHands
<1>10. \A q \in Quads : q \notin rclk' /\ AllIn11(q) => AllIn11(q)'
  BY <1>4, CoresOfQuads DEF AllIn11, ExitHands
<1>11. ClocksAre'
  <2>1. rec.core.RCLKE \subseteq Cores /\ rec.quad.RCLKX \subseteq Quads
    BY DEF TypeInv, Records, CoreVectors, QuadVectors
  <2>2. powered \subseteq powered'
    BY DEF ExitHands
  <2>. QED  BY <1>1, <1>3, <1>4, <1>8, <1>9, <2>1, <2>2 DEF PartnersInv, ClocksAre
<1>12. ExitsClocked'
  BY <1>1 DEF PartnersInv, ExitsClocked, ExitHands, ExitWorks, Exiting
<1>13. ClockMessages'
  <2>1. \A x \in Cores : db2'[x] \in {"none", db2[x], "DECREMENTER_WAKEUP"}
    BY DEF ExitHands
  <2>2. rclk \subseteq rclk' /\ (rclk' \ rclk) \intersect powered = {}
    BY DEF ExitHands
  <2>3. \A q \in rec.quad.RCLK_REQ : q \in powered
    BY CoresOfQuads DEF PartnersInv, ClocksAre, TypeInv, Records, QuadVectors
  <2>. QED  BY <1>1, <1>3, <2>1, <2>2, <2>3 DEF PartnersInv, ClockMessages, ClockMessage
<1>14. RclkOff'
  BY <1>1, <1>10 DEF ExitHands, PartnersInv, RclkOff
<1>15. SpecialsAre'
  BY <1>1, <1>3 DEF PartnersInv, SpecialsAre, ExitHands
<1>16. BlocksAre'
  BY <1>1 DEF PartnersInv, BlocksAre
<1>17. JobIs' /\ EntryJob' /\ Sound'
  BY <1>1 DEF PartnersInv, JobIs, Places, EntryJob, Sound, ExitHands, Exiting
<1>18. ClocksDone'
  <2>1. \A q \in rec.quad.RCLK_DONE : q \in powered
    BY CoresOfQuads DEF PartnersInv, ClocksDone, ClocksAre, TypeInv, Records, QuadVectors
  <2>. QED  BY <1>1, <2>1 DEF ExitHands, PartnersInv, ClocksDone
<1>. QED  BY <1>5, <1>6, <1>7, <1>11, <1>12, <1>13, <1>14, <1>15, <1>16, <1>17, <1>18
          DEF PartnersInv

-----------------------------------------------------------------------------
(* The end of an exit, for the quads qs.                                   *)
ReadyOf(r, qs) == (r.core.EXIT \intersect In(qs)) \ In(r.quad.RCLKX)
EndsExit(r, qs) ==
    LET ready == ReadyOf(r, qs)
        exits == {QuadOf(c) : c \in ready}
    IN  /\ \A x \in Cores : rec'.level[x] = IF x \in ready THEN 0 ELSE r.level[x]
        /\ rec'.act = r.act /\ rec'.creq = r.creq
        /\ \A v \in {"RCLKE", "ACTIVE", "PIGX", "PIGE", "BLOCKX"} : rec'.core[v] = r.core[v]
        /\ rec'.core.EXIT = r.core.EXIT \ ready
        /\ \A v \in {"RCLK_REQ", "RCLK_DONE", "RCLKX", "BLOCKX", "EXIT", "ENTRY"} :
               rec'.quad[v] = r.quad[v]
        /\ rec'.quad.ACTIVE = r.quad.ACTIVE \union exits
        /\ rec'.qswu.EXIT \subseteq r.qswu.EXIT /\ rec'.qswu.BLOCKX = r.qswu.BLOCKX
        /\ HandOver(ready)

LEMMA EndsExitIs ==
    ASSUME NEW r \in Records, NEW qs \in SUBSET Quads, ExitEnd(r, qs)
    PROVE  EndsExit(r, qs)
<1>. DEFINE cores == r.core.EXIT \intersect In(qs)
            ready == cores \ In(r.quad.RCLKX)
            exits == {QuadOf(c) : c \in ready}
            woken == qs \intersect r.qswu.EXIT
<1>1. /\ rec'.level = [c \in Cores |-> IF c \in ready THEN 0 ELSE r.level[c]]
      /\ rec'.act = r.act /\ rec'.creq = r.creq
      /\ rec'.core = [r.core EXCEPT
             !.PCWU = @ \ ready, !.EXIT = @ \ ready,
             !.RCLKX = (@ \union cores) \ ready]
      /\ rec'.quad = [r.quad EXCEPT
             !.IN_STOP11 = @ \ exits, !.ACTIVE = @ \union exits]
      /\ rec'.qswu = [r.qswu EXCEPT
             !.ACTIVE = @ \union woken, !.EXIT = @ \ woken]
  BY ExitEndIs
<1>2. HandOver(ready)
  BY DEF ExitEnd
<1>3. ready = ReadyOf(r, qs)
  BY DEF ReadyOf
<1>. HIDE DEF cores, ready, exits, woken
<1>4. \A x \in Cores : rec'.level[x] = IF x \in ready THEN 0 ELSE r.level[x]
  BY <1>1
<1>5. /\ \A v \in {"RCLKE", "ACTIVE", "PIGX", "PIGE", "BLOCKX"} : rec'.core[v] = r.core[v]
      /\ rec'.core.EXIT = r.core.EXIT \ ready
  BY <1>1 DEF Records, CoreVectors
<1>6. /\ \A v \in {"RCLK_REQ", "RCLK_DONE", "RCLKX", "BLOCKX", "EXIT", "ENTRY"} :
               rec'.quad[v] = r.quad[v]
      /\ rec'.quad.ACTIVE = r.quad.ACTIVE \union exits
  BY <1>1 DEF Records, QuadVectors
<1>7. rec'.qswu.EXIT \subseteq r.qswu.EXIT /\ rec'.qswu.BLOCKX = r.qswu.BLOCKX
  BY <1>1 DEF Records, QswuVectors
<1>. QED  BY <1>1, <1>2, <1>3, <1>4, <1>5, <1>6, <1>7 DEF EndsExit, exits

LEMMA PartnersExitExpress ==
    ASSUME TypeInv, MaskInv, PartnersInv, ExitExpress
    PROVE  PartnersInv'
<1>. DEFINE qs == Quads \ rec.quad.EXIT
            ready == ReadyOf(rec, qs)
<1>1. /\ job.thread = "exit" /\ job.at = "express" /\ handler = NoHandler
      /\ To("quads") /\ ExitEnd(rec, qs) /\ qs \subseteq Quads
      /\ db2' = DoorbellPc(ready)
      /\ UNCHANGED <<running, type, notified, powered, rclk, payload, override, handler,
                     pgpe, panic>>
      /\ rec \in Records
  BY DEF ExitExpress, ThreadRuns, ReadyOf, irqVars, TypeInv
<1>2. EndsExit(rec, qs)
  BY <1>1, EndsExitIs
<1>3. job'.thread = "exit" /\ job'.at = "quads" /\ job'.left = job.left
  BY <1>1, JobGoes DEF MaskInv
<1>4. rec.core.EXIT \subseteq Cores /\ rec.quad.EXIT \subseteq Quads
      /\ rec.quad.RCLKX \subseteq Quads
  BY <1>1 DEF Records, CoreVectors, QuadVectors
<1>5. Exiting /\ ~Entering
  BY <1>1 DEF Exiting, Entering
<1>6. \A c \in ready : /\ c \in Cores /\ c \in rec.core.EXIT
                       /\ QuadOf(c) \in Quads
                       /\ QuadOf(c) \notin rec.quad.EXIT
                       /\ QuadOf(c) \notin rec.quad.RCLKX
  BY <1>1, <1>4, CoresIn, CoresOfQuads DEF ReadyOf
<1>7. \A c \in ready : QuadOf(c) \in powered /\ c \notin rec.core.RCLKE
  BY <1>1, <1>5, <1>6 DEF PartnersInv, ExitJob, ExitsClocked, ExitWorks
<1>8. \A c \in ready : QuadOf(c) \in rclk
  BY <1>5, <1>6, <1>7, CoresOfQuads DEF PartnersInv, RclkOff
<1>9. ready \in SUBSET Cores
  BY <1>6
<1>. HIDE DEF ready, qs
<1>10. HandsOver(ready)
  BY <1>1, <1>2, HandOverIs DEF EndsExit, ready
<1>11. /\ \A x \in Cores : rec'.level[x] = IF x \in ready THEN 0 ELSE rec.level[x]
       /\ rec'.act = rec.act /\ rec'.creq = rec.creq
       /\ \A v \in {"RCLKE", "ACTIVE", "PIGX", "PIGE", "BLOCKX"} :
              rec'.core[v] = rec.core[v]
       /\ rec'.core.EXIT = rec.core.EXIT \ ready
       /\ \A v \in {"RCLK_REQ", "RCLK_DONE", "RCLKX", "BLOCKX", "EXIT"} :
               rec'.quad[v] = rec.quad[v]
       /\ rec'.quad.ACTIVE = rec.quad.ACTIVE \union {QuadOf(c) : c \in ready}
       /\ rec'.qswu.EXIT \subseteq rec.qswu.EXIT /\ rec'.qswu.BLOCKX = rec.qswu.BLOCKX
  BY <1>2 DEF EndsExit, ready
<1>12. rec'.quad.ACTIVE = rec.quad.ACTIVE
  BY <1>7, <1>11 DEF PartnersInv, QuadsAre
<1>13. ExitHands(ready)
  <2>1. \A x \in Cores : db2'[x] \in {"none", db2[x], "DECREMENTER_WAKEUP"}
    BY <1>1 DEF DoorbellPc
  <2>2. Exiting'
    BY <1>3 DEF Exiting
  <2>. QED  BY <1>1, <1>5, <1>6, <1>8, <1>10, <1>11, <2>1, <2>2 DEF ExitHands
<1>14. \A q \in Quads \ powered : AllIn11(q) => AllIn11(q)'
  BY <1>1, <1>7, <1>10, CoresOfQuads DEF AllIn11, In11, HandsOver
<1>15. QuadsAre'
  BY <1>1, <1>11, <1>12, <1>14 DEF PartnersInv, QuadsAre
<1>16. ExitJob'
  <2>1. \A q \in job.left : \E c \in CoresOf(q) : c \in rec'.core.EXIT
    BY <1>4, <1>5, <1>6, <1>11, CoresOfQuads DEF PartnersInv, ExitJob
  <2>. QED  BY <1>1, <1>3, <1>5, <1>11, <2>1 DEF PartnersInv, ExitJob, Exiting
<1>17. PgpeQuads'
  BY <1>1, <1>3, <1>5, <1>11, <1>12 DEF PartnersInv, PgpeQuads, Exiting
<1>. QED  BY <1>9, <1>13, <1>15, <1>16, <1>17, PartnersExitHands

LEMMA PartnersExitQuad ==
    ASSUME TypeInv, MaskInv, PartnersInv, NEW q \in Quads, ExitQuad(q)
    PROVE  PartnersInv'
<1>. DEFINE a1 == [rec.act EXCEPT ![q] = 0]
            r == [rec EXCEPT !.act = a1]
            ready == ReadyOf(r, {q})
<1>1. /\ job.thread = "exit" /\ job.at = "quads" /\ handler = NoHandler
      /\ job.left # {} /\ q = Lowest(job.left)
      /\ powered' = powered \union {q} /\ rclk' = rclk \union {q}
      /\ ToQuads("quads", job.left \ {q})
      /\ db2' = [c \in Cores |-> IF c \in CoresOf(q) THEN "none" ELSE db2[c]]
      /\ UNCHANGED <<running, type, notified, payload, override, handler, pgpe, panic>>
      /\ rec \in Records
  BY DEF ExitQuad, ThreadRuns, irqVars, TypeInv
<1>2. ExitEnd(r, {q})
  <2>1. [rec EXCEPT !.act[q] = 0] = r
    BY <1>1 DEF Records
  <2>. HIDE DEF r
  <2>. QED  BY <2>1 DEF ExitQuad
<1>3. \A p \in Quads : a1[p] = IF p = q THEN 0 ELSE rec.act[p]
  BY <1>1 DEF Records
<1>4. a1 \in [Quads -> {0, 11}]
  BY <1>1 DEF Records
<1>. HIDE DEF a1
<1>5. /\ r \in Records /\ r.level = rec.level /\ r.act = a1 /\ r.core = rec.core
      /\ r.quad = rec.quad /\ r.qswu = rec.qswu /\ r.creq = rec.creq
  BY <1>1, <1>4 DEF Records
<1>. HIDE DEF r
<1>6. EndsExit(r, {q})
  BY <1>2, <1>5, EndsExitIs
<1>7. job'.thread = "exit" /\ job'.at = "quads" /\ job'.left = job.left \ {q}
  BY <1>1, JobGoes DEF MaskInv
<1>8. rec.core.EXIT \subseteq Cores /\ rec.quad.EXIT \subseteq Quads
      /\ rec.quad.RCLKX \subseteq Quads
  BY <1>1 DEF Records, CoreVectors, QuadVectors
<1>9. Exiting /\ ~Entering
  BY <1>1 DEF Exiting, Entering
<1>10. /\ q \in job.left /\ q \notin powered /\ q \in rec.quad.EXIT
       /\ \E c \in CoresOf(q) : c \in rec.core.EXIT
       /\ q \notin rec.quad.RCLKX
  BY <1>1, <1>9, LowestIn DEF TypeInv, TypesOfJob, PartnersInv, ExitJob, ClocksAre
<1>11. \A c \in Cores : c \in ready <=> c \in rec.core.EXIT /\ QuadOf(c) = q
  BY <1>5, <1>8, <1>10, CoresIn DEF ReadyOf
<1>12. ready \subseteq Cores /\ ready \subseteq rec.core.EXIT
  BY <1>5, <1>8 DEF ReadyOf
<1>13. \E c \in ready : QuadOf(c) = q
  BY <1>10, <1>11, CoresOfQuads
<1>14. {QuadOf(c) : c \in ready} = {q}
  BY <1>11, <1>12, <1>13
<1>. HIDE DEF ready
<1>15. HandsOver(ready)
  BY <1>1, <1>6, HandOverIs DEF EndsExit, ready
<1>16. /\ \A x \in Cores : rec'.level[x] = IF x \in ready THEN 0 ELSE rec.level[x]
       /\ rec'.act = a1 /\ rec'.creq = rec.creq
       /\ \A v \in {"RCLKE", "ACTIVE", "PIGX", "PIGE", "BLOCKX"} :
              rec'.core[v] = rec.core[v]
       /\ rec'.core.EXIT = rec.core.EXIT \ ready
       /\ \A v \in {"RCLK_REQ", "RCLK_DONE", "RCLKX", "BLOCKX", "EXIT"} :
               rec'.quad[v] = rec.quad[v]
       /\ rec'.quad.ACTIVE = rec.quad.ACTIVE \union {QuadOf(c) : c \in ready}
       /\ rec'.qswu.EXIT \subseteq rec.qswu.EXIT /\ rec'.qswu.BLOCKX = rec.qswu.BLOCKX
  BY <1>5, <1>6 DEF EndsExit, ready
<1>17. rec'.quad.ACTIVE = rec.quad.ACTIVE \union {q}
  BY <1>14, <1>16
<1>18. ExitHands(ready)
  <2>1. \A x \in Cores : db2'[x] \in {"none", db2[x], "DECREMENTER_WAKEUP"}
    BY <1>1
  <2>2. Exiting'
    BY <1>7 DEF Exiting
  <2>3. powered \subseteq powered' /\ rclk \subseteq rclk'
        /\ powered' \ powered \subseteq rclk' /\ (rclk' \ rclk) \intersect powered = {}
    BY <1>1, <1>10
  <2>4. \A c \in ready : QuadOf(c) \notin rec.quad.RCLKX /\ QuadOf(c) \in rclk'
    BY <1>1, <1>10, <1>11, <1>12
  <2>. QED  BY <1>1, <1>9, <1>12, <1>15, <1>16, <2>1, <2>2, <2>3, <2>4 DEF ExitHands
<1>19. QuadsAre'
  <2>1. /\ rec.quad.ACTIVE = powered
        /\ \A p \in Quads : (rec.act[p] = 0) <=> (p \in powered)
        /\ \A p \in Quads \ powered : AllIn11(p)
    BY DEF PartnersInv, QuadsAre
  <2>2. rec'.quad.ACTIVE = powered'
    BY <1>1, <1>17, <2>1
  <2>3. \A p \in Quads : (rec'.act[p] = 0) <=> (p \in powered')
    <3>. SUFFICES ASSUME NEW p \in Quads PROVE (rec'.act[p] = 0) <=> (p \in powered')
      OBVIOUS
    <3>1. rec'.act[p] = IF p = q THEN 0 ELSE rec.act[p]
      BY <1>3, <1>16
    <3>2. powered' = powered \union {q} /\ ((rec.act[p] = 0) <=> (p \in powered))
      BY <1>1, <2>1
    <3>. QED  BY <3>1, <3>2
  <2>4. \A p \in Quads \ powered' : AllIn11(p)'
    BY <1>1, <1>11, <1>15, <2>1, CoresOfQuads DEF In11, HandsOver, AllIn11
  <2>. QED  BY <2>2, <2>3, <2>4 DEF QuadsAre
<1>20. ExitJob'
  <2>1. /\ job.left \intersect powered = {} /\ job.left \subseteq rec.quad.EXIT
        /\ rec.quad.EXIT \ job.left \subseteq powered
        /\ \A p \in job.left : \E c \in CoresOf(p) : c \in rec.core.EXIT
    BY <1>9 DEF PartnersInv, ExitJob
  <2>2. \A p \in job'.left : \E c \in CoresOf(p) : c \in rec'.core.EXIT
    BY <1>7, <1>8, <1>11, <1>16, <2>1, CoresOfQuads
  <2>3. rec'.quad.EXIT = rec.quad.EXIT
    BY <1>16
  <2>. QED  BY <1>1, <1>7, <2>1, <2>2, <2>3 DEF ExitJob
<1>21. PgpeQuads'
  <2>1. Exiting' /\ rec'.quad.EXIT = rec.quad.EXIT
    BY <1>7, <1>16 DEF Exiting
  <2>2. pgpe.quads = rec.quad.ACTIVE \union rec.quad.EXIT
    BY <1>9 DEF PartnersInv, PgpeQuads
  <2>. QED  BY <1>1, <1>10, <1>17, <2>1, <2>2 DEF PgpeQuads
<1>. QED  BY <1>12, <1>18, <1>19, <1>20, <1>21, PartnersExitHands

-----------------------------------------------------------------------------
(* The handlers that launch a thread, or restore the mask.                 *)
LEMMA PartnersLaunch ==
    ASSUME TypeInv, MaskInv, PartnersInv, NEW r \in Records, Launch(r),
           handler.at \in {"TYPE0", "TYPE3", "TYPE6", "IPI3_LOW"},
           UNCHANGED <<wns, type, pend>>
    PROVE  ~Entering' /\ ~Exiting' /\ JobIs' /\ NotStale' /\ Sound'
           /\ ~Entering /\ ~Exiting /\ handler' = NoHandler
           /\ ~(job'.thread = "entry" /\ job'.at = "quads")
           /\ ~(job.thread = "entry" /\ job.at = "quads")
<1>1. job.thread = "none" /\ job.at = "idle"
  BY DEF MaskInv, StackFits, InHandler, InThread, Preempting, PartnersInv, JobIs
<1>2. \/ job' = job
      \/ \E thread \in {"exit", "entry"} : job' = Posted(thread)
  BY DEF Launch
<1>3. \A thread \in {"exit", "entry"} :
         Posted(thread).thread = thread /\ Posted(thread).at = "posted"
  BY DEF Posted, NoJob
<1>4. \/ job'.thread = "none" /\ job'.at = "idle"
      \/ job'.thread \in {"exit", "entry"} /\ job'.at = "posted"
  BY <1>1, <1>2, <1>3
<1>5. "TYPE3" \in override' \/ "TYPE2" \notin override'
  BY DEF Launch
<1>6. NotStale'
  BY <1>5, StaleStays
<1>7. Sound'
  BY RestoreIsSound DEF Launch
<1>8. handler' = NoHandler
  BY DEF Launch
<1>. QED  BY <1>1, <1>4, <1>6, <1>7, <1>8 DEF Entering, Exiting, JobIs, Places

(* The packets that a handler has seen are of cores that are the SGPE's.   *)
LEMMA PacketsKnown ==
    ASSUME TypeInv, PartnersInv, NEW t \in CoreTypes, handler.at = t
    PROVE  /\ handler.set \in SUBSET Cores /\ Seen(t) = handler.set
           /\ \A c \in handler.set : /\ payload[t][c] # "none"
                                     /\ ~Phantom(c, payload[t][c])
<1>1. handler.set \in SUBSET Cores /\ Seen(t) = handler.set
  BY DEF TypeInv, TypesOfHandler, Seen
<1>. SUFFICES ASSUME NEW c \in handler.set
     PROVE  payload[t][c] # "none" /\ ~Phantom(c, payload[t][c])
  BY <1>1
<1>2. c \in Cores /\ c \in Waiting(t)
  BY <1>1 DEF Waiting
<1>3. CASE t = "TYPE2"
  BY <1>2, <1>3 DEF PartnersInv, Packets2, Phantom
<1>4. CASE t = "TYPE3"
  BY <1>2, <1>4 DEF PartnersInv, Packets3, PayloadKinds, Phantom, In11
<1>5. CASE t = "TYPE0"
  <2>1. /\ \/ payload.TYPE0[c] = "entry_rclk" /\ QuadOf(c) \in rec.quad.RCLK_REQ
           \/ payload.TYPE0[c] = "exit_rclk" /\ QuadOf(c) \in rec.quad.RCLKX
    BY <1>2, <1>5 DEF PartnersInv, ClockMessages, ClockMessage
  <2>2. In11(c)
    BY <1>2, <2>1, CoresOfQuads DEF PartnersInv, ClocksAre, AllIn11
  <2>. QED  BY <1>5, <2>1, <2>2 DEF Phantom, In11
<1>. QED  BY <1>3, <1>4, <1>5 DEF CoreTypes

(* The record once they are parsed.                                        *)
ParsedClocks(r) ==
    /\ r.core.RCLKE = rec.core.RCLKE
    /\ r.quad.RCLK_REQ \subseteq rec.quad.RCLK_REQ
    /\ r.quad.RCLKX \subseteq rec.quad.RCLKX
    /\ \A c \in Cores :
           /\ db2[c] = "RESONANT_CLOCK_DISABLE" => QuadOf(c) \in r.quad.RCLK_REQ
           /\ db2[c] = "RESONANT_CLOCK_ENABLE" => QuadOf(c) \in r.quad.RCLKX
    /\ \A c \in pend.TYPE0 :
           /\ QuadOf(c) \in rec.quad.RCLK_REQ => QuadOf(c) \in r.quad.RCLK_REQ
           /\ QuadOf(c) \in rec.quad.RCLKX => QuadOf(c) \in r.quad.RCLKX
    /\ \A q \in Quads \ rclk : q \in rec.quad.RCLKX => q \in r.quad.RCLKX
    /\ \A q \in r.quad.RCLK_DONE : q \notin rclk /\ CoresOf(q) \subseteq rec.core.RCLKE
ParsedWell(t, r) ==
    /\ \A x \in Cores : r.level[x] = 11 => In11(x)
    /\ r.act = rec.act /\ r.creq = rec.creq
    /\ r.core.EXIT = rec.core.EXIT /\ r.core.ACTIVE = rec.core.ACTIVE
    /\ \A v \in {"BLOCKX", "ENTRY", "EXIT", "ACTIVE"} : r.quad[v] = rec.quad[v]
    /\ ParsedClocks(r)
    /\ r.qswu.EXIT = {} /\ r.qswu.BLOCKX = {}
    /\ \A x \in r.core.BLOCKX : QuadOf(x) \in ExitBlocked
    /\ t = "TYPE2" => \A x \in r.core.PIGX : x \in wns /\ type[x] = "TYPE2"
    /\ t # "TYPE2" => r.core.PIGX \intersect rec.core.RCLKE = {}

LEMMA ClocksParsed ==
    ASSUME TypeInv, PartnersInv, NEW t \in CoreTypes, handler.at = t,
           NEW r \in Records, SameFrame(rec, r), ParsesClocks(t, handler.set, r)
    PROVE  ParsedClocks(r)
<1>. DEFINE cs == handler.set
<1>1. r.core.RCLKE = rec.core.RCLKE
  BY FrameIs
<1>2. cs \in SUBSET Cores /\ Seen(t) = cs
  BY PacketsKnown
<1>3. \A c \in cs : payload[t][c] \in {"entry_rclk", "exit_rclk"} => t = "TYPE0"
  BY <1>2 DEF PartnersInv, PayloadKinds, CoreTypes, Acks
(* A quad is taken out for a packet of its first core.                     *)
<1>4. \A q \in Clocked(t, cs, "entry_rclk") :
         /\ First(q) \in Seen("TYPE0") /\ payload.TYPE0[First(q)] = "entry_rclk"
         /\ db2[First(q)] \in {"none", "DECREMENTER_WAKEUP"}
         /\ First(q) \notin pend.TYPE0 /\ q \in rec.quad.RCLK_REQ \ rclk
  BY <1>2, <1>3, CoresOfQuads DEF Clocked, PartnersInv, ClockMessages, ClockMessage, Waiting
<1>5. \A q \in Clocked(t, cs, "exit_rclk") :
         /\ First(q) \in Seen("TYPE0") /\ payload.TYPE0[First(q)] = "exit_rclk"
         /\ db2[First(q)] \in {"none", "DECREMENTER_WAKEUP"}
         /\ First(q) \notin pend.TYPE0 /\ q \in rec.quad.RCLKX \intersect rclk
  BY <1>2, <1>3, CoresOfQuads DEF Clocked, PartnersInv, ClockMessages, ClockMessage, Waiting
<1>6. /\ \A q \in rec.quad.RCLK_REQ : q \in r.quad.RCLK_REQ
             \/ q \in Clocked(t, cs, "entry_rclk")
      /\ \A q \in rec.quad.RCLKX : q \in r.quad.RCLKX
             \/ q \in Clocked(t, cs, "exit_rclk")
      /\ r.quad.RCLK_REQ \subseteq rec.quad.RCLK_REQ
      /\ r.quad.RCLKX \subseteq rec.quad.RCLKX
  BY DEF ParsesClocks
<1>7. ASSUME NEW c \in Cores
      PROVE  /\ db2[c] = "RESONANT_CLOCK_DISABLE" => QuadOf(c) \in r.quad.RCLK_REQ
             /\ db2[c] = "RESONANT_CLOCK_ENABLE" => QuadOf(c) \in r.quad.RCLKX
  BY <1>4, <1>5, <1>6 DEF PartnersInv, ClockMessages, ClockMessage
<1>8. ASSUME NEW c \in pend.TYPE0
      PROVE  /\ QuadOf(c) \in rec.quad.RCLK_REQ => QuadOf(c) \in r.quad.RCLK_REQ
             /\ QuadOf(c) \in rec.quad.RCLKX => QuadOf(c) \in r.quad.RCLKX
  <2>1. c \in Cores /\ c \in Waiting("TYPE0")
    BY DEF TypeInv, TypesOfPackets, CoreTypes, Waiting
  <2>2. c = First(QuadOf(c))
    BY <2>1 DEF PartnersInv, ClockMessages, ClockMessage
  <2>. QED  BY <1>4, <1>5, <1>6, <2>2
<1>9. \A q \in Quads \ rclk : q \in rec.quad.RCLKX => q \in r.quad.RCLKX
  BY <1>5, <1>6
<1>10. \A q \in r.quad.RCLK_DONE : q \notin rclk /\ CoresOf(q) \subseteq rec.core.RCLKE
  BY <1>4 DEF ParsesClocks, PartnersInv, ClocksAre, ClocksDone
<1>. QED  BY <1>1, <1>6, <1>7, <1>8, <1>9, <1>10 DEF ParsedClocks

LEMMA PacketsParsed ==
    ASSUME Regime, TypeInv, PartnersInv, NEW t \in CoreTypes, handler.at = t
    PROVE  Parsed(t, handler.set) \in Records /\ ParsedWell(t, Parsed(t, handler.set))
<1>. DEFINE cs == handler.set
            r == Parsed(t, cs)
<1>1. /\ cs \in SUBSET Cores /\ Seen(t) = cs
      /\ \A c \in cs : payload[t][c] # "none"
  BY PacketsKnown
<1>2. r \in Records /\ Parses(t, cs, r)
  BY <1>1, ParsedIs
<1>. HIDE DEF r
<1>3. /\ SameFrame(rec, r) /\ ParsesClocks(t, cs, r) /\ ParsesBlocked(t, cs, r)
      /\ ParsesWanted(t, cs, r)
  BY <1>2 DEF Parses
<1>4. ParsedClocks(r)
  BY <1>2, <1>3, ClocksParsed
<1>5. /\ r.act = rec.act /\ r.creq = rec.creq
      /\ r.core.EXIT = rec.core.EXIT /\ r.core.ACTIVE = rec.core.ACTIVE
      /\ r.core.RCLKX = rec.core.RCLKX
      /\ \A v \in {"BLOCKX", "ENTRY", "EXIT", "ACTIVE"} : r.quad[v] = rec.quad[v]
  BY <1>3, FrameIs
<1>6. r.qswu.EXIT = {} /\ r.qswu.BLOCKX = {}
  BY <1>3 DEF ParsesBlocked, PartnersInv, SpecialsAre
<1>7. \A c \in cs :
         /\ t = "TYPE0" => payload[t][c] \in {"entry_rclk", "exit_rclk"}
         /\ t = "TYPE2" => payload[t][c] \in {"stop5", "hw_wakeup", "dec_wakeup"}
         /\ t = "TYPE3" => payload[t][c] \in {"stop11", "hw_wakeup"} \union Acks
  BY <1>1 DEF PartnersInv, PayloadKinds
<1>8. \A x \in Cores : r.level[x] = 11 => In11(x)
  <2>. SUFFICES ASSUME NEW x \in Cores, r.level[x] = 11 PROVE In11(x)
    OBVIOUS
  <2>1. \/ rec.level[x] = 11
        \/ x \in cs /\ payload[t][x] \in {"stop11", "entry_rclk"}
    BY <1>3 DEF ParsesClocks
  <2>2. CASE rec.level[x] = 11
    BY <2>2 DEF PartnersInv, Deep
  <2>3. CASE x \in cs /\ payload[t][x] = "stop11"
    BY <1>7, <2>3, <1>1 DEF CoreTypes, PartnersInv, Packets3, Waiting
  <2>4. CASE x \in cs /\ payload[t][x] = "entry_rclk"
    <3>1. t = "TYPE0"
      BY <1>7, <2>4 DEF CoreTypes, Acks
    <3>2. QuadOf(x) \in rec.quad.RCLK_REQ
      BY <1>1, <2>4, <3>1 DEF PartnersInv, ClockMessages, ClockMessage, Waiting
    <3>. QED  BY <3>2, CoresOfQuads DEF PartnersInv, ClocksAre
  <2>. QED  BY <2>1, <2>2, <2>3, <2>4
<1>9. \A x \in r.core.BLOCKX : QuadOf(x) \in ExitBlocked
  BY <1>3 DEF ParsesBlocked, PartnersInv, BlocksAre
<1>10. ASSUME t = "TYPE2", NEW x \in r.core.PIGX PROVE x \in wns /\ type[x] = "TYPE2"
  <2>1. ~Frees(t, cs)
    BY <1>7, <1>10 DEF Frees
  <2>2. x \in Exits(t, cs)
    BY <1>3, <2>1 DEF ParsesWanted
  <2>3. x \in cs /\ payload[t][x] \in {"hw_wakeup", "dec_wakeup"}
        /\ ~Late(x, payload[t][x])
    BY <1>7, <1>10, <2>2 DEF Exits
  <2>4. x \in Waiting("TYPE2") /\ x \in Cores
    BY <1>1, <1>10, <2>3 DEF Waiting
  <2>5. CASE payload[t][x] = "hw_wakeup"
    BY <1>10, <2>4, <2>5 DEF PartnersInv, Packets2
  <2>6. CASE payload[t][x] = "dec_wakeup"
    <3>1. x \in wns /\ x \notin pend.TYPE3
      BY <2>3, <2>6 DEF Late
    <3>2. type[x] # "TYPE3"
      BY <2>4, <3>1 DEF PartnersInv, Packets2, In11
    <3>. QED  BY <2>4, <3>1, <3>2 DEF TypeInv, TypesOfCores
  <2>. QED  BY <2>3, <2>5, <2>6
<1>11. ASSUME t # "TYPE2", NEW x \in r.core.PIGX PROVE x \notin rec.core.RCLKE
  <2>1. x \in Cores
    BY <1>2 DEF Records, CoreVectors
  <2>2. x \in Exits(t, cs) \/ (x \in rec.core.BLOCKX /\ Frees(t, cs))
    BY <1>3 DEF ParsesWanted
  <2>3. CASE x \in cs /\ payload[t][x] \in {"hw_wakeup", "dec_wakeup"}
    BY <1>7, <1>11, <2>3, <1>1 DEF CoreTypes, PartnersInv, ClocksAre
  <2>4. CASE \E c \in cs : payload[t][c] = "exit_rclk" /\ QuadOf(x) = QuadOf(c)
    <3>1. PICK c \in cs : payload[t][c] = "exit_rclk" /\ QuadOf(x) = QuadOf(c)
      BY <2>4
    <3>2. t = "TYPE0"
      BY <1>7, <1>11, <3>1 DEF CoreTypes, Acks
    <3>3. QuadOf(c) \in rec.quad.RCLKX
      BY <1>1, <3>1, <3>2 DEF PartnersInv, ClockMessages, ClockMessage, Waiting
    <3>. QED  BY <2>1, <3>1, <3>3, CoresOfQuads DEF PartnersInv, ClocksAre
  <2>5. CASE x \in rec.core.BLOCKX /\ Frees(t, cs)
    <3>1. PICK c \in cs \intersect rec.creq : payload[t][c] = "ack_unblock"
      BY <2>5 DEF Frees
    <3>2. t = "TYPE3"
      BY <1>7, <1>11, <3>1 DEF CoreTypes
    <3>3. c \notin rec.core.RCLKE /\ c \in Cores
      BY <1>1, <3>1, <3>2 DEF PartnersInv, ClocksAre
    <3>4. QuadOf(c) \in BlockQuads /\ QuadOf(x) \in ExitBlocked
      BY <2>5, <3>1 DEF PartnersInv, BlocksAre
    <3>5. QuadOf(x) = QuadOf(c)
      BY <3>4 DEF Regime, ExitBlocked
    <3>. QED  BY <2>1, <3>3, <3>5, CoresOfQuads DEF PartnersInv, ClocksAre
  <2>. QED  BY <2>2, <2>3, <2>4, <2>5 DEF Exits
<1>. QED  BY <1>2, <1>4, <1>5, <1>6, <1>8, <1>9, <1>10, <1>11 DEF ParsedWell, r

-----------------------------------------------------------------------------
(* The record r with which a handler may launch the threads.                *)
LaunchesWell(r) ==
    /\ \A x \in Cores : r.level[x] = 11 => In11(x)
    /\ r.act = rec.act /\ r.quad.ACTIVE = rec.quad.ACTIVE
    /\ ParsedClocks(r)
    /\ r.qswu.EXIT = {} /\ r.qswu.BLOCKX = {}
    /\ r.quad.BLOCKX \subseteq ExitBlocked
    /\ \A x \in r.core.BLOCKX : QuadOf(x) \in ExitBlocked
    /\ \A x \in r.creq : QuadOf(x) \in BlockQuads
    /\ r.core.PIGX \intersect rec.core.RCLKE = {}

LEMMA PartnersLaunches ==
    ASSUME TypeInv, MaskInv, PartnersInv, NEW r \in Records, Launch(r), LaunchesWell(r),
           handler.at \in {"TYPE0", "TYPE3", "TYPE6", "IPI3_LOW"},
           UNCHANGED <<running, wns, type, notified, powered, rclk, db2>>,
           UNCHANGED pigVars, pgpe'.cores = r.core.ACTIVE, pgpe'.quads = pgpe.quads
    PROVE  PartnersInv'
<1>1. UNCHANGED <<pend, payload>> /\ CoresStay /\ In11Grows
  BY CoresGrow DEF pigVars, CoresStay
<1>2. /\ ~Entering' /\ ~Exiting' /\ JobIs' /\ NotStale' /\ Sound'
      /\ ~Entering /\ ~Exiting /\ handler' = NoHandler
      /\ ~(job'.thread = "entry" /\ job'.at = "quads")
      /\ ~(job.thread = "entry" /\ job.at = "quads")
  BY <1>1, PartnersLaunch
<1>3. \A t \in StopTypes : Seen(t)' = {} /\ Waiting(t)' = pend[t]
  BY <1>1, <1>2 DEF Seen, Waiting, NoHandler, StopTypes
<1>4. /\ rec'.level = r.level /\ rec'.act = r.act /\ rec'.quad = r.quad
      /\ rec'.qswu = r.qswu /\ rec'.creq = r.creq
      /\ \A v \in {"RCLKE", "ACTIVE", "BLOCKX"} : rec'.core[v] = r.core[v]
      /\ rec'.core.EXIT = r.core.PIGX
      /\ rec'.core.PIGX = {} /\ rec'.core.PIGE = {}
  BY LaunchIs DEF CoreVectors
<1>5. ParsedClocks(r)
  BY DEF LaunchesWell
<1>6. CoresAre'
  BY <1>1, <1>4 DEF PartnersInv, CoresAre
<1>7. PayloadKinds'
  BY <1>1 DEF PartnersInv, PayloadKinds
<1>8. Packets2' /\ Packets3' /\ Handed'
  <2>1. Waiting("TYPE2")' = pend.TYPE2 /\ Waiting("TYPE3")' = pend.TYPE3
    BY <1>3 DEF StopTypes
  <2>2. pend.TYPE2 \subseteq Waiting("TYPE2") /\ pend.TYPE3 \subseteq Waiting("TYPE3")
    BY DEF Waiting
  <2>3. Packets2'
    BY <1>1, <2>1, <2>2 DEF PartnersInv, Packets2, In11
  <2>4. Packets3'
    BY <1>1, <2>1, <2>2 DEF PartnersInv, Packets3, In11
  <2>. QED  BY <1>2, <2>3, <2>4 DEF Handed, NoHandler
<1>9. Deep'
  BY <1>1, <1>4 DEF LaunchesWell, Deep, In11
<1>10. QuadsAre'
  BY <1>1, <1>4, PartnersStay DEF LaunchesWell, QuadsStay
<1>11. ClocksAre'
  <2>1. /\ rec'.core.RCLKE = rec.core.RCLKE
        /\ rec'.quad.RCLK_REQ \subseteq rec.quad.RCLK_REQ
        /\ rec'.quad.RCLKX \subseteq rec.quad.RCLKX
    BY <1>4, <1>5 DEF ParsedClocks
  <2>2. /\ \A c \in Cores : In11(c)' = In11(c)
        /\ \A q \in Quads : AllIn11(q)' = AllIn11(q)
    BY <1>1 DEF In11, AllIn11
  <2>3. Seen("TYPE3")' = {}
    BY <1>3 DEF StopTypes
  <2>4. /\ rec.core.RCLKE \subseteq Cores /\ rec.quad.RCLKX \subseteq Quads
        /\ rec.quad.RCLK_REQ \subseteq Quads
    BY DEF TypeInv, Records, CoreVectors, QuadVectors
  <2>. QED  BY <2>1, <2>2, <2>3, <2>4 DEF PartnersInv, ClocksAre
<1>12. ExitsClocked'
  BY <1>4, <1>5 DEF ExitsClocked, LaunchesWell, ParsedClocks
<1>13. ClockMessages'
  <2>. SUFFICES ASSUME NEW c \in Cores PROVE ClockMessage(c)'
    BY DEF ClockMessages
  <2>1. ClockMessage(c)
    BY DEF PartnersInv, ClockMessages
  <2>2. Waiting("TYPE0")' = pend.TYPE0 /\ Seen("TYPE0")' = {}
    BY <1>3 DEF StopTypes
  <2>3. c \in pend.TYPE0 => c \in Waiting("TYPE0")
    BY DEF Waiting
  <2>4. c \in pend.TYPE0 => /\ QuadOf(c) \in rec.quad.RCLK_REQ => QuadOf(c) \in r.quad.RCLK_REQ
                            /\ QuadOf(c) \in rec.quad.RCLKX => QuadOf(c) \in r.quad.RCLKX
    BY <1>5 DEF ParsedClocks
  <2>5. /\ db2[c] = "RESONANT_CLOCK_DISABLE" => QuadOf(c) \in r.quad.RCLK_REQ
        /\ db2[c] = "RESONANT_CLOCK_ENABLE" => QuadOf(c) \in r.quad.RCLKX
    BY <1>5 DEF ParsedClocks
  <2>. QED  BY <1>1, <1>4, <2>1, <2>2, <2>3, <2>4, <2>5 DEF ClockMessage
<1>14. RclkOff'
  <2>. SUFFICES ASSUME NEW q \in Quads \ rclk
       PROVE  AllIn11(q)' /\ (q \in powered => \/ q \in rec'.quad.RCLKX
                                               \/ CoresOf(q) \subseteq rec'.core.RCLKE)
    BY DEF RclkOff
  <2>1. AllIn11(q)' = AllIn11(q)
    BY <1>1 DEF In11, AllIn11
  <2>2. q \in rec.quad.RCLKX => q \in r.quad.RCLKX
    BY <1>5 DEF ParsedClocks
  <2>3. r.core.RCLKE = rec.core.RCLKE
    BY <1>5 DEF ParsedClocks
  <2>. QED  BY <1>2, <1>4, <2>1, <2>2, <2>3 DEF PartnersInv, RclkOff
<1>15. SpecialsAre'
  BY <1>3, <1>1, <1>2, <1>4 DEF StopTypes, Waiting, PartnersInv, SpecialsAre,
     LaunchesWell
<1>16. BlocksAre'
  BY <1>4 DEF BlocksAre, LaunchesWell
<1>17. EntryJob' /\ ExitJob'
  BY <1>2 DEF EntryJob, ExitJob
<1>18. PgpeQuads'
  BY <1>2, <1>4 DEF PgpeQuads, PartnersInv, LaunchesWell
<1>19. ClocksDone'
  BY <1>4, <1>5 DEF ParsedClocks, ClocksDone
<1>. QED  BY <1>2, <1>6, <1>7, <1>8, <1>9, <1>10, <1>11, <1>12, <1>13, <1>14,
             <1>15, <1>16, <1>17, <1>18, <1>19 DEF PartnersInv

-----------------------------------------------------------------------------
(* Type 2: the cores that exit are handed over by the handler itself, while *)
(* a thread may be at work.                                                 *)
LEMMA PartnersParsed ==
    ASSUME TypeInv, PartnersInv, NEW r \in Records, ParsedWell("TYPE2", r),
           handler.at = "TYPE2", r.quad.BLOCKX = rec.quad.BLOCKX,
           rec'.level = r.level, rec'.act = r.act, rec'.quad = r.quad,
           rec'.qswu = r.qswu, rec'.creq = r.creq,
           \A v \in {"EXIT", "RCLKE", "BLOCKX"} : rec'.core[v] = r.core[v],
           rec'.core.PIGX = {}, rec'.core.PIGE = {},
           handler'.at = "handoff", handler'.set = r.core.PIGX,
           UNCHANGED <<running, wns, type, notified, powered, rclk, db2, job, panic>>,
           UNCHANGED <<override, pend, payload>>,
           pgpe'.cores = rec'.core.ACTIVE, pgpe'.quads = pgpe.quads
    PROVE  PartnersInv'
<1>1. CoresStay /\ In11Grows
  BY CoresGrow DEF CoresStay
<1>2. ParsedClocks(r) /\ r.core.EXIT = rec.core.EXIT
  BY DEF ParsedWell
<1>3. JobStays /\ QuadsStay
  BY DEF JobStays, QuadsStay, ParsedWell
<1>4. \A t \in StopTypes : Seen(t)' = {} /\ Waiting(t)' = pend[t]
  BY DEF Seen, Waiting, StopTypes
<1>5. \A t \in StopTypes : t # "TYPE2" => Seen(t) = {}
  BY DEF Seen, StopTypes
<1>6. CoresAre'
  BY DEF PartnersInv, CoresAre
<1>7. PayloadKinds' /\ NotStale' /\ Deep' /\ JobIs' /\ Sound' /\ QuadsAre'
  <2>1. Deep'
    BY DEF ParsedWell, Deep, In11
  <2>. QED  BY <1>1, <1>3, <2>1, PartnersStay
<1>8. Packets2' /\ Packets3'
  <2>1. Waiting("TYPE2")' = pend.TYPE2 /\ Waiting("TYPE3")' = pend.TYPE3
    BY <1>4 DEF StopTypes
  <2>2. pend.TYPE2 \subseteq Waiting("TYPE2") /\ pend.TYPE3 \subseteq Waiting("TYPE3")
    BY DEF Waiting
  <2>3. Packets2'
    BY <2>1, <2>2 DEF PartnersInv, Packets2, In11
  <2>4. Packets3'
    BY <2>1, <2>2 DEF PartnersInv, Packets3, In11
  <2>. QED  BY <2>3, <2>4
<1>9. Handed'
  BY DEF Handed, ParsedWell
<1>10. /\ rec'.core.RCLKE = rec.core.RCLKE
       /\ rec'.quad.RCLK_REQ \subseteq rec.quad.RCLK_REQ
       /\ rec'.quad.RCLKX \subseteq rec.quad.RCLKX
  BY <1>2 DEF ParsedClocks
<1>11. /\ \A c \in Cores : In11(c)' = In11(c)
       /\ \A q \in Quads : AllIn11(q)' = AllIn11(q)
  BY DEF In11, AllIn11
<1>12. /\ rec.core.RCLKE \subseteq Cores /\ rec.quad.RCLKX \subseteq Quads
       /\ rec.quad.RCLK_REQ \subseteq Quads
  BY DEF TypeInv, Records, CoreVectors, QuadVectors
<1>13. ClocksAre'
  BY <1>4, <1>10, <1>11, <1>12 DEF StopTypes, PartnersInv, ClocksAre
<1>14. ExitsClocked'
  BY <1>2, <1>10 DEF ExitsClocked, ExitWorks, PartnersInv
<1>15. ClockMessages'
  <2>. SUFFICES ASSUME NEW c \in Cores PROVE ClockMessage(c)'
    BY DEF ClockMessages
  <2>1. ClockMessage(c)
    BY DEF PartnersInv, ClockMessages
  <2>2. Waiting("TYPE0")' = pend.TYPE0 /\ Seen("TYPE0")' = {}
    BY <1>4 DEF StopTypes
  <2>3. c \in pend.TYPE0 => c \in Waiting("TYPE0")
    BY DEF Waiting
  <2>4. c \in pend.TYPE0 => /\ QuadOf(c) \in rec.quad.RCLK_REQ => QuadOf(c) \in r.quad.RCLK_REQ
                            /\ QuadOf(c) \in rec.quad.RCLKX => QuadOf(c) \in r.quad.RCLKX
    BY <1>2 DEF ParsedClocks
  <2>5. /\ db2[c] = "RESONANT_CLOCK_DISABLE" => QuadOf(c) \in r.quad.RCLK_REQ
        /\ db2[c] = "RESONANT_CLOCK_ENABLE" => QuadOf(c) \in r.quad.RCLKX
    BY <1>2 DEF ParsedClocks
  <2>. QED  BY <2>1, <2>2, <2>3, <2>4, <2>5 DEF ClockMessage
<1>16. RclkOff'
  <2>1. \A q \in Quads \ rclk : q \in rec.quad.RCLKX => q \in r.quad.RCLKX
    BY <1>2 DEF ParsedClocks
  <2>2. rec'.quad.ENTRY = rec.quad.ENTRY /\ Entering' = Entering
    BY <1>3 DEF JobStays, Entering
  <2>. QED  BY <1>10, <1>11, <2>1, <2>2 DEF PartnersInv, RclkOff
<1>17. SpecialsAre'
  <2>1. Waiting("TYPE6")' = pend.TYPE6 /\ pend.TYPE6 \subseteq Waiting("TYPE6")
    BY <1>4 DEF StopTypes, Waiting
  <2>2. Entering' = Entering /\ EntryLeft' = EntryLeft
    BY <1>3 DEF JobStays, Entering, EntryLeft
  <2>. QED  BY <2>1, <2>2 DEF PartnersInv, SpecialsAre, ParsedWell
<1>18. BlocksAre'
  BY DEF PartnersInv, BlocksAre, ParsedWell
<1>19. EntryJob'
  <2>1. Entering' = Entering /\ EntryLeft' = EntryLeft /\ rec'.quad.ENTRY = rec.quad.ENTRY
    BY <1>3 DEF JobStays, Entering, EntryLeft
  <2>2. Entering => EntryLeft \subseteq Quads
    BY DEF Entering, EntryLeft, TypeInv, TypesOfJob, Records, QuadVectors
  <2>. QED  BY <1>10, <1>11, <2>1, <2>2 DEF PartnersInv, EntryJob
<1>20. ExitJob' /\ PgpeQuads'
  BY <1>1, <1>3, PartnersStay DEF QuadsStay
<1>21. ClocksDone'
  BY <1>2 DEF ParsedClocks, ClocksDone
<1>. QED  BY <1>6, <1>7, <1>8, <1>9, <1>13, <1>14, <1>15, <1>16, <1>17, <1>18,
             <1>19, <1>20, <1>21 DEF PartnersInv

LEMMA PartnersHandlePackets ==
    ASSUME Regime, TypeInv, MaskInv, PartnersInv, NEW t \in CoreTypes, HandlePackets(t)
    PROVE  PartnersInv'
<1>. DEFINE parsed == Parsed(t, handler.set)
            exits == parsed.core.PIGX
            entries == parsed.core.PIGE
            active == parsed.core.ACTIVE
            after == pgpe.cores \union exits
            acked == \E c \in handler.set :
                        payload[t][c] \in {"ack_block", "ack_unblock"}
            r == [parsed EXCEPT !.core.ACTIVE = (@ \union exits) \ entries]
            c1 == [parsed.core EXCEPT !.ACTIVE = (@ \union exits) \ entries]
            c2 == [c1 EXCEPT !.PIGE = {}, !.PIGX = {}]
            r2 == [r EXCEPT !.core.PIGE = {}, !.core.PIGX = {}]
            badList == \/ exits # {} /\ after # active \union exits
                       \/ /\ entries # {}
                          /\ after \ entries # (active \ entries) \union exits
            why == IF \E c \in handler.set : Phantom(c, payload[t][c])
                   THEN "PHANTOM"
                   ELSE IF badList THEN "BAD_CORE_LIST" ELSE "none"
<1>1. handler.at = t /\ rec \in Records
  BY DEF HandlePackets, HandlerRuns, TypeInv
<1>2. parsed \in Records /\ ParsedWell(t, parsed)
  BY <1>1, PacketsParsed
<1>3. why \in {"none", "BAD_CORE_LIST"}
  BY <1>1, PacketsKnown
<1>4. /\ \/ why # "none" /\ Halt(why) /\ UNCHANGED <<rec, handler, pgpe, irqVars, job>>
         \/ /\ pgpe' = [pgpe EXCEPT !.cores = after \ entries]
            /\ IF t = "TYPE2"
               THEN /\ rec' = r2
                    /\ handler' = [handler EXCEPT !.at = "handoff", !.set = exits]
                    /\ UNCHANGED <<irqVars, job, panic>>
               ELSE Launch(r)
      /\ UNCHANGED <<coreVars, cmeVars, pigVars>>
  BY DEF HandlePackets
<1>5. /\ UNCHANGED <<running, wns, type, notified, powered, rclk, db2, pend, payload>>
      /\ UNCHANGED pigVars /\ CoresStay
  BY <1>4 DEF coreVars, cmeVars, pigVars, CoresStay
<1>6. pgpe.cores = active
  BY <1>2 DEF PartnersInv, CoresAre, ParsedWell
<1>7. parsed.quad.BLOCKX = rec.quad.BLOCKX
  BY <1>2 DEF ParsedWell
<1>. HIDE DEF parsed, why
<1>8. r = [parsed EXCEPT !.core = c1]
  BY <1>2 DEF Records
<1>9. /\ \A v \in CoreVectors \ {"ACTIVE"} : c1[v] = parsed.core[v]
      /\ c1.ACTIVE = (active \union exits) \ entries
      /\ c1 \in [CoreVectors -> SUBSET Cores]
  BY <1>2 DEF Records, CoreVectors
<1>. HIDE DEF c1, r
<1>10. /\ r \in Records /\ r.core = c1 /\ r.level = parsed.level /\ r.act = parsed.act
       /\ r.quad = parsed.quad /\ r.qswu = parsed.qswu /\ r.creq = parsed.creq
  BY <1>2, <1>8, <1>9 DEF Records
<1>11. CASE why # "none" /\ Halt(why) /\ UNCHANGED <<rec, handler, pgpe, irqVars, job>>
  <2>1. Sound'
    BY <1>3, <1>11 DEF Halt, Sound
  <2>2. UNCHANGED <<rec, handler, pgpe, job, override>>
    BY <1>11 DEF irqVars
  <2>3. ClocksStay /\ SpecialsStay /\ BlocksStay /\ JobStays /\ ListsStay /\ QuadsStay
    BY <1>5, <2>2, RecordStays
  <2>4. PacketsStay /\ In11Grows
    BY <1>5, <2>2, CoresGrow DEF PacketsStay
  <2>. QED  BY <1>5, <2>1, <2>2, <2>3, <2>4, PartnersStay DEF PartnersInv, QuadsStay
<1>12. CASE /\ pgpe' = [pgpe EXCEPT !.cores = after \ entries]
            /\ IF t = "TYPE2"
               THEN /\ rec' = r2
                    /\ handler' = [handler EXCEPT !.at = "handoff", !.set = exits]
                    /\ UNCHANGED <<irqVars, job, panic>>
               ELSE Launch(r)
  <2>1. pgpe'.cores = c1.ACTIVE /\ pgpe'.quads = pgpe.quads
    BY <1>6, <1>9, <1>12 DEF TypeInv, TypesOfPgpe
  <2>2. CASE t = "TYPE2"
    <3>1. r2 = [r EXCEPT !.core = c2]
      BY <1>10 DEF Records
    <3>2. /\ \A v \in CoreVectors \ {"PIGE", "PIGX"} : c2[v] = c1[v]
          /\ c2.PIGE = {} /\ c2.PIGX = {}
      BY <1>9 DEF CoreVectors
    <3>. HIDE DEF c2, r2
    <3>3. /\ rec'.core = c2 /\ rec'.level = parsed.level /\ rec'.act = parsed.act
          /\ rec'.quad = parsed.quad /\ rec'.qswu = parsed.qswu /\ rec'.creq = parsed.creq
      BY <1>10, <1>12, <2>2, <3>1 DEF Records
    <3>4. handler'.at = "handoff" /\ handler'.set = exits
      BY <1>12, <2>2 DEF MaskInv, Shapes, IsHandler
    <3>5. UNCHANGED <<job, panic, override>>
      BY <1>12, <2>2 DEF irqVars
    <3>6. /\ \A v \in {"EXIT", "RCLKE", "BLOCKX"} : rec'.core[v] = parsed.core[v]
          /\ rec'.core.PIGX = {} /\ rec'.core.PIGE = {} /\ rec'.core.ACTIVE = c1.ACTIVE
      BY <1>9, <3>2, <3>3 DEF CoreVectors
    <3>7. ParsedWell("TYPE2", parsed)
      BY <1>2, <2>2
    <3>. QED  BY <1>1, <1>2, <1>5, <1>7, <2>1, <2>2, <3>3, <3>4, <3>5, <3>6, <3>7,
                 PartnersParsed
  <2>3. CASE t # "TYPE2"
    <3>1. Launch(r)
      BY <1>12, <2>3
    <3>2. handler.at \in {"TYPE0", "TYPE3", "TYPE6", "IPI3_LOW"}
      BY <1>1, <2>3 DEF CoreTypes
    <3>3. /\ r.core.ACTIVE = c1.ACTIVE /\ r.core.RCLKE = parsed.core.RCLKE
          /\ r.core.PIGX = exits /\ r.core.BLOCKX = parsed.core.BLOCKX
      BY <1>9, <1>10 DEF CoreVectors
    <3>4. ParsedClocks(r)
      BY <1>2, <1>10, <3>3 DEF ParsedWell, ParsedClocks
    <3>5. LaunchesWell(r)
      BY <1>2, <1>10, <2>3, <3>3, <3>4 DEF ParsedWell, LaunchesWell, PartnersInv,
         BlocksAre
    <3>. QED  BY <1>5, <1>10, <2>1, <3>1, <3>2, <3>3, <3>5, PartnersLaunches
  <2>. QED  BY <2>2, <2>3
<1>. QED  BY <1>4, <1>11, <1>12

-----------------------------------------------------------------------------
(* Special wakeups are seen of quads with power only, and blocks by quad.   *)
LEMMA ClocksAsParsed ==
    ASSUME PartnersInv, NEW r,
           r.core.RCLKE = rec.core.RCLKE, r.quad.RCLK_REQ = rec.quad.RCLK_REQ,
           r.quad.RCLKX = rec.quad.RCLKX, r.quad.RCLK_DONE = rec.quad.RCLK_DONE
    PROVE  ParsedClocks(r)
BY DEF PartnersInv, ClockMessages, ClockMessage, ClocksDone, ParsedClocks

LEMMA NoneExits ==
    ASSUME TypeInv, PartnersInv, SpecialPackets
    PROVE  \E q1 \in [QswuVectors -> SUBSET Quads] :
              /\ [rec EXCEPT !.qswu = q1] \in Records
              /\ Launch([rec EXCEPT !.qswu = q1])
              /\ q1.EXIT = {} /\ q1.BLOCKX = {}
<1>. DEFINE Of(what) == {q \in handler.set : payload.TYPE6[q] = what}
            news == Of("exit") \ rec.qswu.ACTIVE
            up == news \intersect rec.quad.ACTIVE
            down == news \ up
            Held(qs, d) == IF Vector[d].status \in rec.status THEN qs ELSE {}
            Barred(qs, d) == qs \intersect rec.quad[Vector[d].block]
            Granted(qs, d) ==
                {q \in qs : \A p \in Held(qs, d) \union Barred(qs, d) : q < p}
            r == [rec EXCEPT
                   !.qswu.SUSPENDX = @ \union Held(down, "exit"),
                   !.qswu.BLOCKX = @ \union Barred(down, "exit"),
                   !.qswu.EXIT = Granted(down, "exit"),
                   !.qswu.SUSPENDE = @ \union Held(Of("entry"), "entry"),
                   !.qswu.BLOCKE = @ \union Barred(Of("entry"), "entry"),
                   !.qswu.ENTRY = Granted(Of("entry"), "entry"),
                   !.qswu.ACTIVE = (@ \union up) \ Granted(Of("entry"), "entry")]
            q1 == [rec.qswu EXCEPT
                        !.SUSPENDX = @ \union Held(down, "exit"),
                        !.BLOCKX = @ \union Barred(down, "exit"),
                        !.EXIT = Granted(down, "exit"),
                        !.SUSPENDE = @ \union Held(Of("entry"), "entry"),
                        !.BLOCKE = @ \union Barred(Of("entry"), "entry"),
                        !.ENTRY = Granted(Of("entry"), "entry"),
                        !.ACTIVE = (@ \union up) \ Granted(Of("entry"), "entry")]
<1>1. handler.set \subseteq Quads /\ rec \in Records
      /\ handler.set \subseteq Waiting("TYPE6")
  BY DEF SpecialPackets, HandlerRuns, TypeInv, TypesOfHandler, Waiting, Seen
<1>2. Launch(r)
  BY DEF SpecialPackets
<1>3. Of("exit") \subseteq rec.quad.ACTIVE
  BY <1>1 DEF PartnersInv, SpecialsAre, QuadsAre
<1>4. Of("entry") \subseteq Quads /\ down = {} /\ up \subseteq Quads
  BY <1>1, <1>3
<1>. HIDE DEF Of, news, up, down
<1>5. \A qs \in SUBSET Quads, d \in {"entry", "exit"} :
         Held(qs, d) \subseteq qs /\ Barred(qs, d) \subseteq qs
         /\ Granted(qs, d) \subseteq qs
  OBVIOUS
<1>. HIDE DEF Held, Barred, Granted
<1>6. rec.qswu \in [QswuVectors -> SUBSET Quads]
  BY <1>1 DEF Records
<1>7. /\ Held(down, "exit") = {} /\ Barred(down, "exit") = {}
      /\ Granted(down, "exit") = {}
      /\ Held(Of("entry"), "entry") \subseteq Quads
      /\ Barred(Of("entry"), "entry") \subseteq Quads
      /\ Granted(Of("entry"), "entry") \subseteq Quads
  BY <1>4, <1>5
<1>8. rec.qswu.BLOCKX = {}
  BY DEF PartnersInv, SpecialsAre
<1>9. q1 \in [QswuVectors -> SUBSET Quads] /\ q1.EXIT = {} /\ q1.BLOCKX = {}
  BY <1>4, <1>6, <1>7, <1>8 DEF QswuVectors
<1>10. r = [rec EXCEPT !.qswu = q1]
  BY <1>1 DEF Records
<1>. HIDE DEF q1, r
<1>11. [rec EXCEPT !.qswu = q1] \in Records
  BY <1>1, <1>9 DEF Records
<1>. QED  BY <1>2, <1>9, <1>10, <1>11

LEMMA PartnersSpecialPackets ==
    ASSUME TypeInv, MaskInv, PartnersInv, SpecialPackets
    PROVE  PartnersInv'
<1>1. PICK q1 \in [QswuVectors -> SUBSET Quads] :
              /\ [rec EXCEPT !.qswu = q1] \in Records
              /\ Launch([rec EXCEPT !.qswu = q1])
              /\ q1.EXIT = {} /\ q1.BLOCKX = {}
  BY NoneExits
<1>. DEFINE r == [rec EXCEPT !.qswu = q1]
<1>2. r \in Records /\ Launch(r)
  BY <1>1
<1>3. /\ r.level = rec.level /\ r.act = rec.act /\ r.quad = rec.quad
      /\ r.core = rec.core /\ r.creq = rec.creq /\ r.qswu = q1
  BY DEF TypeInv, Records
<1>. HIDE DEF r
<1>4. ParsedClocks(r)
  BY <1>3, ClocksAsParsed
<1>5. rec.core.PIGX = {}
  BY DEF PartnersInv, CoresAre
<1>6. LaunchesWell(r)
  BY <1>1, <1>3, <1>4, <1>5 DEF LaunchesWell, PartnersInv, BlocksAre, Deep
<1>7. /\ UNCHANGED <<running, wns, type, notified, powered, rclk, db2>>
      /\ UNCHANGED pigVars /\ pgpe' = pgpe /\ handler.at = "TYPE6"
  BY DEF SpecialPackets, HandlerRuns, coreVars, cmeVars
<1>8. pgpe.cores = rec.core.ACTIVE
  BY DEF PartnersInv, CoresAre
<1>. QED  BY <1>2, <1>3, <1>6, <1>7, <1>8, PartnersLaunches

-----------------------------------------------------------------------------
LEMMA BlockAsks ==
    ASSUME TypeInv, PartnersInv, BlockRequest
    PROVE  \E d1 \in [QuadVectors -> SUBSET Quads], cs \in SUBSET Cores :
              LET r == [rec EXCEPT !.quad = d1, !.creq = cs, !.cack = {}]
              IN  /\ r \in Records
                  /\ Launch(r) \/ (Launch(Unblocked(r))
                                   /\ BlockQuads \intersect rec.quad.ACTIVE = {})
                  /\ \A v \in QuadVectors \ {"BLOCKE", "BLOCKX"} :
                         d1[v] = rec.quad[v]
                  /\ d1.BLOCKX \subseteq ExitBlocked
                  /\ \A c \in cs : QuadOf(c) \in BlockQuads
<1>. DEFINE block == control = "block"
            asked == BlockQuads \intersect rec.quad.ACTIVE
            Marked(d, qs) == IF d \notin BlockWhat THEN qs
                             ELSE IF block THEN qs \union BlockQuads
                             ELSE qs \ BlockQuads
            cs == {First(q) : q \in asked}
            r0 == [rec EXCEPT !.quad.BLOCKE = Marked("entry", @),
                              !.quad.BLOCKX = Marked("exit", @),
                              !.creq = cs, !.cack = {}]
            d1 == [rec.quad EXCEPT !.BLOCKE = Marked("entry", @),
                                   !.BLOCKX = Marked("exit", @)]
            r == [rec EXCEPT !.quad = d1, !.creq = cs, !.cack = {}]
<1>1. rec \in Records
  BY DEF TypeInv
<1>2. Launch(r0) \/ (Launch(Unblocked(r0)) /\ asked = {})
  BY DEF BlockRequest
<1>3. cs \subseteq Cores /\ \A c \in cs : QuadOf(c) \in BlockQuads
  BY CoresOfQuads, SgpeAssumption
<1>4. \A qs \in SUBSET Quads, d \in {"entry", "exit"} : Marked(d, qs) \subseteq Quads
  BY SgpeAssumption
<1>5. rec.quad.BLOCKX \subseteq ExitBlocked
  BY DEF PartnersInv, BlocksAre
<1>6. Marked("exit", rec.quad.BLOCKX) \subseteq ExitBlocked
  BY <1>5 DEF ExitBlocked
<1>. HIDE DEF Marked, cs, asked
<1>7. /\ rec.quad.BLOCKE \in SUBSET Quads /\ rec.quad.BLOCKX \in SUBSET Quads
  BY <1>1 DEF Records, QuadVectors
<1>8. /\ Marked("entry", rec.quad.BLOCKE) \subseteq Quads
      /\ Marked("exit", rec.quad.BLOCKX) \subseteq Quads
  BY <1>4, <1>7
<1>9. /\ d1 \in [QuadVectors -> SUBSET Quads]
      /\ \A v \in QuadVectors \ {"BLOCKE", "BLOCKX"} : d1[v] = rec.quad[v]
      /\ d1.BLOCKX = Marked("exit", rec.quad.BLOCKX)
  BY <1>1, <1>8 DEF Records, QuadVectors
<1>10. r0 = r
  BY <1>1 DEF Records
<1>. HIDE DEF d1, r0
<1>11. r \in Records
  BY <1>1, <1>3, <1>9 DEF Records
<1>. QED  BY <1>2, <1>3, <1>6, <1>9, <1>10, <1>11 DEF asked

LEMMA PartnersBlockRequest ==
    ASSUME TypeInv, MaskInv, PartnersInv, BlockRequest
    PROVE  PartnersInv'
<1>1. PICK d1 \in [QuadVectors -> SUBSET Quads], cs \in SUBSET Cores :
              LET r == [rec EXCEPT !.quad = d1, !.creq = cs, !.cack = {}]
              IN  /\ r \in Records
                  /\ Launch(r) \/ (Launch(Unblocked(r))
                                   /\ BlockQuads \intersect rec.quad.ACTIVE = {})
                  /\ \A v \in QuadVectors \ {"BLOCKE", "BLOCKX"} :
                         d1[v] = rec.quad[v]
                  /\ d1.BLOCKX \subseteq ExitBlocked
                  /\ \A c \in cs : QuadOf(c) \in BlockQuads
  BY BlockAsks
<1>. DEFINE r == [rec EXCEPT !.quad = d1, !.creq = cs, !.cack = {}]
<1>2. /\ r.level = rec.level /\ r.act = rec.act /\ r.quad = d1 /\ r.core = rec.core
      /\ r.qswu = rec.qswu /\ r.creq = cs
  BY DEF TypeInv, Records
<1>3. /\ r \in Records
      /\ Launch(r) \/ (Launch(Unblocked(r)) /\ BlockQuads \intersect rec.quad.ACTIVE = {})
  BY <1>1
<1>. HIDE DEF r
<1>4. \A v \in {"ACTIVE", "RCLK_REQ", "RCLK_DONE", "RCLKX"} : d1[v] = rec.quad[v]
  BY <1>1 DEF QuadVectors
<1>5. /\ UNCHANGED <<running, wns, type, notified, powered, rclk, db2>>
      /\ UNCHANGED pigVars /\ pgpe' = pgpe /\ handler.at = "IPI3_LOW"
  BY DEF BlockRequest, HandlerRuns, coreVars
<1>6. pgpe.cores = rec.core.ACTIVE /\ rec.core.PIGX = {}
  BY DEF PartnersInv, CoresAre
<1>7. rec.qswu.EXIT = {} /\ rec.qswu.BLOCKX = {}
  BY DEF PartnersInv, SpecialsAre
<1>8. CASE Launch(r)
  <2>1. ParsedClocks(r)
    BY <1>2, <1>4, ClocksAsParsed
  <2>2. LaunchesWell(r)
    BY <1>1, <1>2, <1>4, <1>6, <1>7, <2>1
       DEF LaunchesWell, PartnersInv, BlocksAre, Deep
  <2>. QED  BY <1>2, <1>3, <1>5, <1>6, <1>8, <2>2, PartnersLaunches
<1>9. CASE Launch(Unblocked(r)) /\ BlockQuads \intersect rec.quad.ACTIVE = {}
  <2>. DEFINE e == Unblocked(r)
  <2>1. e \in Records /\ NowFree(r, e) /\ SameFrame(r, e)
    BY <1>3, UnblockedIs, UnblockedType, UnblockedFrame
  <2>. HIDE DEF e
  <2>2. /\ e.level = rec.level /\ e.quad = d1 /\ e.act = rec.act /\ e.creq = cs
        /\ e.core.RCLKE = rec.core.RCLKE /\ e.core.ACTIVE = rec.core.ACTIVE
    BY <1>2, <2>1, FrameIs DEF NowFree
  <2>3. /\ e.core.BLOCKX \subseteq rec.core.BLOCKX
        /\ e.core.PIGX \subseteq rec.core.BLOCKX
        /\ e.qswu.EXIT = {} /\ e.qswu.BLOCKX = {}
    BY <1>2, <1>6, <1>7, <2>1 DEF NowFree
  <2>4. ParsedClocks(e)
    BY <1>4, <2>2, ClocksAsParsed
  <2>5. ASSUME NEW x \in e.core.PIGX PROVE x \notin rec.core.RCLKE
    BY <2>3, <2>5, <1>9 DEF PartnersInv, BlocksAre, ExitBlocked, ClocksAre, QuadsAre
  <2>6. LaunchesWell(e)
    BY <1>1, <1>4, <2>2, <2>3, <2>4, <2>5
       DEF LaunchesWell, PartnersInv, BlocksAre, Deep
  <2>7. Launch(e)
    BY <1>9 DEF e
  <2>. QED  BY <1>5, <1>6, <2>1, <2>2, <2>6, <2>7, PartnersLaunches
<1>. QED  BY <1>3, <1>8, <1>9

-----------------------------------------------------------------------------
LEMMA PartnersInit == Init => PartnersInv
<1>. SUFFICES ASSUME Init PROVE PartnersInv
  OBVIOUS
<1>1. PICK up \in SUBSET Quads :
        /\ running = In(up) /\ wns = Cores \ In(up)
        /\ type = [c \in Cores |-> "TYPE3"] /\ notified = {}
        /\ db2 = [c \in Cores |-> "none"]
        /\ powered = up /\ rclk = up
        /\ pend = [t \in StopTypes |-> {}]
        /\ payload = [t \in StopTypes |-> IF t = "TYPE6"
                         THEN [q \in Quads |-> "none"]
                         ELSE [c \in Cores |-> "none"]]
        /\ rec = [level |-> [c \in Cores |-> IF c \in In(up) THEN 0 ELSE 11],
                  act |-> [q \in Quads |-> IF q \in up THEN 0 ELSE 11],
                  core |-> [v \in CoreVectors |->
                               IF v = "ACTIVE" THEN In(up) ELSE {}],
                  quad |-> [v \in QuadVectors |->
                               IF v = "ACTIVE" THEN up ELSE {}],
                  qswu |-> [v \in QswuVectors |-> {}],
                  creq |-> {}, cack |-> {}, status |-> {},
                  entry_pending |-> FALSE]
        /\ override = {} /\ handler = NoHandler /\ job = NoJob
        /\ pgpe = [cores |-> In(up), quads |-> up]
        /\ panic = "none"
  BY DEF Init
<1>2. \A c \in Cores : c \in In(up) <=> QuadOf(c) \in up
  BY CoresIn
<1>3. \A c \in Cores : In11(c) <=> QuadOf(c) \notin up
  BY <1>1, <1>2 DEF In11
<1>4. \A q \in Quads : q \notin up => AllIn11(q)
  BY <1>3, CoresOfQuads DEF AllIn11
<1>5. /\ rec.core.ACTIVE = In(up) /\ rec.quad.ACTIVE = up
      /\ \A v \in CoreVectors \ {"ACTIVE"} : rec.core[v] = {}
      /\ \A v \in QuadVectors \ {"ACTIVE"} : rec.quad[v] = {}
      /\ rec.qswu.EXIT = {} /\ rec.qswu.BLOCKX = {} /\ rec.creq = {}
      /\ \A c \in Cores : rec.level[c] = 11 => c \notin In(up)
      /\ \A q \in Quads : (rec.act[q] = 0) <=> (q \in up)
  BY <1>1 DEF CoreVectors, QuadVectors, QswuVectors
<1>6. /\ rec.core.PIGX = {} /\ rec.core.PIGE = {} /\ rec.core.RCLKE = {}
      /\ rec.core.EXIT = {} /\ rec.core.BLOCKX = {}
      /\ rec.quad.RCLK_REQ = {} /\ rec.quad.RCLKX = {} /\ rec.quad.BLOCKX = {}
      /\ rec.quad.RCLK_DONE = {}
  BY <1>5 DEF CoreVectors, QuadVectors
<1>7. /\ handler.at = "none" /\ job.thread = "none" /\ job.at = "idle"
      /\ pgpe.cores = In(up) /\ pgpe.quads = up
  BY <1>1 DEF NoHandler, NoJob
<1>8. \A t \in StopTypes : Seen(t) = {} /\ Waiting(t) = {}
  BY <1>1, <1>7 DEF Seen, Waiting, StopTypes
<1>9. /\ \A c \in Cores : payload.TYPE0[c] = "none"
      /\ \A c \in Cores : payload.TYPE2[c] = "none"
      /\ \A c \in Cores : payload.TYPE3[c] = "none"
  BY <1>1 DEF StopTypes
<1>10. ~Entering /\ ~Exiting /\ ~ExitWorks
  BY <1>7 DEF Entering, Exiting, ExitWorks
<1>11. CoresAre /\ PayloadKinds /\ Packets2 /\ Packets3 /\ NotStale /\ Handed
  <2>1. CoresAre /\ PayloadKinds
    BY <1>1, <1>5, <1>6, <1>7, <1>9, SMTT(60) DEF CoresAre, PayloadKinds
  <2>2. Packets2 /\ Packets3
    BY <1>8 DEF Packets2, Packets3, StopTypes
  <2>. QED  BY <1>1, <1>7, <2>1, <2>2 DEF NotStale, Handed
<1>12. Deep
  BY <1>2, <1>3, <1>5 DEF Deep
<1>13. QuadsAre
  BY <1>1, <1>4, <1>5 DEF QuadsAre
<1>14. ClocksAre
  BY <1>8, <1>6 DEF StopTypes, ClocksAre
<1>15. ExitsClocked
  BY <1>10 DEF ExitsClocked
<1>16. ClockMessages
  BY <1>8, <1>1 DEF StopTypes, ClockMessages, ClockMessage
<1>17. RclkOff
  BY <1>1, <1>4 DEF RclkOff
<1>18. SpecialsAre /\ BlocksAre
  BY <1>8, <1>5, <1>6 DEF StopTypes, SpecialsAre, BlocksAre
<1>19. JobIs /\ EntryJob /\ ExitJob
  BY <1>7, <1>10 DEF JobIs, Places, EntryJob, ExitJob
<1>20. PgpeQuads /\ Sound
  BY <1>1, <1>5, <1>7, <1>10 DEF PgpeQuads, Sound
<1>21. ClocksDone
  BY <1>6 DEF ClocksDone
<1>. QED  BY <1>11, <1>12, <1>13, <1>14, <1>15, <1>16, <1>17, <1>18, <1>19, <1>20,
             <1>21 DEF PartnersInv

LEMMA PartnersNext ==
    ASSUME Regime, TypeInv, MaskInv, PartnersInv, [Next]_vars
    PROVE  PartnersInv'
<1>1. CASE UNCHANGED vars
  BY <1>1, PartnersAsk
<1>2. CASE \E q \in Quads, c \in Cores, level \in Levels :
               c \in CoresOf(q) /\ CoreStops(q, c, level)
  BY <1>2, PartnersCoreStops
<1>3. CASE \E q \in Quads : \E c \in CoresOf(q) : WakeUp(q, c) \/ PcInterrupt(q, c)
  BY <1>3, PartnersCoresMove
<1>4. CASE \E q \in Quads : Cme(q)
  BY <1>4, PartnersCoresMove, PartnersCmeDb1, PartnersCmeDb2 DEF Cme
<1>5. CASE \E q \in Quads : SpecialWakeup(q) \/ ReleaseSpecial(q)
  BY <1>5, PartnersSpecialWakeup
<1>6. CASE OccBlocks \/ OccUnblocks \/ PgpeSuspends \/ Fit
  BY <1>6, PartnersAsk
<1>7. CASE Handlers
  BY <1>7, PartnersTakeInterrupt, PartnersHandlePackets, PartnersHandOff,
     PartnersSpecialPackets, PartnersBlockRequest, PartnersSuspends DEF Handlers
<1>8. CASE Threads
  <2>1. CASE \E thread \in {"exit", "entry"} :
                 ThreadStarts(thread) \/ ThreadSuspends(thread) \/ ThreadCloses(thread)
    BY <2>1, PartnersThreadMoves
  <2>2. CASE ExitThreadEnds \/ EntryThreadEnds
    BY <2>2, PartnersThreadMoves
  <2>3. CASE ExitSelects \/ ExitTellsDone \/ ExitExpress
    BY <2>3, PartnersExitTells, PartnersExitExpress
  <2>4. CASE EntrySelects \/ EntryNotifies \/ EntryTellsDone
    BY <2>4, PartnersEntrySelects, PartnersEntryTells
  <2>5. CASE \E q \in Quads : ExitQuad(q) \/ Purge(q) \/ EntryQuad(q)
    BY <2>5, PartnersExitQuad, PartnersPurge, PartnersEntryQuad
  <2>. QED  BY <1>8, <2>1, <2>2, <2>3, <2>4, <2>5 DEF Threads
<1>. QED  BY <1>1, <1>2, <1>3, <1>4, <1>5, <1>6, <1>7, <1>8 DEF Next, Sgpe

(* Where a core or a quad is on its way into STOP11 and back, the SGPE,    *)
(* the CMEs and the PGPE agree about, whichever of them moves.             *)
THEOREM PartnersHold == Regime => (Spec => []PartnersInv)
<1>. SUFFICES ASSUME Regime PROVE Spec => []PartnersInv
  OBVIOUS
<1>1. Init => PartnersInv
  BY PartnersInit
<1>2. TypeInv /\ MaskInv /\ PartnersInv /\ [Next]_vars => PartnersInv'
  BY PartnersNext
<1>. QED  BY <1>1, <1>2, TypesHold, PTL DEF Spec

(* A core is handed over to a CME with power and a resonant clock          *)
(* (p9_sgpe_stop_exit_end), whatever was aborted, blocked or on its way.   *)
THEOREM HandedOffWhenReady == Regime => (Spec => []ReadyWhenHandedOff)
<1>. SUFFICES ASSUME Regime PROVE Spec => []ReadyWhenHandedOff
  OBVIOUS
<1>1. ASSUME PartnersInv PROVE ReadyWhenHandedOff
  <2>. SUFFICES ASSUME NEW q \in Quads, ~(CoresOf(q) \subseteq wns)
       PROVE  q \in powered /\ q \in rclk
    BY DEF ReadyWhenHandedOff
  <2>1. ~AllIn11(q)
    BY DEF AllIn11, In11
  <2>. QED  BY <1>1, <2>1 DEF PartnersInv, QuadsAre, RclkOff
<1>. QED  BY <1>1, PartnersHold, PTL

(* The quads that the SGPE holds for active are those with power, and the  *)
(* lists of quads agree at each of the PGPE's answers: BAD_QUAD_LIST, the  *)
(* halt of p9_sgpe_stop_exit and p9_sgpe_stop_entry, a packet of a core    *)
(* that is not the SGPE's, and a quad that loses its power while its       *)
(* resonant clock is on never come.                                        *)
THEOREM QuadListsAgree ==
    Regime => (Spec => [](ActiveQuadsAgree
                          /\ panic \notin {"BAD_QUAD_LIST", "PHANTOM", "RESCLK_ON"}))
<1>. SUFFICES ASSUME Regime
     PROVE  Spec => [](ActiveQuadsAgree
                       /\ panic \notin {"BAD_QUAD_LIST", "PHANTOM", "RESCLK_ON"})
  OBVIOUS
<1>1. PartnersInv =>
          ActiveQuadsAgree /\ panic \notin {"BAD_QUAD_LIST", "PHANTOM", "RESCLK_ON"}
  BY DEF PartnersInv, QuadsAre, Sound, ActiveQuadsAgree
<1>. QED  BY <1>1, PartnersHold, PTL

-----------------------------------------------------------------------------
(* The cores.  While the OCC blocks nothing, a core that is handed over or *)
(* will be is in the lists of active cores, and one that exits from STOP11 *)
(* does not enter meanwhile.                                                *)
Undisturbed == /\ Windows \intersect {"special_entry", "starved"} = {}
               /\ BlockWhat = {}

Known ==
    /\ Cores \ wns \subseteq rec.core.ACTIVE
    /\ handler.at = "handoff" => handler.set \subseteq rec.core.ACTIVE
    /\ rec.core.BLOCKE = {}
    /\ ExitWorks => \A c \in rec.core.EXIT : In11(c) /\ c \in rec.core.ACTIVE
    /\ panic # "BAD_CORE_LIST"

CoreListsStay == \A v \in {"ACTIVE", "EXIT", "BLOCKE"} : rec'.core[v] = rec.core[v]

LEMMA KnownStays ==
    ASSUME TypeInv, Known, wns \subseteq wns', In11Grows, CoreListsStay,
           handler'.at = "handoff" => handler' = handler, ExitWorks' => ExitWorks,
           panic' # "BAD_CORE_LIST"
    PROVE  Known'
<1>1. rec.core.EXIT \subseteq Cores
  BY DEF TypeInv, Records, CoreVectors
<1>. QED  BY <1>1 DEF Known, In11Grows, CoreListsStay

(* What the packets did to the cores.                                       *)
LEMMA KnownParsed ==
    ASSUME Undisturbed, TypeInv, BlockedAsAsked, PartnersInv, Known,
           NEW t \in CoreTypes, handler.at = t
    PROVE  LET r == Parsed(t, handler.set)
           IN  /\ r \in Records /\ r.core.BLOCKE = {}
               /\ r.core.EXIT = rec.core.EXIT /\ r.core.ACTIVE = rec.core.ACTIVE
               /\ r.core.PIGX \intersect r.core.PIGE = {}
               /\ r.core.PIGE \subseteq wns
               /\ t = "TYPE2" => \A c \in r.core.PIGE : ~In11(c)
               /\ t # "TYPE2" => \A c \in r.core.PIGX : In11(c)
<1>. DEFINE cs == handler.set
            r == Parsed(t, cs)
<1>1. /\ cs \in SUBSET Cores /\ Seen(t) = cs
      /\ \A c \in cs : payload[t][c] # "none"
  BY PacketsKnown
<1>2. r \in Records /\ Parses(t, cs, r)
  BY <1>1, ParsedIs
<1>. HIDE DEF r
<1>3. /\ SameFrame(rec, r) /\ ParsesBlocked(t, cs, r) /\ ParsesWanted(t, cs, r)
  BY <1>2 DEF Parses
<1>4. r.core.EXIT = rec.core.EXIT /\ r.core.ACTIVE = rec.core.ACTIVE
  BY <1>3, FrameIs
<1>5. rec.core.BLOCKX = {} /\ rec.core.BLOCKE = {} /\ rec.quad.BLOCKE = {}
  BY DEF PartnersInv, BlocksAre, ExitBlocked, Undisturbed, Known, BlockedAsAsked
<1>6. r.core.BLOCKE = {}
  BY <1>3, <1>5 DEF ParsesBlocked
<1>7. r.core.PIGX \subseteq Exits(t, cs) /\ r.core.PIGE \subseteq Stops(t, cs)
  BY <1>3, <1>5 DEF ParsesWanted
<1>8. \A c \in cs :
         /\ t = "TYPE0" => payload[t][c] \in {"entry_rclk", "exit_rclk"}
         /\ t = "TYPE2" => payload[t][c] \in {"stop5", "hw_wakeup", "dec_wakeup"}
         /\ t = "TYPE3" => payload[t][c] \in {"stop11", "hw_wakeup"} \union Acks
  BY <1>1 DEF PartnersInv, PayloadKinds
<1>9. ASSUME NEW c \in r.core.PIGE
      PROVE  /\ c \in cs /\ t # "TYPE0" /\ payload[t][c] \in {"stop5", "stop11"}
             /\ c \in wns /\ (t = "TYPE2" => ~In11(c))
  <2>1. c \in cs /\ payload[t][c] \in {"stop5", "stop11"}
    BY <1>7, <1>9 DEF Stops
  <2>2. c \in Waiting(t) /\ t # "TYPE0"
    BY <1>1, <1>8, <2>1 DEF Waiting
  <2>3. CASE t = "TYPE2"
    BY <2>1, <2>2, <2>3 DEF PartnersInv, Packets2, In11
  <2>4. CASE t = "TYPE3"
    BY <1>8, <2>1, <2>4, <2>2 DEF Acks, PartnersInv, Packets3, In11
  <2>. QED  BY <2>1, <2>2, <2>3, <2>4 DEF CoreTypes
<1>10. ASSUME NEW c \in r.core.PIGX
       PROVE  \/ c \in cs /\ payload[t][c] \in {"hw_wakeup", "dec_wakeup"}
              \/ /\ t = "TYPE0" /\ c \in Cores
                 /\ \E d \in cs : payload[t][d] = "exit_rclk" /\ QuadOf(c) = QuadOf(d)
  <2>1. c \in Cores
    BY <1>2 DEF Records, CoreVectors
  <2>2. \/ c \in cs /\ payload[t][c] \in {"hw_wakeup", "dec_wakeup"}
        \/ \E d \in cs : payload[t][d] = "exit_rclk" /\ QuadOf(c) = QuadOf(d)
    BY <1>7, <1>10 DEF Exits
  <2>3. \A d \in cs : payload[t][d] = "exit_rclk" => t = "TYPE0"
    BY <1>8 DEF CoreTypes, Acks
  <2>. QED  BY <2>1, <2>2, <2>3
<1>11. r.core.PIGX \intersect r.core.PIGE = {}
  <2>. SUFFICES ASSUME NEW c \in r.core.PIGX, c \in r.core.PIGE PROVE FALSE
    OBVIOUS
  <2>1. t # "TYPE0" /\ payload[t][c] \in {"stop5", "stop11"}
    BY <1>9
  <2>. QED  BY <1>10, <2>1
<1>12. ASSUME t # "TYPE2", NEW c \in r.core.PIGX PROVE In11(c)
  <2>1. CASE c \in cs /\ payload[t][c] \in {"hw_wakeup", "dec_wakeup"}
    BY <1>8, <1>12, <2>1, <1>1 DEF CoreTypes, Acks, PartnersInv, Packets3, Waiting
  <2>2. CASE t = "TYPE0" /\ c \in Cores
             /\ \E d \in cs : payload[t][d] = "exit_rclk" /\ QuadOf(c) = QuadOf(d)
    <3>1. PICK d \in cs : payload[t][d] = "exit_rclk" /\ QuadOf(c) = QuadOf(d)
      BY <2>2
    <3>2. QuadOf(d) \in rec.quad.RCLKX
      BY <1>1, <2>2, <3>1 DEF PartnersInv, ClockMessages, ClockMessage, Waiting
    <3>. QED  BY <2>2, <3>1, <3>2, CoresOfQuads DEF PartnersInv, ClocksAre, AllIn11
  <2>. QED  BY <1>10, <1>12, <2>1, <2>2
<1>. QED  BY <1>2, <1>4, <1>6, <1>9, <1>11, <1>12 DEF r

LEMMA KnownLaunches ==
    ASSUME TypeInv, Known, NEW r \in Records, Launch(r), UNCHANGED <<wns, type>>,
           Cores \ wns \subseteq r.core.ACTIVE, r.core.BLOCKE = {},
           \A c \in r.core.PIGX : In11(c) /\ c \in r.core.ACTIVE
    PROVE  Known'
<1>1. /\ handler' = NoHandler /\ rec'.core.EXIT = r.core.PIGX
      /\ rec'.core.ACTIVE = r.core.ACTIVE /\ rec'.core.BLOCKE = r.core.BLOCKE
  BY LaunchIs DEF CoreVectors
<1>2. panic' # "BAD_CORE_LIST"
  BY DEF Launch, VecRestore, Halt, Known
<1>3. handler'.at # "handoff"
  BY <1>1 DEF NoHandler
<1>. QED  BY <1>1, <1>2, <1>3 DEF Known, In11

LEMMA KnownHandlePackets ==
    ASSUME Undisturbed, TypeInv, BlockedAsAsked, MaskInv, PartnersInv, Known,
           NEW t \in CoreTypes, HandlePackets(t)
    PROVE  Known'
<1>. DEFINE parsed == Parsed(t, handler.set)
            exits == parsed.core.PIGX
            entries == parsed.core.PIGE
            active == parsed.core.ACTIVE
            after == pgpe.cores \union exits
            acked == \E c \in handler.set :
                        payload[t][c] \in {"ack_block", "ack_unblock"}
            r == [parsed EXCEPT !.core.ACTIVE = (@ \union exits) \ entries]
            c1 == [parsed.core EXCEPT !.ACTIVE = (@ \union exits) \ entries]
            c2 == [c1 EXCEPT !.PIGE = {}, !.PIGX = {}]
            r2 == [r EXCEPT !.core.PIGE = {}, !.core.PIGX = {}]
            badList == \/ exits # {} /\ after # active \union exits
                       \/ /\ entries # {}
                          /\ after \ entries # (active \ entries) \union exits
            why == IF \E c \in handler.set : Phantom(c, payload[t][c])
                   THEN "PHANTOM"
                   ELSE IF badList THEN "BAD_CORE_LIST" ELSE "none"
<1>1. handler.at = t /\ rec \in Records
  BY DEF HandlePackets, HandlerRuns, TypeInv
<1>2. /\ parsed \in Records /\ parsed.core.BLOCKE = {}
      /\ parsed.core.EXIT = rec.core.EXIT /\ active = rec.core.ACTIVE
      /\ exits \intersect entries = {} /\ entries \subseteq wns
      /\ t = "TYPE2" => \A c \in entries : ~In11(c)
      /\ t # "TYPE2" => \A c \in exits : In11(c)
  BY <1>1, KnownParsed
<1>3. ~\E c \in handler.set : Phantom(c, payload[t][c])
  BY <1>1, PacketsKnown
<1>4. pgpe.cores = active
  BY <1>2 DEF PartnersInv, CoresAre
<1>5. /\ \/ why # "none" /\ Halt(why) /\ UNCHANGED <<rec, handler, pgpe, irqVars, job>>
         \/ IF t = "TYPE2"
            THEN /\ rec' = r2
                 /\ handler' = [handler EXCEPT !.at = "handoff", !.set = exits]
                 /\ UNCHANGED <<irqVars, job, panic>>
            ELSE Launch(r)
      /\ UNCHANGED <<wns, type>>
  BY DEF HandlePackets, coreVars
<1>. HIDE DEF parsed
<1>6. ~badList
  <2>. HIDE DEF exits, entries, active
  <2>. QED  BY <1>2, <1>4
<1>7. why = "none"
  BY <1>3, <1>6
<1>. HIDE DEF why
<1>8. r = [parsed EXCEPT !.core = c1]
  BY <1>2 DEF Records
<1>9. /\ \A v \in CoreVectors \ {"ACTIVE"} : c1[v] = parsed.core[v]
      /\ c1.ACTIVE = (active \union exits) \ entries
      /\ c1 \in [CoreVectors -> SUBSET Cores]
  BY <1>2 DEF Records, CoreVectors
<1>. HIDE DEF c1, r
<1>10. r \in Records /\ r.core = c1
  BY <1>2, <1>8, <1>9 DEF Records
<1>11. Cores \ wns \subseteq c1.ACTIVE /\ exits \subseteq c1.ACTIVE
  BY <1>2, <1>9 DEF Known
<1>12. CASE t = "TYPE2"
  <2>1. r2 = [r EXCEPT !.core = c2]
    BY <1>10 DEF Records
  <2>2. /\ \A v \in CoreVectors \ {"PIGE", "PIGX"} : c2[v] = c1[v]
    BY <1>9 DEF CoreVectors
  <2>. HIDE DEF c2, r2
  <2>3. rec'.core = c2
    BY <1>5, <1>7, <1>10, <1>12, <2>1 DEF Records
  <2>4. handler'.set = exits
    BY <1>5, <1>7, <1>12 DEF MaskInv, Shapes, IsHandler
  <2>5. UNCHANGED <<job, panic>>
    BY <1>5, <1>7, <1>12
  <2>6. /\ rec'.core.ACTIVE = c1.ACTIVE /\ rec'.core.EXIT = rec.core.EXIT
        /\ rec'.core.BLOCKE = {}
    BY <1>2, <1>9, <2>2, <2>3 DEF CoreVectors
  <2>7. ExitWorks => \A c \in rec.core.EXIT : In11(c) /\ c \in c1.ACTIVE
    BY <1>2, <1>9, <1>12 DEF Known
  <2>8. /\ ExitWorks' = ExitWorks /\ \A c : In11(c)' = In11(c)
    BY <1>5, <2>5 DEF ExitWorks, In11
  <2>9. Cores \ wns' \subseteq c1.ACTIVE
    BY <1>5, <1>11
  <2>10. handler'.set \subseteq c1.ACTIVE
    BY <1>11, <2>4
  <2>11. panic' # "BAD_CORE_LIST"
    BY <2>5 DEF Known
  <2>12. ExitWorks' => \A c \in rec'.core.EXIT : In11(c)' /\ c \in rec'.core.ACTIVE
    BY <2>6, <2>7, <2>8
  <2>. QED  BY <2>6, <2>9, <2>10, <2>11, <2>12 DEF Known
<1>13. CASE t # "TYPE2"
  <2>1. Launch(r)
    BY <1>5, <1>7, <1>13
  <2>2. /\ r.core.ACTIVE = c1.ACTIVE /\ r.core.PIGX = exits /\ r.core.BLOCKE = {}
    BY <1>2, <1>9, <1>10 DEF CoreVectors
  <2>3. \A c \in r.core.PIGX : In11(c) /\ c \in r.core.ACTIVE
    BY <1>2, <1>11, <1>13, <2>2
  <2>4. Cores \ wns \subseteq r.core.ACTIVE
    BY <1>11, <2>2
  <2>. QED  BY <1>5, <1>10, <2>1, <2>2, <2>3, <2>4, KnownLaunches
<1>. QED  BY <1>12, <1>13

-----------------------------------------------------------------------------
LEMMA KnownSpecialPackets ==
    ASSUME TypeInv, PartnersInv, Known, SpecialPackets
    PROVE  Known'
<1>1. PICK q1 \in [QswuVectors -> SUBSET Quads] :
              /\ [rec EXCEPT !.qswu = q1] \in Records
              /\ Launch([rec EXCEPT !.qswu = q1])
  BY NoneExits
<1>. DEFINE r == [rec EXCEPT !.qswu = q1]
<1>2. r \in Records /\ Launch(r)
  BY <1>1
<1>3. r.core = rec.core
  BY DEF TypeInv, Records
<1>. HIDE DEF r
<1>4. rec.core.PIGX = {}
  BY DEF PartnersInv, CoresAre
<1>5. UNCHANGED <<wns, type>>
  BY DEF SpecialPackets, coreVars
<1>6. /\ Cores \ wns \subseteq r.core.ACTIVE /\ r.core.BLOCKE = {}
      /\ \A c \in r.core.PIGX : In11(c) /\ c \in r.core.ACTIVE
  BY <1>3, <1>4 DEF Known
<1>. QED  BY <1>2, <1>5, <1>6, KnownLaunches

LEMMA KnownBlockRequest ==
    ASSUME Undisturbed, TypeInv, PartnersInv, Known, BlockRequest
    PROVE  Known'
<1>1. PICK d1 \in [QuadVectors -> SUBSET Quads], cs \in SUBSET Cores :
              LET r == [rec EXCEPT !.quad = d1, !.creq = cs, !.cack = {}]
              IN  r \in Records /\ (Launch(r) \/ Launch(Unblocked(r)))
  BY BlockAsks
<1>. DEFINE r == [rec EXCEPT !.quad = d1, !.creq = cs, !.cack = {}]
<1>2. r.core = rec.core
  BY DEF TypeInv, Records
<1>3. r \in Records /\ (Launch(r) \/ Launch(Unblocked(r)))
  BY <1>1
<1>. HIDE DEF r
<1>4. rec.core.PIGX = {} /\ rec.core.BLOCKX = {}
  BY DEF PartnersInv, CoresAre, BlocksAre, ExitBlocked, Undisturbed
<1>5. UNCHANGED <<wns, type>>
  BY DEF BlockRequest, coreVars
<1>6. CASE Launch(r)
  BY <1>2, <1>4, <1>3, <1>5, <1>6, KnownLaunches DEF Known
<1>7. CASE Launch(Unblocked(r))
  <2>. DEFINE e == Unblocked(r)
  <2>1. e \in Records /\ NowFree(r, e) /\ SameFrame(r, e) /\ Launch(e)
    BY <1>3, <1>7, UnblockedIs, UnblockedType, UnblockedFrame
  <2>. HIDE DEF e
  <2>2. e.core.ACTIVE = rec.core.ACTIVE
    BY <1>2, <2>1, FrameIs
  <2>3. e.core.BLOCKE \subseteq rec.core.BLOCKE /\ e.core.PIGX = {}
    BY <1>2, <1>4, <2>1 DEF NowFree
  <2>4. /\ Cores \ wns \subseteq e.core.ACTIVE /\ e.core.BLOCKE = {}
        /\ \A c \in e.core.PIGX : In11(c) /\ c \in e.core.ACTIVE
    BY <2>2, <2>3 DEF Known
  <2>. QED  BY <1>5, <2>1, <2>4, KnownLaunches
<1>. QED  BY <1>3, <1>6, <1>7

-----------------------------------------------------------------------------
(* Cores are handed over from the lists of those that exit.                 *)
LEMMA KnownHandOff ==
    ASSUME TypeInv, PartnersInv, Known, HandOff \/ \E c \in Cores : DoorbellFirst(c)
    PROVE  Known'
<1>1. rec \in Records /\ handler.set \in SUBSET Cores /\ handler.at = "handoff"
      /\ \A c \in handler.set : type[c] = "TYPE2"
  BY DEF HandOff, DoorbellFirst, HandlerRuns, TypeInv, TypesOfHandler, PartnersInv, Handed
<1>2. type' = type /\ job' = job /\ rec.core.EXIT \subseteq Cores
  BY <1>1 DEF HandOff, DoorbellFirst, coreVars, threadVars, Records, CoreVectors
<1>3. CASE HandOff
  <2>. DEFINE cs == handler.set
  <2>1. rec' = HandedOver(rec, cs)
    BY <1>3 DEF HandOff
  <2>2. /\ rec'.core.ACTIVE = rec.core.ACTIVE /\ rec'.core.BLOCKE = rec.core.BLOCKE
        /\ rec'.core.EXIT = rec.core.EXIT \ cs
    BY <1>1, <2>1, HandedOverIs DEF CoreVectors
  <2>3. wns' = wns \ cs /\ handler' = NoHandler
    BY <1>3 DEF HandOff, HandOver
  <2>4. panic' # "BAD_CORE_LIST"
    BY <1>3 DEF HandOff, VecRestore, Halt, Known
  <2>5. cs \subseteq rec.core.ACTIVE
    BY <1>1 DEF Known
  <2>6. ExitWorks' = ExitWorks
    BY <1>2 DEF ExitWorks
  <2>7. ASSUME ExitWorks, NEW c \in rec.core.EXIT \ cs
        PROVE  In11(c)' /\ c \in rec'.core.ACTIVE
    BY <1>2, <2>2, <2>3, <2>7 DEF Known, In11
  <2>. HIDE DEF cs
  <2>. QED  BY <2>2, <2>3, <2>4, <2>5, <2>6, <2>7 DEF Known, NoHandler
<1>4. ASSUME NEW c \in Cores, DoorbellFirst(c) PROVE Known'
  <2>. DEFINE c1 == [rec.core EXCEPT !.PCWU = @ \ {c}]
  <2>1. rec' = [rec EXCEPT !.core = c1]
    BY <1>1, <1>4 DEF DoorbellFirst, Records
  <2>2. \A v \in CoreVectors \ {"PCWU"} : c1[v] = rec.core[v]
    BY <1>1 DEF Records, CoreVectors
  <2>. HIDE DEF c1
  <2>3. rec'.core = c1
    BY <1>1, <2>1 DEF Records
  <2>4. CoreListsStay
    BY <2>2, <2>3 DEF CoreListsStay, CoreVectors
  <2>5. wns' = wns /\ handler' = handler /\ panic' = panic
    BY <1>4 DEF DoorbellFirst, coreVars
  <2>6. In11Grows /\ ExitWorks' = ExitWorks
    BY <1>2, <2>5 DEF In11Grows, In11, ExitWorks
  <2>. QED  BY <2>4, <2>5, <2>6, KnownStays DEF Known
<1>. QED  BY <1>3, <1>4

LEMMA KnownExitEnd ==
    ASSUME TypeInv, Known, NEW r \in Records, r.core = rec.core,
           NEW qs \in SUBSET Quads, ExitEnd(r, qs), ExitWorks,
           UNCHANGED <<type, handler, panic>>, handler = NoHandler
    PROVE  Known'
<1>. DEFINE cores == r.core.EXIT \intersect In(qs)
            ready == cores \ In(r.quad.RCLKX)
<1>1. rec'.core = [r.core EXCEPT !.PCWU = @ \ ready, !.EXIT = @ \ ready,
                                 !.RCLKX = (@ \union cores) \ ready]
  BY ExitEndIs
<1>2. wns' = wns \ ready /\ ready \subseteq rec.core.EXIT
  BY DEF ExitEnd, HandOver
<1>. HIDE DEF ready, cores
<1>3. /\ rec'.core.ACTIVE = rec.core.ACTIVE /\ rec'.core.BLOCKE = rec.core.BLOCKE
      /\ rec'.core.EXIT = rec.core.EXIT \ ready
  BY <1>1 DEF Records, CoreVectors
<1>4. \A c \in rec.core.EXIT : In11(c) /\ c \in rec.core.ACTIVE
  BY DEF Known
<1>5. \A c \in rec.core.EXIT \ ready : In11(c)'
  BY <1>2, <1>4 DEF In11
<1>6. handler'.at # "handoff"
  BY DEF NoHandler
<1>. QED  BY <1>2, <1>3, <1>4, <1>5, <1>6 DEF Known

LEMMA KnownExitThread ==
    ASSUME TypeInv, Known, ExitExpress \/ \E q \in Quads : ExitQuad(q)
    PROVE  Known'
<1>1. /\ ExitWorks /\ UNCHANGED <<type, handler, panic>> /\ handler = NoHandler
      /\ rec \in Records
  BY DEF ExitExpress, ExitQuad, ThreadRuns, ExitWorks, TypeInv
<1>2. CASE ExitExpress
  BY <1>2, <1>1, KnownExitEnd DEF ExitExpress
<1>3. ASSUME NEW q \in Quads, ExitQuad(q) PROVE Known'
  <2>. DEFINE a1 == [rec.act EXCEPT ![q] = 0]
              r == [rec EXCEPT !.act = a1]
  <2>1. ExitEnd(r, {q})
    <3>1. [rec EXCEPT !.act[q] = 0] = r
      BY <1>1 DEF Records
    <3>. HIDE DEF r
    <3>. QED  BY <1>3, <3>1 DEF ExitQuad
  <2>2. a1 \in [Quads -> {0, 11}]
    BY <1>1 DEF Records
  <2>. HIDE DEF a1
  <2>3. r \in Records /\ r.core = rec.core
    BY <1>1, <2>2 DEF Records
  <2>. HIDE DEF r
  <2>. QED  BY <1>1, <2>1, <2>3, KnownExitEnd
<1>. QED  BY <1>2, <1>3

-----------------------------------------------------------------------------
(* All else leaves the lists of cores alone, and the SGPE its cores.        *)
LEMMA KnownThreads ==
    ASSUME TypeInv, MaskInv, Known,
           \/ \E thread \in {"exit", "entry"} :
                  \/ ThreadStarts(thread) \/ ThreadSuspends(thread)
                  \/ ThreadCloses(thread)
           \/ ExitSelects \/ ExitTellsDone \/ ExitThreadEnds
           \/ EntrySelects \/ EntryNotifies \/ EntryTellsDone \/ EntryThreadEnds
           \/ \E q \in Quads : Purge(q) \/ EntryQuad(q)
    PROVE  Known'
<1>1. UNCHANGED <<wns, type, handler>> /\ rec \in Records
  BY DEF ThreadStarts, ThreadSuspends, ThreadCloses, ExitSelects, ExitTellsDone,
         ExitThreadEnds, EntrySelects, EntryNotifies, EntryTellsDone, EntryThreadEnds,
         Purge, EntryQuad, SuspendDone, coreVars, TypeInv
<1>2. In11Grows
  BY <1>1 DEF In11Grows, In11
<1>3. panic' # "BAD_CORE_LIST"
  BY DEF ThreadStarts, ThreadSuspends, ThreadCloses, ExitSelects, ExitTellsDone,
         ExitThreadEnds, EntrySelects, EntryNotifies, EntryTellsDone, EntryThreadEnds,
         Purge, EntryQuad, SuspendDone, TellsExit, TellsEntry, VecRestore, Halt, Known
<1>4. CoreListsStay
  <2>1. CASE EntrySelects
    BY <2>1, EntrySelectsIs DEF MaskInv, CoreListsStay, CoreVectors, EntrySelected
  <2>2. CASE ~EntrySelects
    <3>1. rec'.core = rec.core
      BY <1>1, <2>2, ZenonT(60) DEF ThreadStarts, ThreadSuspends, ThreadCloses, ExitSelects,
         ExitTellsDone, ExitThreadEnds, EntryNotifies, EntryTellsDone, EntryThreadEnds,
         Purge, EntryQuad, SuspendDone, TellsExit, Records
    <3>. QED  BY <3>1 DEF CoreListsStay
  <2>. QED  BY <2>1, <2>2
<1>5. ExitWorks' => ExitWorks
  <2>. USE DEF MaskInv, Shapes, IsJob, ThreadRuns, To, ToQuads, Posted, NoJob, ExitWorks
  <2>1. CASE \E thread \in {"exit", "entry"} :
                  \/ ThreadStarts(thread) \/ ThreadSuspends(thread)
                  \/ ThreadCloses(thread)
    BY <2>1 DEF ThreadStarts, ThreadSuspends, ThreadCloses
  <2>2. CASE ExitSelects \/ ExitTellsDone \/ ExitThreadEnds
    BY <2>2 DEF ExitSelects, ExitTellsDone, ExitThreadEnds, TellsExit
  <2>3. CASE EntrySelects \/ EntryNotifies \/ EntryTellsDone \/ EntryThreadEnds
    BY <2>3 DEF EntrySelects, EntryNotifies, EntryTellsDone, EntryThreadEnds, TellsEntry
  <2>4. CASE \E q \in Quads : Purge(q) \/ EntryQuad(q)
    BY <2>4 DEF Purge, EntryQuad
  <2>. QED  BY <2>1, <2>2, <2>3, <2>4
<1>. QED  BY <1>1, <1>2, <1>3, <1>4, <1>5, KnownStays

LEMMA KnownInterrupts ==
    ASSUME TypeInv, MaskInv, Known,
           \/ \E i \in Irqs : TakeInterrupt(i)
           \/ SuspendRequest \/ HandlerSuspends
    PROVE  Known'
<1>1. UNCHANGED <<wns, type, job>> /\ rec \in Records
  BY DEF TakeInterrupt, SuspendRequest, HandlerSuspends, SuspendDone, coreVars,
         threadVars, TypeInv
<1>2. In11Grows /\ ExitWorks' = ExitWorks
  BY <1>1 DEF In11Grows, In11, ExitWorks
<1>3. panic' # "BAD_CORE_LIST"
  BY DEF TakeInterrupt, SuspendRequest, HandlerSuspends, SuspendDone, VecRestore, Halt,
         Known
<1>4. CoreListsStay
  BY <1>1 DEF TakeInterrupt, SuspendRequest, HandlerSuspends, SuspendDone, Records,
     CoreListsStay
<1>5. handler'.at = "handoff" => handler' = handler
  BY DEF TakeInterrupt, SuspendRequest, HandlerSuspends, NoHandler, Irqs, CoreTypes,
         MaskInv, Shapes, IsHandler
<1>. QED  BY <1>1, <1>2, <1>3, <1>4, <1>5, KnownStays

LEMMA KnownPartners ==
    ASSUME TypeInv, PartnersInv, Known,
           \/ \E q \in Quads, c \in Cores, level \in Levels :
                  c \in CoresOf(q) /\ CoreStops(q, c, level)
           \/ \E q \in Quads : \E c \in CoresOf(q) :
                  WakeUp(q, c) \/ PcInterrupt(q, c)
           \/ \E q \in Quads : SpecialWakeup(q) \/ ReleaseSpecial(q) \/ Cme(q)
           \/ OccBlocks \/ OccUnblocks \/ PgpeSuspends \/ Fit \/ UNCHANGED vars
    PROVE  Known'
<1>1. UNCHANGED <<rec, handler, job, panic>>
  BY DEF CoreStops, WakeUp, PcInterrupt, SpecialWakeup, ReleaseSpecial, Cme, PcwuRead,
         PcwuSend, CmeExit, CmeDb2, CmeDb1, OccBlocks, OccUnblocks, OccRequest,
         PgpeSuspends, Fit, vars, threadVars
<1>2. wns \subseteq wns' /\ In11Grows
  <2>1. ASSUME NEW q \in Quads, NEW c \in Cores, NEW level \in Levels,
               c \in CoresOf(q), CoreStops(q, c, level)
        PROVE  wns \subseteq wns' /\ In11Grows
    <3>1. c \notin wns /\ wns' = wns \union {c}
      BY <2>1 DEF CoreStops, PartnersInv, CoresAre
    <3>2. \A x \in Cores : x # c => type'[x] = type[x]
      BY <2>1 DEF CoreStops, TypeInv, TypesOfCores
    <3>. QED  BY <3>1, <3>2 DEF In11Grows, In11
  <2>2. CASE \/ \E q \in Quads : \E c \in CoresOf(q) :
                    WakeUp(q, c) \/ PcInterrupt(q, c)
             \/ \E q \in Quads : SpecialWakeup(q) \/ ReleaseSpecial(q) \/ Cme(q)
             \/ OccBlocks \/ OccUnblocks \/ PgpeSuspends \/ Fit \/ UNCHANGED vars
    <3>1. UNCHANGED <<wns, type>>
      BY <2>2 DEF WakeUp, PcInterrupt, SpecialWakeup, ReleaseSpecial, Cme, PcwuRead,
         PcwuSend, CmeExit, CmeDb2, CmeDb1, OccBlocks, OccUnblocks, OccRequest,
         PgpeSuspends, Fit, vars, coreVars
    <3>. QED  BY <3>1 DEF In11Grows, In11
  <2>. QED  BY <2>1, <2>2
<1>3. CoreListsStay /\ ExitWorks' = ExitWorks
  BY <1>1 DEF CoreListsStay, ExitWorks
<1>. QED  BY <1>1, <1>2, <1>3, KnownStays DEF Known

-----------------------------------------------------------------------------
LEMMA KnownInit == Init => Known
<1>. SUFFICES ASSUME Init PROVE Known
  OBVIOUS
<1>1. PICK up \in SUBSET Quads :
        /\ wns = Cores \ In(up)
        /\ rec.core = [v \in CoreVectors |-> IF v = "ACTIVE" THEN In(up) ELSE {}]
        /\ handler = NoHandler /\ job = NoJob /\ panic = "none"
  BY DEF Init
<1>2. rec.core.ACTIVE = In(up) /\ rec.core.BLOCKE = {}
  BY <1>1 DEF CoreVectors
<1>. QED  BY <1>1, <1>2 DEF Known, ExitWorks, NoHandler, NoJob

LEMMA KnownNext ==
    ASSUME Undisturbed, TypeInv, BlockedAsAsked, MaskInv, PartnersInv, Known,
           [Next]_vars
    PROVE  Known'
<1>1. CASE Handlers
  BY <1>1, KnownInterrupts, KnownHandlePackets, KnownHandOff, KnownSpecialPackets,
     KnownBlockRequest DEF Handlers
<1>2. CASE Threads
  BY <1>2, KnownThreads, KnownExitThread DEF Threads
<1>3. CASE ~Handlers /\ ~Threads
  BY <1>3, KnownPartners DEF Next, Sgpe
<1>. QED  BY <1>1, <1>2, <1>3

(* While the OCC blocks nothing, the SGPE never halts: the lists of cores  *)
(* and of quads agree with those of the PGPE at every answer, no packet is *)
(* of a core that is not its, and the masks balance.                       *)
THEOREM SgpeNeverHalts == Undisturbed => (Spec => []NoPanic)
<1>. SUFFICES ASSUME Undisturbed PROVE Spec => []NoPanic
  OBVIOUS
<1>1. Regime
  BY DEF Undisturbed, Regime
<1>2. Init => Known
  BY KnownInit
<1>3. TypeInv /\ BlockedAsAsked /\ MaskInv /\ PartnersInv /\ Known /\ [Next]_vars
          => Known'
  BY KnownNext
<1>4. TypeInv /\ MaskInv /\ PartnersInv /\ Known => NoPanic
  BY DEF TypeInv, Panics, MaskInv, NoStackPanic, PartnersInv, Sound, Known, NoPanic
<1>5. Spec => []PartnersInv
  BY <1>1, PartnersHold
<1>. QED  BY <1>2, <1>3, <1>4, <1>5, TypesHold, PTL DEF Spec

(* Then the SGPE, the CMEs and the PGPE agree about who is up: a core that *)
(* runs is in the list from which the PGPE computes voltages, and has a CME*)
(* with power and a clock.                                                  *)
THEOREM PartnersDoAgree == Undisturbed => (Spec => []PartnersAgree)
<1>. SUFFICES ASSUME Undisturbed PROVE Spec => []PartnersAgree
  OBVIOUS
<1>1. Regime
  BY DEF Undisturbed, Regime
<1>2. Init => Known
  BY KnownInit
<1>3. TypeInv /\ BlockedAsAsked /\ MaskInv /\ PartnersInv /\ Known /\ [Next]_vars
          => Known'
  BY KnownNext
<1>4. TypeInv /\ PartnersInv /\ Known => PgpeKnowsActive
  BY DEF TypeInv, TypesOfCores, PartnersInv, CoresAre, Known, PgpeKnowsActive
<1>5. Spec => []PartnersInv
  BY <1>1, PartnersHold
<1>6. Spec => []ReadyWhenHandedOff
  BY <1>1, HandedOffWhenReady
<1>7. Spec => [](ActiveQuadsAgree
                 /\ panic \notin {"BAD_QUAD_LIST", "PHANTOM", "RESCLK_ON"})
  BY <1>1, QuadListsAgree
<1>8. ReadyWhenHandedOff /\ ActiveQuadsAgree /\ PgpeKnowsActive => PartnersAgree
  BY DEF PartnersAgree
<1>. QED  BY <1>2, <1>3, <1>4, <1>5, <1>6, <1>7, <1>8, TypesHold, PTL DEF Spec

-----------------------------------------------------------------------------
(* The suspension: from the message of the PGPE to the answer, who asks    *)
(* the CMEs, and what is left to do when the last one has acknowledged.    *)
Working == {"select", "express", "quads", "purge", "end"}
Suspending == \/ suspend = "acked" \/ handler.at = "suspending"
              \/ job.at = "suspending"
SuspendOrder ==
    /\ job.at = "idle" => job.thread = "none"
    /\ handler.at \in {"IPC", "suspending"} => job.at # "posted"
    /\ handler.at = "IPC" => suspend = "sent"
    /\ job.at \in Working => "STOP_PROCESSING" \in rec.status
    /\ handler.at = "suspending" => job.at \in {"idle", "closing"}
    /\ handler.at = "suspending" \/ job.at = "suspending" => suspend = "taken"
    /\ suspend \in {"no", "sent"} => rec.status \subseteq {"STOP_PROCESSING"}
    /\ "SUSPEND_PENDING" \in rec.status =>
           suspend = "taken" /\ handler.at # "suspending"
CmesAsked ==
    /\ \A q \in Quads : db1[q] = "ack_suspend" \/ q \in cmeSuspend => Suspending
    /\ \A c \in Cores : payload.TYPE3[c] = "ack_suspend" =>
           Suspending /\ QuadOf(c) \in cmeSuspend
AllStopped == suspend = "acked" =>
    /\ "EXIT_SUSPENDED" \in rec.status
    /\ powered \subseteq cmeSuspend
    /\ handler.at = "handoff" => handler.set = {}
    /\ job.thread = "exit" => job.at = "closing"
SuspendInv == SuspendOrder /\ CmesAsked /\ AllStopped

(* No new request to a CME, and no quad that gets power.                    *)
CmesStay ==
    /\ cmeSuspend' = cmeSuspend /\ powered' \subseteq powered
    /\ \A q \in Quads : db1'[q] = "ack_suspend" => db1[q] = "ack_suspend"
    /\ \A c \in Cores : payload'.TYPE3[c] = "ack_suspend" =>
                            payload.TYPE3[c] = "ack_suspend"

LEMMA CmesAskedStays ==
    ASSUME CmesAsked, CmesStay, Suspending => Suspending'
    PROVE  CmesAsked'
BY DEF CmesAsked, CmesStay

LEMMA SuspendWaits ==
    ASSUME SuspendInv, CmesStay, UNCHANGED <<handler, job>>,
           rec'.status = rec.status,
           suspend' = suspend \/ (suspend = "no" /\ suspend' = "sent")
    PROVE  SuspendInv'
<1>1. Suspending' = Suspending
  BY DEF Suspending
<1>2. CmesAsked'
  BY <1>1, CmesAskedStays DEF SuspendInv
<1>3. SuspendOrder'
  BY DEF SuspendInv, SuspendOrder
<1>4. AllStopped'
  BY DEF SuspendInv, AllStopped, CmesStay
<1>. QED  BY <1>2, <1>3, <1>4 DEF SuspendInv

LEMMA SuspendWorks ==
    ASSUME SuspendInv, CmesStay, UNCHANGED <<handler, suspend>>, handler = NoHandler,
           job.at # "suspending", job'.at \notin {"suspending", "idle"},
           job'.at \in Working => "STOP_PROCESSING" \in rec'.status,
           rec'.status \ {"STOP_PROCESSING"} = rec.status \ {"STOP_PROCESSING"},
           suspend = "acked" /\ job'.thread = "exit" => job'.at = "closing"
    PROVE  SuspendInv'
<1>1. handler.at = "none" /\ handler'.at = "none"
  BY DEF NoHandler
<1>2. CmesAsked'
  BY <1>1, CmesAskedStays DEF SuspendInv, Suspending
<1>3. SuspendOrder'
  BY <1>1 DEF SuspendInv, SuspendOrder
<1>4. AllStopped'
  BY <1>1 DEF SuspendInv, AllStopped, CmesStay
<1>. QED  BY <1>2, <1>3, <1>4 DEF SuspendInv

(* The handlers of the packets and of the OCC.                              *)
LEMMA SuspendLaunches ==
    ASSUME MaskInv, JobIs, SuspendInv, CmesStay, UNCHANGED suspend,
           handler.at \in {"TYPE0", "TYPE3", "TYPE6", "IPI3_LOW"},
           NEW r \in Records, Launch(r), r.status = rec.status,
           suspend = "acked" => r.core.PIGX = {} /\ r.qswu.EXIT = {}
    PROVE  SuspendInv'
<1>1. job.thread = "none" /\ job.at = "idle"
  BY DEF MaskInv, StackFits, InHandler, InThread, Preempting, JobIs
<1>2. handler'.at = "none" /\ rec'.status = rec.status
  BY LaunchIs DEF NoHandler
<1>3. \/ job' = job
      \/ job' = Posted("entry")
      \/ suspend # "acked" /\ job' = Posted("exit")
  <2>. DEFINE exits == r.core.PIGX # {} \/ r.qswu.EXIT # {}
              entries == r.qswu.ENTRY # {} \/ r.core.PIGE # {}
                         \/ r.quad.RCLK_DONE # {}
  <2>1. IF exits \/ entries
        THEN job' = Posted(IF exits THEN "exit" ELSE "entry")
        ELSE UNCHANGED job
    BY DEF Launch
  <2>2. suspend = "acked" => ~exits
    OBVIOUS
  <2>. HIDE DEF exits, entries
  <2>. QED  BY <2>1, <2>2
<1>4. \/ job'.thread = "none" /\ job'.at = "idle"
      \/ job'.thread = "entry" /\ job'.at = "posted"
      \/ job'.thread = "exit" /\ job'.at = "posted" /\ suspend # "acked"
  BY <1>1, <1>3 DEF Posted, NoJob
<1>5. CmesAsked'
  BY <1>1, CmesAskedStays DEF SuspendInv, Suspending
<1>6. SuspendOrder'
  BY <1>2, <1>4 DEF SuspendInv, SuspendOrder, Working
<1>7. AllStopped'
  BY <1>2, <1>4 DEF SuspendInv, AllStopped, CmesStay
<1>. QED  BY <1>5, <1>6, <1>7 DEF SuspendInv

LEMMA SuspendHandlePackets ==
    ASSUME TypeInv, MaskInv, PartnersInv, PartnersInv', SuspendInv,
           NEW t \in CoreTypes, HandlePackets(t)
    PROVE  SuspendInv'
<1>. DEFINE parsed == Parsed(t, handler.set)
            exits == parsed.core.PIGX
            entries == parsed.core.PIGE
            r == [parsed EXCEPT !.core.ACTIVE = (@ \union exits) \ entries]
            c1 == [parsed.core EXCEPT !.ACTIVE = (@ \union exits) \ entries]
            r2 == [r EXCEPT !.core.PIGE = {}, !.core.PIGX = {}]
<1>1. handler.at = t
  BY DEF HandlePackets, HandlerRuns
<1>2. /\ parsed \in Records /\ parsed.status = rec.status
      /\ "EXIT_SUSPENDED" \in rec.status => exits = {}
  BY <1>1, PacketsKnown, ParsedIs DEF Parses, ParsesWanted, SameFrame
<1>3. \/ UNCHANGED <<rec, handler, job>>
      \/ /\ t = "TYPE2" /\ rec' = r2
         /\ handler' = [handler EXCEPT !.at = "handoff", !.set = exits]
         /\ UNCHANGED job
      \/ t # "TYPE2" /\ Launch(r)
  BY DEF HandlePackets
<1>4. CmesStay /\ suspend' = suspend
  BY DEF HandlePackets, CmesStay, cmeVars, pigVars
<1>. HIDE DEF parsed
<1>5. r = [parsed EXCEPT !.core = c1] /\ c1 \in [CoreVectors -> SUBSET Cores]
      /\ c1.PIGX = exits
  BY <1>2 DEF Records, CoreVectors
<1>6. r2.status = r.status
  BY <1>2 DEF Records
<1>. HIDE DEF c1, r, r2
<1>7. r \in Records /\ r.status = rec.status /\ r.core.PIGX = exits
      /\ r.qswu = parsed.qswu
  BY <1>2, <1>5 DEF Records
<1>8. suspend = "acked" => exits = {}
  BY <1>2 DEF SuspendInv, AllStopped
<1>. HIDE DEF exits
<1>9. CASE UNCHANGED <<rec, handler, job>>
  BY <1>4, <1>9, SuspendWaits
<1>10. CASE /\ t = "TYPE2" /\ rec' = r2
            /\ handler' = [handler EXCEPT !.at = "handoff", !.set = exits]
            /\ UNCHANGED job
  <2>1. handler'.at = "handoff" /\ handler'.set = exits
    BY <1>10 DEF MaskInv, Shapes, IsHandler
  <2>2. rec'.status = rec.status /\ handler.at = "TYPE2"
    BY <1>1, <1>6, <1>7, <1>10
  <2>3. CmesAsked'
    BY <1>4, <1>10, <2>2, CmesAskedStays DEF SuspendInv, Suspending
  <2>4. SuspendOrder'
    BY <1>4, <1>10, <2>1, <2>2 DEF SuspendInv, SuspendOrder
  <2>5. AllStopped'
    BY <1>4, <1>8, <1>10, <2>1, <2>2 DEF SuspendInv, AllStopped, CmesStay
  <2>. QED  BY <2>3, <2>4, <2>5 DEF SuspendInv
<1>11. CASE t # "TYPE2" /\ Launch(r)
  <2>1. rec'.qswu = r.qswu
    BY <1>7, <1>11, LaunchIs
  <2>2. r.qswu.EXIT = {}
    BY <2>1 DEF PartnersInv, SpecialsAre
  <2>3. handler.at \in {"TYPE0", "TYPE3", "TYPE6", "IPI3_LOW"}
    BY <1>1, <1>11 DEF CoreTypes
  <2>4. JobIs
    BY DEF PartnersInv
  <2>. QED  BY <1>4, <1>7, <1>8, <1>11, <2>2, <2>3, <2>4, SuspendLaunches
<1>. QED  BY <1>3, <1>9, <1>10, <1>11

LEMMA SuspendSpecialPackets ==
    ASSUME TypeInv, MaskInv, PartnersInv, SuspendInv, SpecialPackets
    PROVE  SuspendInv'
<1>1. PICK q1 \in [QswuVectors -> SUBSET Quads] :
              /\ [rec EXCEPT !.qswu = q1] \in Records
              /\ Launch([rec EXCEPT !.qswu = q1])
              /\ q1.EXIT = {} /\ q1.BLOCKX = {}
  BY NoneExits
<1>. DEFINE r == [rec EXCEPT !.qswu = q1]
<1>2. r \in Records /\ Launch(r)
  BY <1>1
<1>3. r.core = rec.core /\ r.status = rec.status /\ r.qswu = q1
  BY DEF TypeInv, Records
<1>. HIDE DEF r
<1>4. rec.core.PIGX = {} /\ JobIs
  BY DEF PartnersInv, CoresAre
<1>5. CmesStay /\ suspend' = suspend /\ handler.at = "TYPE6"
  BY DEF SpecialPackets, HandlerRuns, CmesStay, cmeVars, pigVars
<1>. QED  BY <1>1, <1>2, <1>3, <1>4, <1>5, SuspendLaunches

LEMMA SuspendBlockRequest ==
    ASSUME TypeInv, MaskInv, PartnersInv, PartnersInv', SuspendInv, BlockRequest
    PROVE  SuspendInv'
<1>1. PICK d1 \in [QuadVectors -> SUBSET Quads], cs \in SUBSET Cores :
              LET r == [rec EXCEPT !.quad = d1, !.creq = cs, !.cack = {}]
              IN  r \in Records /\ (Launch(r) \/ Launch(Unblocked(r)))
  BY BlockAsks
<1>. DEFINE r == [rec EXCEPT !.quad = d1, !.creq = cs, !.cack = {}]
<1>2. r.core = rec.core /\ r.qswu = rec.qswu /\ r.status = rec.status
  BY DEF TypeInv, Records
<1>3. r \in Records /\ (Launch(r) \/ Launch(Unblocked(r)))
  BY <1>1
<1>. HIDE DEF r
<1>4. rec.core.PIGX = {} /\ JobIs /\ rec.qswu.EXIT = {}
  BY DEF PartnersInv, CoresAre, SpecialsAre
<1>5. CmesStay /\ suspend' = suspend /\ handler.at = "IPI3_LOW"
  BY DEF BlockRequest, HandlerRuns, CmesStay, pigVars
<1>6. CASE Launch(r)
  BY <1>2, <1>3, <1>4, <1>5, <1>6, SuspendLaunches
<1>7. CASE Launch(Unblocked(r))
  <2>. DEFINE e == Unblocked(r)
  <2>1. e \in Records /\ NowFree(r, e) /\ SameFrame(r, e) /\ Launch(e)
    BY <1>3, <1>7, UnblockedIs, UnblockedType, UnblockedFrame
  <2>. HIDE DEF e
  <2>2. e.status = rec.status
    BY <1>2, <2>1 DEF SameFrame
  <2>3. suspend = "acked" => e.core.PIGX = {}
    BY <1>2, <1>4, <2>1 DEF NowFree, SuspendInv, AllStopped
  <2>4. rec'.qswu = e.qswu
    BY <2>1, LaunchIs
  <2>5. e.qswu.EXIT = {}
    BY <2>4 DEF PartnersInv, SpecialsAre
  <2>. QED  BY <1>4, <1>5, <2>1, <2>2, <2>3, <2>5, SuspendLaunches
<1>. QED  BY <1>3, <1>6, <1>7

-----------------------------------------------------------------------------
(* The suspension itself: who begins it, and who ends it.                  *)
NoThreadWindow == Regime /\ "thread_start" \notin Windows

LEMMA SuspendTakeInterrupt ==
    ASSUME "thread_start" \notin Windows, MaskInv, SuspendInv,
           NEW i \in Irqs, TakeInterrupt(i)
    PROVE  SuspendInv'
<1>1. /\ handler.at = "none" /\ UNCHANGED <<rec, job, suspend>>
      /\ i = "IPC" => job.at # "posted" /\ suspend = "sent"
  BY DEF TakeInterrupt, NoHandler, Deliverable, Asserted, threadVars, requestVars,
         Irqs, StopTypes, CoreTypes
<1>2. handler'.at \in {"none", i}
  BY <1>1 DEF TakeInterrupt
<1>3. i \notin {"suspending", "handoff", "none"}
  BY DEF Irqs, CoreTypes
<1>4. CmesStay
  BY DEF TakeInterrupt, CmesStay, cmeVars
<1>5. CmesAsked'
  BY <1>1, <1>4, CmesAskedStays DEF SuspendInv, Suspending
<1>6. SuspendOrder'
  BY <1>1, <1>2, <1>3 DEF SuspendInv, SuspendOrder
<1>7. AllStopped'
  BY <1>1, <1>2, <1>3, <1>4 DEF SuspendInv, AllStopped, CmesStay
<1>. QED  BY <1>5, <1>6, <1>7 DEF SuspendInv

LEMMA SuspendHandOff ==
    ASSUME SuspendInv, TypeInv, HandOff \/ \E c \in Cores : DoorbellFirst(c)
    PROVE  SuspendInv'
<1>1. /\ handler.at = "handoff" /\ UNCHANGED <<job, suspend>>
      /\ handler' = NoHandler \/ handler' = handler
      /\ rec'.status = rec.status
  BY DEF HandOff, DoorbellFirst, HandlerRuns, HandedOver, threadVars, requestVars,
         TypeInv, Records
<1>2. CmesStay
  BY DEF HandOff, DoorbellFirst, HandOver, CmesStay, pigVars
<1>3. handler'.at \in {"none", "handoff"} /\ (handler'.at = "handoff" => handler' = handler)
  BY <1>1 DEF NoHandler
<1>4. CmesAsked'
  BY <1>1, <1>2, CmesAskedStays DEF SuspendInv, Suspending
<1>5. SuspendOrder'
  BY <1>1, <1>3 DEF SuspendInv, SuspendOrder
<1>6. AllStopped'
  BY <1>1, <1>2, <1>3 DEF SuspendInv, AllStopped, CmesStay
<1>. QED  BY <1>4, <1>5, <1>6 DEF SuspendInv

LEMMA SuspendRequested ==
    ASSUME TypeInv, MaskInv, PartnersInv, SuspendInv, SuspendRequest
    PROVE  SuspendInv'
<1>1. /\ handler.at = "IPC" /\ suspend = "sent" /\ suspend' = "taken"
      /\ job' = job /\ job.at \notin {"posted", "suspending"}
      /\ UNCHANGED <<cmeSuspend, powered, payload>>
      /\ rec.status \subseteq {"STOP_PROCESSING"}
  BY DEF SuspendRequest, HandlerRuns, SuspendInv, SuspendOrder, threadVars, pigVars
<1>2. ~Suspending
  BY <1>1 DEF Suspending
<1>3. CASE "STOP_PROCESSING" \in rec.status
  <2>1. rec' = [rec EXCEPT !.status = @ \union {"SUSPEND_PENDING"}]
        /\ handler' = NoHandler /\ db1' = db1
    BY <1>3 DEF SuspendRequest
  <2>2. rec'.status = rec.status \union {"SUSPEND_PENDING"} /\ handler'.at = "none"
    BY <2>1 DEF TypeInv, Records, NoHandler
  <2>3. CmesStay
    BY <1>1, <2>1 DEF CmesStay
  <2>4. CmesAsked'
    BY <1>2, <2>3, CmesAskedStays DEF SuspendInv
  <2>5. SuspendOrder'
    BY <1>1, <2>2 DEF SuspendInv, SuspendOrder
  <2>6. AllStopped'
    BY <1>1 DEF AllStopped
  <2>. QED  BY <2>4, <2>5, <2>6 DEF SuspendInv
<1>4. CASE "STOP_PROCESSING" \notin rec.status
  <2>1. handler' = [handler EXCEPT !.at = "suspending"] /\ rec' = rec
    BY <1>4 DEF SuspendRequest
  <2>2. handler'.at = "suspending"
    BY <2>1 DEF MaskInv, Shapes, IsHandler
  <2>3. job.at \in {"idle", "closing"}
    BY <1>1, <1>4 DEF SuspendInv, SuspendOrder, Working, PartnersInv, JobIs, Places
  <2>4. CmesAsked'
    BY <1>1, <2>2 DEF CmesAsked, Suspending, SuspendInv
  <2>5. SuspendOrder'
    BY <1>1, <1>4, <2>1, <2>2, <2>3 DEF SuspendInv, SuspendOrder, Working
  <2>6. AllStopped'
    BY <1>1 DEF AllStopped
  <2>. QED  BY <2>4, <2>5, <2>6 DEF SuspendInv
<1>. QED  BY <1>3, <1>4

(* When the CMEs of all active quads have acknowledged, those of all quads *)
(* with power have stopped their entries and exits.                        *)
LEMMA SuspendAnswers ==
    ASSUME TypeInv, PartnersInv, SuspendInv, SuspendDone,
           handler' = NoHandler, job'.at \in {"idle", "closing"},
           job'.at = "idle" => job'.thread = "none"
    PROVE  SuspendInv'
<1>1. /\ suspend' = "acked"
      /\ rec' = [rec EXCEPT !.status = (@ \ {"SUSPEND_PENDING"}) \union
                              {"ENTRY_SUSPENDED", "EXIT_SUSPENDED"}]
      /\ UNCHANGED <<cmeSuspend, powered, payload, db1>>
  BY DEF SuspendDone, cmeVars, pigVars
<1>2. "EXIT_SUSPENDED" \in rec'.status /\ "SUSPEND_PENDING" \notin rec'.status
  BY <1>1 DEF TypeInv, Records
<1>3. powered \subseteq cmeSuspend
  <2>. SUFFICES ASSUME NEW q \in powered PROVE q \in cmeSuspend
    OBVIOUS
  <2>1. q \in Quads /\ q \in rec.quad.ACTIVE
    BY DEF TypeInv, TypesOfCmes, PartnersInv, QuadsAre
  <2>2. payload.TYPE3[First(q)] = "ack_suspend"
    BY <2>1 DEF SuspendDone, AllSuspended
  <2>3. First(q) \in Cores /\ QuadOf(First(q)) = q
    BY <2>1, CoresOfQuads
  <2>. QED  BY <2>2, <2>3 DEF SuspendInv, CmesAsked
<1>4. handler'.at = "none"
  BY DEF NoHandler
<1>5. CmesAsked'
  BY <1>1 DEF SuspendInv, CmesAsked, Suspending
<1>6. SuspendOrder'
  BY <1>1, <1>2, <1>4 DEF SuspendOrder, Working
<1>7. AllStopped'
  BY <1>1, <1>2, <1>3, <1>4 DEF AllStopped, SuspendInv, SuspendOrder
<1>. QED  BY <1>5, <1>6, <1>7 DEF SuspendInv

LEMMA SuspendEnds ==
    ASSUME TypeInv, MaskInv, PartnersInv, SuspendInv,
           HandlerSuspends \/ \E thread \in {"exit", "entry"} : ThreadSuspends(thread)
    PROVE  SuspendInv'
<1>1. CASE HandlerSuspends
  <2>1. job.at \in {"idle", "closing"} /\ (job.at = "idle" => job.thread = "none")
    BY <1>1 DEF HandlerSuspends, HandlerRuns, SuspendInv, SuspendOrder
  <2>2. SuspendDone /\ handler' = NoHandler /\ job' = job
    BY <1>1 DEF HandlerSuspends
  <2>. QED  BY <2>1, <2>2, SuspendAnswers
<1>2. ASSUME NEW thread \in {"exit", "entry"}, ThreadSuspends(thread)
      PROVE  SuspendInv'
  BY <1>2, SuspendAnswers DEF ThreadSuspends, ThreadRuns, MaskInv, Shapes, IsJob
<1>. QED  BY <1>1, <1>2

-----------------------------------------------------------------------------
(* The threads.  One that gives power to a quad runs before the suspension *)
(* begins.                                                                 *)
LEMMA SuspendExitThread ==
    ASSUME TypeInv, MaskInv, SuspendInv,
           \/ ThreadStarts("exit") \/ ExitSelects \/ ExitExpress \/ ExitTellsDone
           \/ ExitThreadEnds
    PROVE  SuspendInv'
<1>1. /\ handler = NoHandler /\ job.thread = "exit" /\ job.at # "suspending"
      /\ job.at # "closing" /\ UNCHANGED <<handler, suspend>>
  BY DEF ThreadStarts, ExitSelects, ExitExpress, ExitTellsDone, ExitThreadEnds,
         ThreadRuns, requestVars
<1>2. suspend # "acked"
  BY <1>1 DEF SuspendInv, AllStopped
<1>3. CmesStay
  BY DEF ThreadStarts, ExitSelects, ExitExpress, ExitTellsDone, ExitThreadEnds,
         CmesStay, cmeVars, pigVars
<1>4. rec \in Records
  BY DEF TypeInv
<1>5. CASE ThreadStarts("exit")
  BY <1>4, <1>5, <1>1, <1>2, <1>3, SuspendWorks DEF ThreadStarts, To, Records, MaskInv,
     Shapes, IsJob
<1>6. CASE ExitSelects \/ ExitTellsDone
  <2>1. /\ job.at \in Working /\ rec'.status = rec.status
        /\ job'.at \in Working
    BY <1>4, <1>6 DEF ExitSelects, ExitTellsDone, ThreadRuns, TellsExit, ToQuads,
       Records, Working, MaskInv, Shapes, IsJob
  <2>. QED  BY <1>1, <1>2, <1>3, <2>1, SuspendWorks DEF SuspendInv, SuspendOrder, Working
<1>7. CASE ExitExpress
  <2>1. ExitEnd(rec, Quads \ rec.quad.EXIT)
    BY <1>7 DEF ExitExpress
  <2>2. rec'.status = rec.status
    BY <1>4, <2>1 DEF ExitEnd, HandedOver, Records
  <2>3. job.at \in Working /\ job'.at = "quads"
    BY <1>7 DEF ExitExpress, ThreadRuns, To, Working, MaskInv, Shapes, IsJob
  <2>. QED  BY <1>1, <1>2, <1>3, <2>2, <2>3, SuspendWorks
            DEF SuspendInv, SuspendOrder, Working
<1>8. CASE ExitThreadEnds
  <2>1. \/ job'.at = "posted" /\ rec' = rec
        \/ /\ job'.at = "closing"
           /\ rec'.status = rec.status \ {"STOP_PROCESSING"}
    BY <1>4, <1>8 DEF ExitThreadEnds, To, Posted, NoJob, Records, MaskInv, Shapes, IsJob
  <2>. QED  BY <1>1, <1>2, <1>3, <2>1, SuspendWorks DEF Working
<1>. QED  BY <1>5, <1>6, <1>7, <1>8

LEMMA SuspendExitQuad ==
    ASSUME TypeInv, MaskInv, SuspendInv, NEW q \in Quads, ExitQuad(q)
    PROVE  SuspendInv'
<1>1. /\ handler = NoHandler /\ job.thread = "exit" /\ job.at = "quads"
      /\ UNCHANGED <<handler, suspend, payload>>
      /\ job'.thread = "exit" /\ job'.at = "quads"
      /\ cmeSuspend' = cmeSuspend \ {q} /\ db1' = [db1 EXCEPT ![q] = "none"]
  BY DEF ExitQuad, ThreadRuns, ToQuads, MaskInv, Shapes, IsJob
<1>2. rec'.status = rec.status
  <2>. DEFINE r == [rec EXCEPT !.act[q] = 0]
  <2>1. ExitEnd(r, {q})
    BY DEF ExitQuad
  <2>2. rec \in Records
    BY DEF TypeInv
  <2>3. r \in Records /\ r.status = rec.status
    BY <2>2 DEF Records
  <2>. HIDE DEF r
  <2>4. rec'.status = r.status
    BY <2>1, <2>3 DEF ExitEnd, HandedOver, Records
  <2>. QED  BY <2>3, <2>4
<1>3. suspend # "acked" /\ handler.at = "none"
  BY <1>1 DEF SuspendInv, AllStopped, NoHandler
<1>4. ~Suspending
  BY <1>1, <1>3 DEF Suspending
<1>5. CmesAsked'
  BY <1>1, <1>4 DEF SuspendInv, CmesAsked, TypeInv, TypesOfCmes
<1>6. SuspendOrder'
  BY <1>1, <1>2, <1>3 DEF SuspendInv, SuspendOrder, Working
<1>7. AllStopped'
  BY <1>1, <1>3 DEF AllStopped
<1>. QED  BY <1>5, <1>6, <1>7 DEF SuspendInv

LEMMA SuspendEntryThread ==
    ASSUME TypeInv, MaskInv, SuspendInv,
           \/ ThreadStarts("entry") \/ EntrySelects \/ EntryNotifies
           \/ EntryTellsDone \/ EntryThreadEnds
           \/ \E q \in Quads : Purge(q) \/ EntryQuad(q)
    PROVE  SuspendInv'
<1>1. /\ handler = NoHandler /\ job.thread = "entry" /\ job.at # "suspending"
      /\ UNCHANGED <<handler, suspend>> /\ rec \in Records
  BY DEF ThreadStarts, EntrySelects, EntryNotifies, EntryTellsDone, EntryThreadEnds,
         Purge, EntryQuad, ThreadRuns, requestVars, TypeInv
<1>2. CASE ThreadStarts("entry")
  <2>1. /\ job'.at = "select" /\ job'.thread = "entry"
        /\ rec'.status = rec.status \union {"STOP_PROCESSING"}
    BY <1>1, <1>2 DEF ThreadStarts, To, Records, MaskInv, Shapes, IsJob
  <2>2. CmesStay
    BY <1>2 DEF ThreadStarts, CmesStay, cmeVars, pigVars
  <2>. QED  BY <1>1, <2>1, <2>2, SuspendWorks
<1>3. CASE EntryThreadEnds
  <2>1. /\ job'.at = "closing" /\ job'.thread = "entry"
        /\ rec'.status = rec.status \ {"STOP_PROCESSING"}
    BY <1>1, <1>3 DEF EntryThreadEnds, To, Records, MaskInv, Shapes, IsJob
  <2>2. CmesStay
    BY <1>3 DEF EntryThreadEnds, CmesStay, cmeVars, pigVars
  <2>. QED  BY <1>1, <2>1, <2>2, SuspendWorks DEF Working
<1>4. CASE EntrySelects \/ EntryNotifies \/ EntryTellsDone
           \/ \E q \in Quads : Purge(q) \/ EntryQuad(q)
  <2>1. job.at \in Working /\ job'.at \in Working /\ job'.thread = "entry"
    BY <1>1, <1>4 DEF EntrySelects, EntryNotifies, EntryTellsDone, Purge, EntryQuad,
       ThreadRuns, TellsEntry, ToQuads, Working, MaskInv, Shapes, IsJob
  <2>2. rec'.status = rec.status
    BY <1>1, <1>4, ZenonT(60) DEF EntrySelects, EntryNotifies, EntryTellsDone, Purge, EntryQuad,
       Records
  <2>3. CmesStay
    <3>1. CASE EntrySelects \/ EntryNotifies \/ EntryTellsDone \/ \E q \in Quads : Purge(q)
      BY <3>1 DEF EntrySelects, EntryNotifies, EntryTellsDone, Purge, CmesStay, cmeVars,
         pigVars
    <3>2. ASSUME NEW q \in Quads, EntryQuad(q) PROVE CmesStay
      BY <3>2 DEF EntryQuad, CmesStay, pigVars, TypeInv, TypesOfCmes
    <3>. QED  BY <1>4, <3>1, <3>2
  <2>. QED  BY <1>1, <2>1, <2>2, <2>3, SuspendWorks
            DEF SuspendInv, SuspendOrder, Working
<1>. QED  BY <1>2, <1>3, <1>4

LEMMA SuspendThreadCloses ==
    ASSUME TypeInv, MaskInv, SuspendInv, NEW thread \in {"exit", "entry"},
           ThreadCloses(thread)
    PROVE  SuspendInv'
<1>1. /\ handler.at = "none" /\ handler' = handler /\ rec' = rec
      /\ job.thread = thread /\ job.at = "closing"
      /\ UNCHANGED <<suspend, cmeSuspend, powered, payload>>
  BY DEF ThreadCloses, ThreadRuns, NoHandler, requestVars, pigVars
<1>2. CASE "SUSPEND_PENDING" \in rec.status
  <2>1. job'.at = "suspending"
    BY <1>2 DEF ThreadCloses, To, MaskInv, Shapes, IsJob
  <2>2. suspend = "taken"
    BY <1>2 DEF SuspendInv, SuspendOrder
  <2>3. CmesAsked'
    BY <1>1, <2>1 DEF SuspendInv, CmesAsked, Suspending
  <2>4. SuspendOrder'
    BY <1>1, <2>1, <2>2 DEF SuspendInv, SuspendOrder, Working
  <2>5. AllStopped'
    BY <1>1, <2>2 DEF AllStopped
  <2>. QED  BY <2>3, <2>4, <2>5 DEF SuspendInv
<1>3. CASE "SUSPEND_PENDING" \notin rec.status
  <2>1. job' = NoJob /\ db1' = db1
    BY <1>3 DEF ThreadCloses
  <2>2. job'.at = "idle" /\ job'.thread = "none"
    BY <2>1 DEF NoJob
  <2>3. CmesStay
    BY <1>1, <2>1 DEF CmesStay
  <2>4. CmesAsked'
    BY <1>1, <2>3, CmesAskedStays DEF SuspendInv, Suspending
  <2>5. SuspendOrder'
    BY <1>1, <1>3, <2>2 DEF SuspendInv, SuspendOrder, Working
  <2>6. AllStopped'
    BY <1>1, <2>2 DEF SuspendInv, AllStopped
  <2>. QED  BY <2>4, <2>5, <2>6 DEF SuspendInv
<1>. QED  BY <1>2, <1>3

-----------------------------------------------------------------------------
LEMMA SendAsks ==
    ASSUME TypeInv, NEW t \in CoreTypes, NEW c \in Cores, NEW what, Send(t, c, what)
    PROVE  \A x \in Cores : payload'.TYPE3[x] = payload.TYPE3[x]
                            \/ (t = "TYPE3" /\ x = c /\ payload'.TYPE3[x] = what)
BY DEF TypeInv, TypesOfPackets, Send, CoreTypes, StopTypes

LEMMA SuspendPartners ==
    ASSUME TypeInv, SuspendInv,
           \/ \E q \in Quads, c \in Cores, level \in Levels :
                  c \in CoresOf(q) /\ CoreStops(q, c, level)
           \/ \E q \in Quads : \E c \in CoresOf(q) :
                  \/ WakeUp(q, c) \/ PcInterrupt(q, c) \/ PcwuRead(q, c)
                  \/ PcwuSend(c) \/ CmeExit(q, c) \/ CmeDb2(q, c)
           \/ \E q \in Quads : SpecialWakeup(q) \/ ReleaseSpecial(q)
           \/ OccBlocks \/ OccUnblocks \/ PgpeSuspends \/ Fit \/ UNCHANGED vars
    PROVE  SuspendInv'
<1>1. /\ UNCHANGED <<handler, job>> /\ rec'.status = rec.status
      /\ suspend' = suspend \/ (suspend = "no" /\ suspend' = "sent")
      /\ UNCHANGED <<cmeSuspend, powered, db1>>
  BY DEF CoreStops, WakeUp, PcInterrupt, SpecialWakeup, ReleaseSpecial, PcwuRead,
         PcwuSend, CmeExit, CmeDb2, OccBlocks, OccUnblocks, OccRequest, PgpeSuspends,
         Fit, vars, threadVars, requestVars, cmeVars
<1>2. \A x \in Cores : payload'.TYPE3[x] = "ack_suspend" =>
                           payload.TYPE3[x] = "ack_suspend"
  <2>1. ASSUME NEW q \in Quads, NEW c \in Cores, NEW level \in Levels,
               CoreStops(q, c, level)
        PROVE  \A x \in Cores : payload'.TYPE3[x] = "ack_suspend" =>
                           payload.TYPE3[x] = "ack_suspend"
    <3>1. \E t \in CoreTypes : Send(t, c, PacketOf(level))
      BY <2>1 DEF CoreStops, CoreTypes
    <3>2. PacketOf(level) # "ack_suspend"
      BY DEF PacketOf
    <3>. QED  BY <3>1, <3>2, SendAsks
  <2>2. ASSUME NEW q \in Quads, NEW c \in CoresOf(q),
               WakeUp(q, c) \/ PcwuSend(c) \/ CmeDb2(q, c)
        PROVE  \A x \in Cores : payload'.TYPE3[x] = "ack_suspend" =>
                           payload.TYPE3[x] = "ack_suspend"
    <3>1. c \in Cores /\ type[c] \in CoreTypes
      BY CoresOfQuads DEF TypeInv, TypesOfCores, CoreTypes
    <3>2. \/ UNCHANGED payload
          \/ \E t \in CoreTypes, what \in ExitEvents \union {"entry_rclk"} :
                 Send(t, c, what)
      BY <2>2, <3>1 DEF WakeUp, PcwuSend, CmeDb2, pigVars, CoreTypes, ExitEvents
    <3>. QED  BY <3>1, <3>2, SendAsks DEF ExitEvents
  <2>3. ASSUME NEW q \in Quads, SpecialWakeup(q) \/ ReleaseSpecial(q)
        PROVE  payload'.TYPE3 = payload.TYPE3
    BY <2>3 DEF SpecialWakeup, ReleaseSpecial, SendQuad, TypeInv, TypesOfPackets, StopTypes
  <2>4. ASSUME \/ \E q \in Quads : \E c \in CoresOf(q) :
                      PcInterrupt(q, c) \/ PcwuRead(q, c) \/ CmeExit(q, c)
               \/ OccBlocks \/ OccUnblocks \/ PgpeSuspends \/ Fit \/ UNCHANGED vars
        PROVE  payload' = payload
    BY <2>4 DEF PcInterrupt, PcwuRead, CmeExit, OccBlocks, OccUnblocks, OccRequest,
       PgpeSuspends, Fit, vars, pigVars
  <2>. QED  BY <2>1, <2>2, <2>3, <2>4
<1>3. CmesStay
  BY <1>1, <1>2 DEF CmesStay
<1>. QED  BY <1>1, <1>3, SuspendWaits

LEMMA SuspendCmeDb1 ==
    ASSUME TypeInv, SuspendInv, NEW q \in Quads, CmeDb1(q)
    PROVE  SuspendInv'
<1>1. /\ UNCHANGED <<handler, job, suspend, rec, powered>>
      /\ db1' = [db1 EXCEPT ![q] = "none"]
      /\ cmeSuspend' = IF db1[q] = "ack_suspend" THEN cmeSuspend \union {q}
                       ELSE cmeSuspend
      /\ Send("TYPE3", First(q), db1[q])
  BY DEF CmeDb1, threadVars, requestVars
<1>2. First(q) \in Cores /\ QuadOf(First(q)) = q
  BY CoresOfQuads
<1>3. \A x \in Cores : payload'.TYPE3[x] = payload.TYPE3[x]
                       \/ (x = First(q) /\ payload'.TYPE3[x] = db1[q])
  BY <1>1, <1>2, SendAsks DEF CoreTypes
<1>4. Suspending' = Suspending
  BY <1>1 DEF Suspending
<1>5. CmesAsked'
  <2>1. ASSUME NEW p \in Quads, db1'[p] = "ack_suspend" \/ p \in cmeSuspend'
        PROVE  Suspending'
    BY <1>1, <1>4, <2>1 DEF SuspendInv, CmesAsked, TypeInv, TypesOfCmes
  <2>2. ASSUME NEW x \in Cores, payload'.TYPE3[x] = "ack_suspend"
        PROVE  Suspending' /\ QuadOf(x) \in cmeSuspend'
    BY <1>1, <1>2, <1>3, <1>4, <2>2 DEF SuspendInv, CmesAsked
  <2>. QED  BY <2>1, <2>2 DEF CmesAsked
<1>6. SuspendOrder' /\ AllStopped'
  BY <1>1 DEF SuspendInv, SuspendOrder, AllStopped
<1>. QED  BY <1>5, <1>6 DEF SuspendInv

LEMMA SuspendInit == Init => SuspendInv
<1>. SUFFICES ASSUME Init PROVE SuspendInv
  OBVIOUS
<1>1. /\ handler = NoHandler /\ job = NoJob /\ suspend = "no" /\ cmeSuspend = {}
      /\ db1 = [q \in Quads |-> "none"] /\ rec.status = {}
      /\ \A c \in Cores : payload.TYPE3[c] = "none"
  BY DEF Init, StopTypes
<1>. QED  BY <1>1 DEF SuspendInv, SuspendOrder, CmesAsked, AllStopped, NoHandler, NoJob,
              Working

LEMMA SuspendNext ==
    ASSUME NoThreadWindow, TypeInv, MaskInv, PartnersInv, PartnersInv', SuspendInv,
           [Next]_vars
    PROVE  SuspendInv'
<1>1. CASE Handlers
  BY <1>1, SuspendTakeInterrupt, SuspendHandlePackets, SuspendHandOff,
     SuspendSpecialPackets, SuspendBlockRequest, SuspendRequested, SuspendEnds
     DEF Handlers, NoThreadWindow
<1>2. CASE Threads
  <2>1. ASSUME NEW thread \in {"exit", "entry"},
               ThreadStarts(thread) \/ ThreadSuspends(thread) \/ ThreadCloses(thread)
        PROVE  SuspendInv'
    BY <2>1, SuspendExitThread, SuspendEntryThread, SuspendEnds, SuspendThreadCloses
  <2>2. CASE ExitSelects \/ ExitExpress \/ ExitTellsDone \/ ExitThreadEnds
    BY <2>2, SuspendExitThread
  <2>3. CASE EntrySelects \/ EntryNotifies \/ EntryTellsDone \/ EntryThreadEnds
    BY <2>3, SuspendEntryThread
  <2>4. CASE \E q \in Quads : ExitQuad(q) \/ Purge(q) \/ EntryQuad(q)
    BY <2>4, SuspendExitQuad, SuspendEntryThread
  <2>. QED  BY <1>2, <2>1, <2>2, <2>3, <2>4 DEF Threads
<1>3. CASE ~Handlers /\ ~Threads
  BY <1>3, SuspendPartners, SuspendCmeDb1 DEF Next, Sgpe, Cme
<1>. QED  BY <1>1, <1>2, <1>3

-----------------------------------------------------------------------------
(* Once the suspension was answered, no core is handed over, wakes or       *)
(* stops, and no quad gets power.                                           *)
LEMMA StoppedStays ==
    ASSUME TypeInv, PartnersInv, SuspendInv, suspend = "acked", [Next]_vars
    PROVE  UNCHANGED <<running, wns>> /\ powered' \subseteq powered
<1>1. /\ powered \subseteq cmeSuspend
      /\ handler.at = "handoff" => handler.set = {}
      /\ job.thread = "exit" => job.at = "closing"
  BY DEF SuspendInv, AllStopped
<1>2. CASE Handlers
  <2>1. ~HandOff => UNCHANGED <<running, wns, powered>>
    BY <1>2 DEF Handlers, TakeInterrupt, HandlePackets, DoorbellFirst, SpecialPackets,
       BlockRequest, SuspendRequest, HandlerSuspends, SuspendDone, coreVars, cmeVars
  <2>2. ASSUME HandOff PROVE UNCHANGED <<running, wns, powered>>
    BY <1>1, <2>2 DEF HandOff, HandlerRuns, HandOver
  <2>. QED  BY <2>1, <2>2
<1>3. CASE Threads
  <2>1. ~ExitExpress /\ \A q \in Quads : ~ExitQuad(q)
    BY <1>1 DEF ExitExpress, ExitQuad, ThreadRuns
  <2>2. ASSUME NEW q \in Quads, EntryQuad(q)
        PROVE  UNCHANGED <<running, wns>> /\ powered' \subseteq powered
    BY <2>2 DEF EntryQuad
  <2>3. CASE ~\E q \in Quads : EntryQuad(q)
    BY <1>3, <2>1, <2>3 DEF Threads, ThreadStarts, ThreadSuspends, ThreadCloses,
       ExitSelects, ExitTellsDone, ExitThreadEnds, EntrySelects, EntryNotifies,
       EntryTellsDone, EntryThreadEnds, Purge, SuspendDone, coreVars, cmeVars
  <2>. QED  BY <2>2, <2>3
<1>4. CASE ~Handlers /\ ~Threads
  <2>1. ASSUME NEW q \in Quads
        PROVE  ~(q \in powered /\ ~Suspended(q))
    BY <1>1 DEF Suspended
  <2>2. /\ ~\E q \in Quads, c \in Cores, level \in Levels : CoreStops(q, c, level)
        /\ ~\E q \in Quads : \E c \in CoresOf(q) : CmeExit(q, c)
    BY <2>1 DEF CoreStops, CmeExit, MayWake, CmeFree
  <2>. QED  BY <1>4, <2>2 DEF Next, Sgpe, Cme, WakeUp, PcInterrupt, SpecialWakeup,
            ReleaseSpecial, PcwuRead, PcwuSend, CmeDb2, CmeDb1, OccBlocks, OccUnblocks,
            OccRequest, PgpeSuspends, Fit, vars, coreVars, cmeVars
<1>. QED  BY <1>2, <1>3, <1>4

(* The answer to a suspension holds whatever was pending or half done when *)
(* the message came: but for a message between the post of a thread and    *)
(* its first statement, where EE is on in the first thread only.           *)
THEOREM SuspensionStays == NoThreadWindow => (Spec => SuspendedStays)
<1>. SUFFICES ASSUME NoThreadWindow PROVE Spec => SuspendedStays
  OBVIOUS
<1>1. Regime
  BY DEF NoThreadWindow
<1>2. Init => SuspendInv
  BY SuspendInit
<1>3. TypeInv /\ MaskInv /\ PartnersInv /\ PartnersInv' /\ SuspendInv /\ [Next]_vars
          => SuspendInv'
  BY SuspendNext
<1>4. TypeInv /\ PartnersInv /\ SuspendInv /\ [Next]_vars
          => [suspend = "acked" =>
                 UNCHANGED <<running, wns>> /\ powered' \subseteq powered]_vars
  BY StoppedStays
<1>5. Spec => []PartnersInv
  BY <1>1, PartnersHold
<1>. QED  BY <1>2, <1>3, <1>4, <1>5, TypesHold, PTL DEF Spec, SuspendedStays

=============================================================================
