------------------------- MODULE PgpeRequestsProofs -------------------------
(***************************************************************************)
(* Proofs about PgpeRequests: for every number of quads and cores, every   *)
(* set of requests and, where nothing else is said, with every flag of the *)
(* OCC and every fault.                                                    *)
(***************************************************************************)
EXTENDS PgpeRequests, SequenceTheorems, TLAPS

(* Where the process thread is in its pass over the table, and which slot  *)
(* it has taken and not yet served.                                        *)
PassLabels == Slots \union {"WOF_CTRL_2", "CTRL_STOP", "START_STOP_2",
                  "STARTING", "CLIP_2", "VFRT_2", "REGISTER", "done"}
Position(label) ==
    CASE label \in {"WOF_CTRL", "WOF_CTRL_2", "CTRL_STOP"} -> 1
      [] label = "CORES" -> 2
      [] label = "QUADS" -> 3
      [] label \in {"START_STOP", "START_STOP_2", "STARTING"} -> 4
      [] label \in {"CLIP", "CLIP_2"} -> 5
      [] label \in {"VFRT", "VFRT_2"} -> 6
      [] label = "SET_PMCR" -> 7
      [] label = "ACK_CTRL" -> 8
      [] label = "ACK_SUSP" -> 9
      [] OTHER -> 10
Current(label) ==
    CASE label \in {"WOF_CTRL_2", "CTRL_STOP"} -> {"WOF_CTRL"}
      [] label = "CLIP_2" -> {"CLIP"}
      [] label = "VFRT_2" -> {"VFRT"}
      [] OTHER -> {}

InPass == process \in PassLabels
Leaving == actuate \in {"leave", "safe", "suspend", "stop"}
Closing == {"CORES", "CLIP", "VFRT"}
Once == <<DISABLED>>
Twice == <<DISABLED, IPI2HI>>

Shape ==
    /\ wire \subseteq Slots /\ processing \subseteq Slots
    /\ pendingAck \subseteq RequestSlots
    /\ process \in PassLabels \union {"top", "pend", "woken"}

(* semProcessPosted is the count that is posted and not yet used.          *)
Posts ==
    /\ semProcess \in {0, 1} /\ semProcessPosted \in BOOLEAN
    /\ InPass \/ process = "pend" => semProcess = 0 /\ ~semProcessPosted
    /\ process = "woken" => semProcess = 0 /\ semProcessPosted
    /\ process = "top" => (semProcessPosted <=> semProcess = 1)

(* What the pass has come by is served, but for a START_STOP that has to   *)
(* wait.                                                                   *)
Skipped(slot) == slot = "START_STOP" /\ pendingActiveQuadUpdtDone
PassedBy(label) ==
    \A slot \in processing : Position(slot) < Position(label) => Skipped(slot)
Passes ==
    InPass =>
        /\ PassedBy(process)
        /\ process \in Slots => process \in processing
        /\ process \in {"START_STOP_2", "STARTING"}
               => "START_STOP" \in processing
        /\ Current(process) \intersect processing = {}
        /\ process = "done" => pendQuadsRegisterProcess = {}
AtRest ==
    process = "pend" \/ (process = "top" /\ semProcess = 0) =>
        /\ \A slot \in processing : Skipped(slot)
        /\ pendQuadsRegisterProcess = {}

(* Somebody will restore the mask that the IPC interrupt left behind.      *)
Closed ==
    \/ "IPI2" \in semProcessSrc
    \/ pendingAck \intersect Closing # {}
    \/ actuate = "restore"

(* The stack holds what the IPC interrupt left, below what the pass or the *)
(* actuate thread's own section pushed.                                    *)
MaskStack ==
    /\ Leaving \/ actuate = "restore" => process = "pend"
    /\ actuate = "restore" => pendingAck \intersect Closing = {}
    /\ stack \in {<<>>, Once, Twice}
    /\ level = IF stack = <<>> THEN DISABLED ELSE IPI2HI
    /\ InPass \/ Leaving => stack = Twice \/ (stack = Once /\ ~Closed)
    /\ ~InPass /\ ~Leaving => stack = Once \/ (stack = <<>> /\ ~Closed)

(* An answer that is left over is one whose slot the pass has served with  *)
(* restore_irq cleared, or is in the table.                                *)
Unserved == processing \union (IF InPass THEN Current(process) ELSE {})
Sources ==
    "IPI2" \in semProcessSrc =>
        /\ InPass \/ process = "woken" \/ (process = "top" /\ semProcess = 1)
        /\ ~InPass \/ restoreProcess
               => pendingAck \intersect Closing \subseteq Unserved

ServeInv ==
    /\ Shape /\ Posts /\ Passes /\ AtRest /\ MaskStack /\ Sources
    /\ halted # "STACK_UNDERFLOW"

(* Without flags and faults, Pstates are started and stopped and nothing   *)
(* else; every slot is asked for, and who closed the IPC interrupt opens   *)
(* it.                                                                     *)
Calm ==
    /\ occflg = {} /\ pstatesStatus \in {"INIT", "ACTIVE", "STOPPED"}
    /\ toSgpe \subseteq {"CTRL"} /\ actuate # "safe"
    /\ "ACK_SUSP" \notin wire \union processing
Accounts ==
    /\ TableIsOutstanding /\ twice = {}
    /\ processing \ AckSlots \subseteq pendingAck
    /\ InPass => Current(process) \subseteq pendingAck
ClosedBack ==
    /\ InPass \/ Leaving => stack = Once \/ Closed
    /\ ~InPass /\ ~Leaving => stack = <<>> \/ Closed
    /\ InPass /\ ~restoreProcess
           => (pendingAck \intersect Closing) \ Unserved # {}
    /\ "IPI2" \notin semProcessSrc => Unserved \subseteq {"START_STOP"}

QuietInv == Calm /\ Accounts /\ ClosedBack

(* No WOF without Pstates, also while the thread waits for the SGPE.       *)
WofInv ==
    /\ process \in PassLabels \union {"top", "pend", "woken"}
    /\ WofOnlyWhileStarted
    /\ process = "CTRL_STOP" => pstatesStatus \notin NotStarted

-----------------------------------------------------------------------------
(* What the pass comes to next.                                            *)

(* The order of the pass, and where each slot stands in it.                *)
LEMMA OrderIs ==
    /\ DOMAIN Order = 1 .. 9
    /\ \A i \in 1 .. 9 : Order[i] \in Slots /\ Position(Order[i]) = i
    /\ \A slot \in Slots :
          Position(slot) \in 1 .. 9 /\ Order[Position(slot)] = slot
  <1>1. DOMAIN Order = 1 .. 9
    BY DEF Order
  <1>2. \A i \in 1 .. 9 : Order[i] \in Slots /\ Position(Order[i]) = i
    BY DEF Order, Position, Slots, RequestSlots, OccSlots, SgpeSlots, AckSlots
  <1>3. \A slot \in Slots :
           Position(slot) \in 1 .. 9 /\ Order[Position(slot)] = slot
    BY DEF Order, Position, Slots, RequestSlots, OccSlots, SgpeSlots, AckSlots
  <1> QED BY <1>1, <1>2, <1>3

(* Place is the position in Order.                                         *)
LEMMA PlaceIs ==
    ASSUME NEW slot \in Slots
    PROVE  Place(slot) = Position(slot) /\ Place(slot) \in 1 .. 9
  <1>1. \E i \in DOMAIN Order : Order[i] = slot
    BY OrderIs
  <1>2. Place(slot) \in DOMAIN Order /\ Order[Place(slot)] = slot
    BY <1>1 DEF Place
  <1> QED BY <1>2, OrderIs

(* Of places there is a least one.                                         *)
LEMMA MinIs ==
    ASSUME NEW S, S \subseteq 1 .. 9, S # {}
    PROVE  Min(S) \in S /\ \A j \in S : Min(S) <= j
  <1>1. \E m \in S : \A j \in S : m <= j
    <2> DEFINE Below(m) == \A j \in 1 .. 9 : j < m => j \notin S
    <2>1. ASSUME NEW m \in 1 .. 9, m \in S, Below(m)
          PROVE  \A j \in S : m <= j
      BY <2>1
    <2>2. Below(1) /\ \A m \in 1 .. 9 : Below(m) => m \in S \/ Below(m + 1)
      OBVIOUS
    <2>3. ~Below(10)
      <3>1. PICK k \in 1 .. 9 : k \in S
        OBVIOUS
      <3> QED BY <3>1
    <2> HIDE DEF Below
    <2>4. \E m \in 1 .. 9 : m \in S /\ Below(m)
      BY <2>2, <2>3
    <2> QED BY <2>1, <2>4
  <1> QED BY <1>1 DEF Min

(* After slot i comes the first slot that is due, of those behind it.      *)
LEMMA NextWorkIs ==
    ASSUME NEW i \in Nat
    PROVE  /\ NextWork(i) \in Slots \union {"REGISTER", "done"}
           /\ NextWork(i) \in Slots => Due(NextWork(i))
           /\ \A slot \in Slots :
                 Due(slot) /\ Position(slot) > i
                     => Position(slot) >= Position(NextWork(i))
           /\ NextWork(i) = "done" => pendQuadsRegisterProcess' = {}
  <1> DEFINE later == {j \in DOMAIN Order : j > i /\ Due(Order[j])}
  <1>1. /\ later \subseteq 1 .. 9
        /\ \A slot \in Slots :
              Due(slot) /\ Position(slot) > i => Position(slot) \in later
    BY OrderIs
  <1>2. NextWork(i) = IF later # {} THEN Order[Min(later)]
                      ELSE IF pendQuadsRegisterProcess' # {}
                      THEN "REGISTER" ELSE "done"
    BY DEF NextWork
  <1>3. \A j \in later : Due(Order[j])
    OBVIOUS
  <1>4. "REGISTER" \notin Slots /\ "done" \notin Slots
    BY DEF Slots, RequestSlots, OccSlots, SgpeSlots, AckSlots
  <1> HIDE DEF later
  <1>5. CASE later # {}
    <2>1. Min(later) \in later /\ \A j \in later : Min(later) <= j
      BY <1>1, <1>5, MinIs
    <2>2. /\ NextWork(i) \in Slots /\ Due(NextWork(i))
          /\ Position(NextWork(i)) = Min(later)
      BY <1>1, <1>2, <1>3, <1>5, <2>1, OrderIs
    <2> QED BY <1>1, <1>4, <2>1, <2>2
  <1>6. CASE later = {}
    BY <1>1, <1>2, <1>4, <1>6
  <1> QED BY <1>5, <1>6

(* The slots by name.                                                      *)
LEMMA SlotNames ==
    /\ Slots = {"START_STOP", "CLIP", "WOF_CTRL", "VFRT", "SET_PMCR", "CORES",
                "QUADS", "ACK_CTRL", "ACK_SUSP"}
    /\ RequestSlots = {"START_STOP", "CLIP", "WOF_CTRL", "VFRT", "SET_PMCR",
                       "CORES", "QUADS"}
    /\ RequestSlots \subseteq Slots
  BY DEF Slots, RequestSlots, OccSlots, SgpeSlots, AckSlots

(* The labels of the pass are none of the others.                          *)
LEMMA LabelFacts ==
    /\ \A label \in {"top", "pend", "woken"} : label \notin PassLabels
    /\ \A slot \in Slots : slot \in PassLabels /\ Current(slot) = {}
    /\ "REGISTER" \in PassLabels /\ Current("REGISTER") = {}
    /\ "done" \in PassLabels /\ Current("done") = {}
  BY SlotNames DEF PassLabels, Current

-----------------------------------------------------------------------------
(* Steps that keep ServeInv.                                               *)

(* Positions are compared as integers.                                     *)
LEMMA PositionIsInt ==
    ASSUME NEW label PROVE Position(label) \in 1 .. 10
  BY DEF Position

(* Someone else's step: answers may be sent, the actuate thread woken.     *)
LEMMA ServeOutside ==
    ASSUME ServeInv,
           UNCHANGED <<processing, process, restoreProcess, semProcess,
               semProcessPosted, semProcessSrc, stack, level,
               pendQuadsRegisterProcess>>,
           actuate' = actuate \/ (actuate = "pend" /\ actuate' = "loop"),
           pendingAck' \subseteq pendingAck,
           pendingActiveQuadUpdtDone => pendingActiveQuadUpdtDone',
           wire' \subseteq Slots, halted' # "STACK_UNDERFLOW"
    PROVE  ServeInv'
  <1>1. Shape' /\ Posts'
    BY DEF ServeInv, Shape, Posts, InPass
  <1>2. Passes' /\ AtRest'
    BY DEF ServeInv, Passes, PassedBy, AtRest, InPass, Skipped
  <1>3. MaskStack'
    BY DEF ServeInv, MaskStack, InPass, Leaving, Closed
  <1>4. Sources'
    BY DEF ServeInv, Sources, InPass, Unserved
  <1> QED BY <1>1, <1>2, <1>3, <1>4 DEF ServeInv

(* A step of the pass: the interrupts it has masked stay away.             *)
LEMMA ServePass ==
    ASSUME ServeInv, InPass, process' \in PassLabels,
           UNCHANGED <<semProcess, semProcessPosted, semProcessSrc, stack,
                       level, wire>>,
           actuate' \in {actuate, "loop"},
           pendingAck' \subseteq pendingAck,
           processing' \subseteq processing,
           halted' # "STACK_UNDERFLOW",
           Passes', Sources'
    PROVE  ServeInv'
  <1>1. InPass' /\ process \notin {"top", "pend", "woken"}
        /\ process' \notin {"top", "pend", "woken"}
    BY LabelFacts DEF InPass
  <1>2. Shape'
    BY DEF ServeInv, Shape
  <1>3. Posts' /\ AtRest'
    BY <1>1 DEF ServeInv, Posts, AtRest
  <1>4. MaskStack'
    BY <1>1 DEF ServeInv, MaskStack, Closed, Leaving
  <1> QED BY <1>2, <1>3, <1>4 DEF ServeInv

(* A slot is served: its request is taken, its answer sent or left over.   *)
LEMMA ServeServed ==
    ASSUME ServeInv, NEW slot \in Slots, process \in PassLabels,
           Position(process) = Position(slot), Current(process) \subseteq {slot},
           processing' = processing \ {slot},
           pendingAck' \subseteq pendingAck,
           \/ slot = "QUADS"
           \/ pendingActiveQuadUpdtDone => pendingActiveQuadUpdtDone',
           UNCHANGED <<semProcess, semProcessPosted, semProcessSrc, stack,
                       level, wire, pendQuadsRegisterProcess>>,
           actuate' \in {actuate, "loop"}, halted' # "STACK_UNDERFLOW",
           Served(slot)
    PROVE  ServeInv'
  <1>1. /\ process' \in Slots \union {"REGISTER", "done"}
        /\ process' \in Slots => Due(process')
        /\ \A s \in Slots : Due(s) /\ Position(s) > Position(slot)
                                => Position(s) >= Position(process')
        /\ process' = "done" => pendQuadsRegisterProcess' = {}
    BY PlaceIs, NextWorkIs DEF Served
  <1>2. process' \in PassLabels /\ Current(process') = {} /\ InPass'
        /\ process' \notin {"START_STOP_2", "STARTING"}
    BY <1>1, LabelFacts, SlotNames DEF InPass
  <1>3. PassedBy(process)
    BY DEF ServeInv, Passes, InPass
  <1>4. ASSUME NEW s \in processing', Position(s) < Position(process')
        PROVE  Skipped(s)'
    <2>1. s \in processing /\ s \in Slots /\ s # slot
      BY DEF ServeInv, Shape
    <2>2. Position(s) \in 1 .. 9 /\ Position(slot) \in 1 .. 9
          /\ Position(s) # Position(slot)
      BY <2>1, OrderIs
    <2>3. CASE Position(s) < Position(slot)
      <3>1. s = "START_STOP" /\ pendingActiveQuadUpdtDone
        BY <1>3, <2>1, <2>3 DEF PassedBy, Skipped
      <3>2. slot # "QUADS"
        BY <2>3, <3>1 DEF Position
      <3> QED BY <3>1, <3>2 DEF Skipped
    <2>4. CASE Position(s) > Position(slot)
      <3>1. ~Due(s)
        BY <1>1, <2>1, <2>2, <2>4, <1>4, PositionIsInt
      <3> QED BY <3>1 DEF Due, Skipped
    <2> QED BY <2>2, <2>3, <2>4
  <1>5. PassedBy(process)'
    BY <1>4 DEF PassedBy
  <1>6. Passes'
    BY <1>1, <1>2, <1>5 DEF Passes, Due
  <1>7. Sources'
    BY <1>2 DEF ServeInv, Sources, Served, KeepsClosed, Unserved, InPass,
                Closing
  <1> QED BY <1>2, <1>6, <1>7, ServePass DEF InPass

(* A slot is taken, to be served after the look at the status.             *)
LEMMA ServeTakes ==
    ASSUME ServeInv, NEW slot \in Slots, NEW next \in PassLabels \ Slots,
           process = slot, process' = next,
           next \notin {"START_STOP_2", "STARTING", "done"},
           Position(next) = Position(slot), Current(next) = {slot},
           processing' = processing \ {slot},
           UNCHANGED <<semProcess, semProcessPosted, semProcessSrc, stack,
                       level, wire, pendQuadsRegisterProcess, pendingAck,
                       restoreProcess, actuate, pendingActiveQuadUpdtDone>>,
           halted' # "STACK_UNDERFLOW"
    PROVE  ServeInv'
  <1>1. InPass /\ InPass' /\ Current(process) = {}
    BY LabelFacts DEF InPass
  <1>2. Passes'
    BY <1>1 DEF ServeInv, Passes, PassedBy, Skipped
  <1>3. Sources'
    BY <1>1 DEF ServeInv, Sources, Unserved
  <1> QED BY <1>1, <1>2, <1>3, ServePass

(* The positions of the labels, case by case.                              *)
LEMMA Positions ==
    /\ Position("WOF_CTRL_2") = Position("WOF_CTRL")
    /\ Position("CTRL_STOP") = Position("WOF_CTRL")
    /\ Position("START_STOP_2") = Position("START_STOP")
    /\ Position("STARTING") = Position("START_STOP")
    /\ Position("CLIP_2") = Position("CLIP")
    /\ Position("VFRT_2") = Position("VFRT")
    /\ Position("REGISTER") = Position("done")
  BY DEF Position

(* The labels that hold a slot they took, case by case.                    *)
LEMMA Currents ==
    /\ Current("WOF_CTRL_2") = {"WOF_CTRL"}
    /\ Current("CTRL_STOP") = {"WOF_CTRL"}
    /\ Current("CLIP_2") = {"CLIP"} /\ Current("VFRT_2") = {"VFRT"}
    /\ Current("START_STOP_2") = {} /\ Current("STARTING") = {}
  BY DEF Current

(* Each step of the process thread keeps ServeInv; first the requests.     *)
LEMMA ServeRefuse ==
    ASSUME ServeInv, halted = "no",
           NEW slot \in Slots, NEW next \in PassLabels \ Slots,
           next \notin {"START_STOP_2", "STARTING", "done"},
           Position(next) = Position(slot), Current(next) = {slot},
           RefuseSuspended(slot, next)
    PROVE  ServeInv'
  <1>1. /\ process = slot /\ processing' = processing \ {slot}
        /\ UNCHANGED <<semProcess, semProcessPosted, semProcessSrc, stack,
                       level, wire, pendQuadsRegisterProcess, actuate,
                       pendingActiveQuadUpdtDone, halted>>
        /\ \/ pendingAck' = pendingAck \ {slot} /\ Served(slot)
           \/ process' = next /\ UNCHANGED <<pendingAck, restoreProcess>>
    BY DEF RefuseSuspended, Taken, Acked, processFrame, tableOnly, postVars,
           irqVars, quadVars
  <1>2. slot \in PassLabels /\ Current(slot) = {}
    BY LabelFacts
  <1>3. CASE pendingAck' = pendingAck \ {slot} /\ Served(slot)
    BY <1>1, <1>2, <1>3, ServeServed
  <1>4. CASE process' = next /\ UNCHANGED <<pendingAck, restoreProcess>>
    BY <1>1, <1>4, ServeTakes
  <1> QED BY <1>1, <1>3, <1>4

(* WOF is switched on or off, and a quad that waited is answered.          *)
LEMMA ServeWofCtrl2 ==
    ASSUME ServeInv, halted = "no", WofCtrl2
    PROVE  ServeInv'
  <1>1. /\ process = "WOF_CTRL_2"
        /\ UNCHANGED <<semProcess, semProcessPosted, semProcessSrc, stack,
                       level, wire, pendQuadsRegisterProcess, actuate,
                       halted, processing>>
        /\ pendingAck' \subseteq pendingAck
        /\ pendingActiveQuadUpdtDone => pendingActiveQuadUpdtDone'
        /\ \/ Served("WOF_CTRL")
           \/ /\ process' = "CTRL_STOP"
              /\ UNCHANGED <<pendingAck, restoreProcess,
                             pendingActiveQuadUpdtDone>>
    BY DEF WofCtrl2, Acked, WofOff, processFrame, postVars, irqVars
  <1>2. /\ InPass /\ {"WOF_CTRL"} \intersect processing = {}
        /\ "WOF_CTRL" \in Slots
    BY <1>1, Currents, SlotNames DEF InPass, PassLabels, ServeInv, Passes
  <1>3. CASE Served("WOF_CTRL")
    <2>1. processing' = processing \ {"WOF_CTRL"}
      BY <1>1, <1>2
    <2> QED BY <1>1, <1>2, <1>3, <2>1, Positions, Currents, ServeServed
        DEF InPass
  <1>4. CASE /\ process' = "CTRL_STOP"
             /\ UNCHANGED <<pendingAck, restoreProcess,
                            pendingActiveQuadUpdtDone>>
    <2>1. InPass' /\ process' \in PassLabels \ Slots
      BY <1>4, SlotNames DEF InPass, PassLabels
    <2>2. Passes'
      BY <1>1, <1>2, <1>4, <2>1, Positions, Currents
         DEF ServeInv, Passes, PassedBy, Skipped
    <2>3. Sources'
      BY <1>1, <1>2, <1>4, <2>1, Currents DEF ServeInv, Sources, Unserved
    <2> QED BY <1>1, <1>2, <1>4, <2>1, <2>2, <2>3, ServePass
  <1> QED BY <1>1, <1>3, <1>4

(* The SGPE answers CTRL_STOP_UPDT or the PGPE halts.                      *)
LEMMA ServeCtrlStopWait ==
    ASSUME ServeInv, halted = "no", CtrlStopWait
    PROVE  ServeInv'
  <1>1. CASE Halt("CTRL_STOP_UPDT_BAD_ACK")
    BY <1>1, ServeOutside DEF Halt, tableVars, quadVars, postVars, irqVars,
       processVars, actuateVars, ServeInv, Shape
  <1>2. CASE ~Halt("CTRL_STOP_UPDT_BAD_ACK")
    <2>1. /\ process = "CTRL_STOP"
          /\ UNCHANGED <<semProcess, semProcessPosted, semProcessSrc, stack,
                       level, wire, pendQuadsRegisterProcess, actuate,
                       halted, processing, pendingAck,
                       pendingActiveQuadUpdtDone>>
          /\ Served("WOF_CTRL")
      BY <1>2 DEF CtrlStopWait, processFrame, postVars, irqVars, tableVars
    <2>2. /\ InPass /\ {"WOF_CTRL"} \intersect processing = {}
          /\ "WOF_CTRL" \in Slots
      BY <2>1, Currents, SlotNames DEF InPass, PassLabels, ServeInv, Passes
    <2>3. processing' = processing \ {"WOF_CTRL"}
      BY <2>1, <2>2
    <2> QED BY <2>1, <2>2, <2>3, Positions, Currents, ServeServed DEF InPass
  <1> QED BY <1>1, <1>2

(* Updates of cores and quads by the SGPE.                                 *)
LEMMA ServeUpdates ==
    ASSUME ServeInv, halted = "no",
           \/ UpdtActiveCores \/ UpdtActiveQuads \/ SetPmcrReq \/ AckSgpe
    PROVE  ServeInv'
  <1>1. /\ process \in {"CORES", "QUADS", "SET_PMCR"} \union AckSlots
        /\ processing' = processing \ {process}
        /\ UNCHANGED <<semProcess, semProcessPosted, semProcessSrc, stack,
                       level, wire, pendQuadsRegisterProcess, actuate,
                       halted>>
        /\ pendingAck' \subseteq pendingAck
        /\ Served(process)
        /\ process = "QUADS" \/ UNCHANGED pendingActiveQuadUpdtDone
    BY DEF UpdtActiveCores, UpdtActiveQuads, SetPmcrReq, AckSgpe, Taken, Acked,
           processFrame, tableOnly, postVars, irqVars, quadVars
  <1>2. process \in Slots /\ process \in PassLabels /\ Current(process) = {}
    BY <1>1, SlotNames, LabelFacts DEF AckSlots
  <1>3. PICK slot \in Slots : slot = process
    BY <1>2
  <1> QED BY <1>1, <1>2, <1>3, ServeServed

(* START_STOP is taken up only between two updates of the quads.           *)
LEMMA ServeStartStop ==
    ASSUME ServeInv, halted = "no", StartStop
    PROVE  ServeInv'
  <1>1. /\ process = "START_STOP"
        /\ UNCHANGED <<semProcess, semProcessPosted, semProcessSrc, stack,
                       level, wire, pendQuadsRegisterProcess, actuate,
                       pendingActiveQuadUpdtDone, halted>>
        /\ \/ /\ processing' = processing \ {"START_STOP"}
              /\ pendingAck' \subseteq pendingAck
              /\ Served("START_STOP")
           \/ /\ process' = "START_STOP_2"
              /\ UNCHANGED <<processing, pendingAck, restoreProcess>>
    BY DEF StartStop, Taken, Acked, processFrame, tableOnly, postVars,
           irqVars, quadVars, tableVars
  <1>2. /\ process \in Slots /\ process \in PassLabels /\ InPass
        /\ Current(process) = {}
    BY <1>1, SlotNames, LabelFacts DEF InPass
  <1>3. CASE /\ processing' = processing \ {"START_STOP"}
             /\ pendingAck' \subseteq pendingAck
             /\ Served("START_STOP")
    BY <1>1, <1>2, <1>3, ServeServed
  <1>4. CASE /\ process' = "START_STOP_2"
             /\ UNCHANGED <<processing, pendingAck, restoreProcess>>
    <2>1. InPass' /\ process' \in PassLabels \ Slots
      BY <1>4, SlotNames DEF InPass, PassLabels
    <2>2. Passes'
      BY <1>1, <1>2, <1>4, <2>1, Positions, Currents
         DEF ServeInv, Passes, PassedBy, Skipped
    <2>3. Sources'
      BY <1>1, <1>2, <1>4, <2>1, Currents DEF ServeInv, Sources, Unserved
    <2> QED BY <1>1, <1>2, <1>4, <2>1, <2>2, <2>3, ServePass
  <1> QED BY <1>1, <1>3, <1>4

(* Pstates stop, or begin to start.                                        *)
LEMMA ServeStartStop2 ==
    ASSUME ServeInv, halted = "no", StartStop2
    PROVE  ServeInv'
  <1>1. /\ process = "START_STOP_2"
        /\ UNCHANGED <<semProcess, semProcessPosted, semProcessSrc, stack,
                       level, wire, pendQuadsRegisterProcess, actuate, halted>>
        /\ pendingActiveQuadUpdtDone => pendingActiveQuadUpdtDone'
        /\ \/ /\ processing' = processing \ {"START_STOP"}
              /\ pendingAck' \subseteq pendingAck
              /\ Served("START_STOP")
           \/ /\ process' = "STARTING"
              /\ UNCHANGED <<processing, pendingAck, restoreProcess,
                             pendingActiveQuadUpdtDone>>
    BY DEF StartStop2, Taken, Acked, PstateStop, WofOff, processFrame,
           postVars, irqVars, tableVars
  <1>2. /\ process \in PassLabels /\ InPass /\ "START_STOP" \in Slots
        /\ Current(process) = {}
    BY <1>1, SlotNames, Currents DEF InPass, PassLabels
  <1>3. CASE /\ processing' = processing \ {"START_STOP"}
             /\ pendingAck' \subseteq pendingAck
             /\ Served("START_STOP")
    BY <1>1, <1>2, <1>3, Positions, ServeServed
  <1>4. CASE /\ process' = "STARTING"
             /\ UNCHANGED <<processing, pendingAck, restoreProcess,
                            pendingActiveQuadUpdtDone>>
    <2>1. InPass' /\ process' \in PassLabels \ Slots
      BY <1>4, SlotNames DEF InPass, PassLabels
    <2>2. Passes'
      BY <1>1, <1>2, <1>4, <2>1, Positions, Currents
         DEF ServeInv, Passes, PassedBy, Skipped
    <2>3. Sources'
      BY <1>1, <1>2, <1>4, <2>1, Currents DEF ServeInv, Sources, Unserved
    <2> QED BY <1>1, <1>2, <1>4, <2>1, <2>2, <2>3, ServePass
  <1> QED BY <1>1, <1>3, <1>4

(* The actuate thread is posted, and the start answered.                   *)
LEMMA ServeStarted ==
    ASSUME ServeInv, halted = "no", Started
    PROVE  ServeInv'
  <1>1. CASE Halt("SEMAPHORE_OVERFLOW")
    BY <1>1, ServeOutside DEF Halt, tableVars, quadVars, postVars, irqVars,
       processVars, actuateVars, ServeInv, Shape
  <1>2. CASE ~Halt("SEMAPHORE_OVERFLOW")
    <2>1. /\ process = "STARTING"
          /\ UNCHANGED <<semProcess, semProcessPosted, semProcessSrc, stack,
                       level, wire, pendQuadsRegisterProcess,
                       pendingActiveQuadUpdtDone, halted>>
          /\ actuate' \in {actuate, "loop"}
          /\ processing' = processing \ {"START_STOP"}
          /\ pendingAck' \subseteq pendingAck
          /\ Served("START_STOP")
      BY <1>2 DEF Started, PostActuate, Taken, Acked, processFrame, postVars,
         irqVars, quadVars
    <2>2. /\ process \in PassLabels /\ "START_STOP" \in Slots
          /\ Current(process) = {}
      BY <2>1, SlotNames, Currents DEF PassLabels
    <2> QED BY <2>1, <2>2, Positions, ServeServed
  <1> QED BY <1>1, <1>2

(* Clips and VFRTs, which may be left to the actuate thread.               *)
LEMMA ServeSecondLooks ==
    ASSUME ServeInv, halted = "no", ClipUpdt2 \/ WofVfrt2
    PROVE  ServeInv'
  <1>1. PICK slot \in {"CLIP", "VFRT"} :
           /\ process = (IF slot = "CLIP" THEN "CLIP_2" ELSE "VFRT_2")
           /\ UNCHANGED <<semProcess, semProcessPosted, semProcessSrc, stack,
                       level, wire, pendQuadsRegisterProcess, actuate,
                       pendingActiveQuadUpdtDone, halted, processing>>
           /\ pendingAck' \subseteq pendingAck
           /\ Served(slot)
    <2>1. CASE ClipUpdt2
      BY <2>1 DEF ClipUpdt2, Acked, processFrame, postVars, irqVars, quadVars
    <2>2. CASE WofVfrt2
      BY <2>2 DEF WofVfrt2, Acked, processFrame, postVars, irqVars, quadVars
    <2> QED BY <2>1, <2>2
  <1>2. /\ process \in PassLabels /\ InPass /\ slot \in Slots
        /\ Current(process) = {slot} /\ Position(process) = Position(slot)
    BY <1>1, SlotNames, Positions, Currents DEF InPass, PassLabels
  <1>3. processing' = processing \ {slot}
    BY <1>1, <1>2 DEF ServeInv, Passes
  <1> QED BY <1>1, <1>2, <1>3, ServeServed

(* The end of a pass: quads register.                                      *)
LEMMA ServeRegistration ==
    ASSUME ServeInv, halted = "no", Registration
    PROVE  ServeInv'
  <1>1. /\ process = "REGISTER" /\ process' = "done"
        /\ pendQuadsRegisterProcess' = {}
        /\ UNCHANGED <<semProcess, semProcessPosted, semProcessSrc, stack,
                       level, wire, actuate, restoreProcess, processing,
                       pendingAck, pendingActiveQuadUpdtDone, halted>>
    BY DEF Registration, tableVars, postVars, irqVars, actuateVars
  <1>2. InPass /\ InPass' /\ process' \in PassLabels
    BY <1>1, LabelFacts DEF InPass
  <1>3. Passes'
    BY <1>1, <1>2, Positions, LabelFacts, SlotNames
       DEF ServeInv, Passes, PassedBy, Skipped
  <1>4. Sources'
    BY <1>1, <1>2, LabelFacts DEF ServeInv, Sources, Unserved
  <1> QED BY <1>1, <1>2, <1>3, <1>4, ServePass

-----------------------------------------------------------------------------
(* The mask stack.                                                         *)

(* The mask stack as sequences: a push on one entry.                       *)
LEMMA AppendSecond ==
    ASSUME NEW x \in Int, NEW y \in Int
    PROVE  Append(<<x>>, y) = <<x, y>>
  <1>1. Append(<<x>>, y) \in Seq(Int) /\ <<x, y>> \in Seq(Int)
    OBVIOUS
  <1>2. Len(Append(<<x>>, y)) = 2 /\ Len(<<x, y>>) = 2
    OBVIOUS
  <1>3. \A i \in 1 .. 2 : Append(<<x>>, y)[i] = <<x, y>>[i]
    OBVIOUS
  <1> QED BY <1>1, <1>2, <1>3, SeqEqual

(* What a push leaves.                                                     *)
LEMMA MaskIs ==
    ASSUME Mask(IPI2HI), level = IF stack = <<>> THEN DISABLED ELSE IPI2HI
    PROVE  /\ stack = <<>> => stack' = Once /\ level' = IPI2HI
           /\ stack = Once => stack' = Twice /\ level' = IPI2HI
  <1>1. CASE stack = <<>>
    BY <1>1 DEF Mask, Once, DISABLED, IPI2HI
  <1>2. CASE stack = Once
    BY <1>2, AppendSecond DEF Mask, Once, Twice, DISABLED, IPI2HI
  <1> QED BY <1>1, <1>2 DEF Mask, Once

(* What a pop leaves.                                                      *)
LEMMA RestoreIs ==
    /\ stack = Once /\ Restore(1) => stack' = <<>> /\ level' = DISABLED
    /\ stack = Twice /\ Restore(1) => stack' = Once /\ level' = IPI2HI
    /\ stack = Twice /\ Restore(2) => stack' = <<>> /\ level' = DISABLED
  <1>1. stack = Once /\ Restore(1) => stack' = <<>> /\ level' = DISABLED
    BY DEF Restore, Once, DISABLED
  <1>2. ASSUME stack = Twice, Restore(1)
        PROVE  stack' = Once /\ level' = IPI2HI
    <2>1. Twice \in Seq(Int) /\ Once \in Seq(Int) /\ Len(Once) = 1
          /\ Len(Twice) = 2 /\ Twice[1] = Once[1]
      BY DEF Once, Twice, DISABLED, IPI2HI
    <2>2. level' = IPI2HI /\ stack' = SubSeq(Twice, 1, 1)
      BY <1>2 DEF Restore, Twice
    <2>3. SubSeq(Twice, 1, 1) \in Seq(Int) /\ Len(SubSeq(Twice, 1, 1)) = 1
          /\ SubSeq(Twice, 1, 1)[1] = Twice[1]
      BY <2>1
    <2>4. SubSeq(Twice, 1, 1) = Once
      BY <2>1, <2>3, SeqEqual
    <2> QED BY <2>2, <2>4
  <1>3. stack = Twice /\ Restore(2) => stack' = <<>> /\ level' = DISABLED
    BY DEF Restore, Twice, DISABLED, IPI2HI
  <1> QED BY <1>1, <1>2, <1>3

(* No entry, one and two are different stacks.                             *)
LEMMA StacksDiffer ==
    /\ Once # <<>> /\ Twice # <<>> /\ Once # Twice
    /\ Len(<<>>) = 0 /\ Len(Once) = 1 /\ Len(Twice) = 2
  <1>1. Len(<<>>) = 0 /\ Len(Once) = 1 /\ Len(Twice) = 2
    BY DEF Once, Twice
  <1> QED BY <1>1, SMTT(60)

(* The mask stays where it is when nobody is in a section of its own.      *)
LEMMA OpenMeansEmpty ==
    ASSUME ServeInv, level > IPI2HI
    PROVE  stack = <<>> /\ level = DISABLED /\ ~InPass /\ ~Leaving /\ ~Closed
  <1>1. stack = <<>>
    BY DEF ServeInv, MaskStack, IPI2HI, DISABLED
  <1> QED BY <1>1, StacksDiffer DEF ServeInv, MaskStack

(* A post counts once, or is lost while the count is one.                  *)
LEMMA PostedIs ==
    ASSUME ServeInv, ~InPass, PostProcess
    PROVE  /\ Posts' /\ ~InPass'
           /\ process' = "woken" \/ (process' = "top" /\ semProcess' = 1)
  <1>1. process \in {"top", "pend", "woken"}
    BY DEF ServeInv, Shape, InPass
  <1>2. process' = "woken" \/ (process' = "top" /\ semProcess' = 1)
    BY <1>1 DEF PostProcess, ServeInv, Posts
  <1>3. ~InPass'
    BY <1>2, LabelFacts DEF InPass
  <1>4. Posts'
    <2>1. semProcess \in {0, 1} /\ semProcessPosted \in BOOLEAN
      BY DEF ServeInv, Posts
    <2>2. CASE semProcessPosted
      <3>1. UNCHANGED <<semProcessPosted, semProcess, process>>
        BY <2>2 DEF PostProcess
      <3> QED BY <3>1, <1>3 DEF ServeInv, Posts, InPass
    <2>3. CASE ~semProcessPosted
      <3>1. semProcessPosted'
        BY <2>3 DEF PostProcess
      <3>2. semProcessPosted' \in BOOLEAN
        BY <2>3 DEF PostProcess
      <3>3. /\ process' = "woken" => semProcess' = 0
            /\ semProcess' \in {0, 1}
        BY <1>1, <2>1, <2>3 DEF PostProcess, ServeInv, Posts
      <3> QED BY <1>2, <1>3, <3>1, <3>2, <3>3 DEF Posts
    <2> QED BY <2>2, <2>3
  <1> QED BY <1>2, <1>3, <1>4

(* The handlers: each leaves the stack it found, or one entry and a post.  *)
LEMMA ServeIpcInterrupt ==
    ASSUME ServeInv, halted = "no", IpcInterrupt
    PROVE  ServeInv'
  <1>1. stack = <<>> /\ level = DISABLED /\ ~InPass /\ ~Leaving /\ ~Closed
    BY OpenMeansEmpty DEF IpcInterrupt
  <1>2. /\ pendingAck' = pendingAck \union (wire \intersect RequestSlots)
        /\ processing' = processing \union (wire \ (wire \intersect pendingAck))
        /\ wire' = {} /\ PostProcess /\ Mask(IPI2HI)
        /\ semProcessSrc' = semProcessSrc \union {"IPI2"}
        /\ UNCHANGED <<actuate, halted>>
    BY DEF IpcInterrupt, actuateVars
  <1>3. /\ Posts' /\ ~InPass' /\ process' \in {"top", "woken"}
        /\ process' = "woken" \/ (process' = "top" /\ semProcess' = 1)
    BY <1>1, <1>2, PostedIs
  <1>4. stack' = Once /\ level' = IPI2HI /\ ~Leaving'
    BY <1>1, <1>2, MaskIs DEF Leaving
  <1>5. Shape'
    BY <1>2, <1>3 DEF ServeInv, Shape
  <1>6. Passes' /\ AtRest'
    BY <1>3 DEF Passes, AtRest
  <1>7. MaskStack'
    BY <1>1, <1>2, <1>3, <1>4, StacksDiffer DEF MaskStack, Closed, Leaving
  <1>8. Sources'
    BY <1>1, <1>2, <1>3 DEF Sources, Unserved, Closed
  <1> QED BY <1>2, <1>3, <1>5, <1>6, <1>7, <1>8 DEF ServeInv

LEMMA ServeType4Interrupt ==
    ASSUME ServeInv, halted = "no", Type4Interrupt
    PROVE  ServeInv'
  <1>1. CASE Halt("UNEXPECTED_REGISTRATION")
    BY <1>1, ServeOutside DEF Halt, tableVars, quadVars, postVars, irqVars,
       processVars, actuateVars, ServeInv, Shape
  <1>2. CASE ~Halt("UNEXPECTED_REGISTRATION")
    <2>1. /\ PostProcess /\ semProcessSrc' = semProcessSrc \union {"TYPE4"}
          /\ UNCHANGED <<processing, pendingAck, stack, level, actuate,
                         halted, wire>>
          /\ level > TYPE4
      BY <1>2 DEF Type4Interrupt, tableVars, irqVars, actuateVars
    <2>2. stack = <<>> /\ level = DISABLED /\ ~InPass /\ ~Leaving /\ ~Closed
      BY <2>1, OpenMeansEmpty
         DEF ServeInv, MaskStack, TYPE4, IPI2HI, DISABLED
    <2>3. /\ Posts' /\ ~InPass' /\ process' \in {"top", "woken"}
          /\ process' = "woken" \/ (process' = "top" /\ semProcess' = 1)
      BY <2>1, <2>2, PostedIs
    <2>4. Shape' /\ Passes' /\ AtRest'
      BY <2>1, <2>3 DEF ServeInv, Shape, Passes, AtRest
    <2>5. ~Leaving' /\ ~Closed'
      BY <2>1, <2>2 DEF Leaving, Closed
    <2>6. MaskStack' /\ Sources'
      BY <2>1, <2>2, <2>3, <2>5 DEF ServeInv, MaskStack, Sources, Closed
    <2> QED BY <2>1, <2>3, <2>4, <2>6 DEF ServeInv
  <1> QED BY <1>1, <1>2

(* The pend, the wake and the end of the pass.                             *)
LEMMA ServeProcessPend ==
    ASSUME ServeInv, halted = "no", ProcessPend
    PROVE  ServeInv'
  <1>1. /\ process = "top"
        /\ \/ semProcess > 0 /\ semProcess' = semProcess - 1
              /\ process' = "woken"
           \/ ~(semProcess > 0) /\ semProcess' = semProcess
              /\ process' = "pend"
        /\ UNCHANGED <<processing, pendingAck, semProcessPosted, stack, level,
              semProcessSrc, actuate, halted, wire, restoreProcess,
              pendQuadsRegisterProcess, pendingActiveQuadUpdtDone>>
    BY DEF ProcessPend, tableVars, quadVars, irqVars, actuateVars
  <1>2. process' \in {"woken", "pend"} /\ ~InPass /\ ~InPass'
    BY <1>1, LabelFacts DEF InPass
  <1>3. Posts' /\ Shape' /\ Passes'
    BY <1>1, <1>2 DEF ServeInv, Posts, Shape, Passes
  <1>4. AtRest'
    BY <1>1, <1>2 DEF ServeInv, Posts, AtRest, Skipped
  <1>5. MaskStack'
    BY <1>1, <1>2 DEF ServeInv, MaskStack, Leaving, Closed
  <1>6. Sources'
    BY <1>1, <1>2 DEF ServeInv, Posts, Sources, Unserved
  <1> QED BY <1>1, <1>3, <1>4, <1>5, <1>6 DEF ServeInv

(* The thread wakes and begins its pass under a mask of its own.           *)
LEMMA ServeProcessWake ==
    ASSUME ServeInv, halted = "no", ProcessWake
    PROVE  ServeInv'
  <1>1. /\ process = "woken" /\ Mask(IPI2HI) /\ ~semProcessPosted'
        /\ semProcessPosted' \in BOOLEAN
        /\ restoreProcess' /\ process' = NextWork(0)
        /\ UNCHANGED <<processing, pendingAck, semProcess, semProcessSrc,
              actuate, halted, wire, pendQuadsRegisterProcess,
              pendingActiveQuadUpdtDone>>
    BY DEF ProcessWake, tableOnly, tableVars, quadVars
  <1>2. /\ process' \in Slots \union {"REGISTER", "done"}
        /\ process' \in Slots => Due(process')
        /\ \A s \in Slots : Due(s) /\ Position(s) > 0
                                => Position(s) >= Position(process')
        /\ process' = "done" => pendQuadsRegisterProcess' = {}
    BY <1>1, NextWorkIs
  <1>3. /\ process' \in PassLabels /\ Current(process') = {} /\ InPass'
        /\ process' \notin {"START_STOP_2", "STARTING", "top", "pend", "woken"}
        /\ ~InPass
    BY <1>1, <1>2, LabelFacts, SlotNames DEF InPass
  <1>4. PassedBy(process)'
    <2>1. ASSUME NEW s \in processing', Position(s) < Position(process')
          PROVE  Skipped(s)'
      <3>1. s \in Slots /\ s \in processing'
        BY <1>1 DEF ServeInv, Shape
      <3>2. ~Due(s)
        BY <1>2, <2>1, <3>1, OrderIs, PositionIsInt
      <3> QED BY <3>1, <3>2 DEF Due, Skipped
    <2> QED BY <2>1 DEF PassedBy
  <1>5. Passes'
    BY <1>2, <1>3, <1>4 DEF Passes, Due
  <1>6. Shape' /\ Posts' /\ AtRest'
    BY <1>1, <1>3 DEF ServeInv, Shape, Posts, AtRest
  <1>7. MaskStack'
    <2>1. ~Leaving /\ ~Leaving' /\ actuate' # "restore"
      BY <1>1 DEF ServeInv, MaskStack, Leaving
    <2>2. stack = Once \/ (stack = <<>> /\ ~Closed)
      BY <1>3, <2>1 DEF ServeInv, MaskStack
    <2>3. /\ stack = Once => stack' = Twice
          /\ stack = <<>> => stack' = Once
          /\ level' = IPI2HI
      BY <1>1, <2>2, MaskIs DEF ServeInv, MaskStack
    <2>4. Closed' = Closed
      BY <1>1 DEF Closed
    <2> QED BY <1>3, <2>1, <2>2, <2>3, <2>4, StacksDiffer DEF MaskStack
  <1>8. Sources'
    BY <1>1, <1>3 DEF ServeInv, Sources, Unserved
  <1> QED BY <1>1, <1>5, <1>6, <1>7, <1>8 DEF ServeInv

(* The pass pushed once; if the IPC interrupt started it and nothing is    *)
(* left over, what that interrupt pushed is still there.                   *)
LEMMA DonePops ==
    ASSUME ServeInv, halted = "no", ProcessDone
    PROVE  /\ process = "done" /\ process' = "top" /\ semProcessSrc' = {}
           /\ UNCHANGED <<processing, pendingAck, semProcess, semProcessPosted,
                 actuate, halted, wire, pendQuadsRegisterProcess,
                 pendingActiveQuadUpdtDone, restoreProcess>>
           /\ Opens => /\ stack = Twice /\ stack' = <<>> /\ level' = DISABLED
                       /\ pendingAck \intersect Closing = {}
           /\ ~Opens /\ stack = Twice => stack' = Once /\ level' = IPI2HI
           /\ ~Opens /\ stack = Once => stack' = <<>> /\ level' = DISABLED
           /\ stack = Twice \/ (stack = Once /\ ~Closed)
           /\ \A slot \in processing : Skipped(slot)
           /\ pendQuadsRegisterProcess = {}
  <1>1. process = "done" /\ InPass /\ Current(process) = {}
    BY LabelFacts DEF ProcessDone, InPass
  <1>2. stack = Twice \/ (stack = Once /\ ~Closed)
    BY <1>1 DEF ServeInv, MaskStack
  <1>3. /\ \A slot \in processing : Skipped(slot)
        /\ pendQuadsRegisterProcess = {}
    <2>1. ASSUME NEW s \in processing PROVE Skipped(s)
      <3>1. s \in Slots
        BY DEF ServeInv, Shape
      <3>2. Position(s) < Position("done")
        BY <3>1, OrderIs DEF Position
      <3> QED BY <1>1, <3>2 DEF ServeInv, Passes, PassedBy
    <2> QED BY <1>1, <2>1 DEF ServeInv, Passes
  <1>4. ASSUME Opens
        PROVE  stack = Twice /\ pendingAck \intersect Closing = {}
    <2>1. stack = Twice
      BY <1>2, <1>4 DEF Opens, Closed
    <2>2. pendingAck \intersect Closing \subseteq processing
      BY <1>1, <1>4 DEF ServeInv, Sources, Unserved, Opens
    <2> QED BY <1>3, <2>1, <2>2 DEF Skipped, Closing
  <1>5. ~(Len(stack) < IF Opens THEN 2 ELSE 1)
    BY <1>2, <1>4, StacksDiffer
  <1>6. /\ Restore(IF Opens THEN 2 ELSE 1)
        /\ semProcessSrc' = {} /\ process' = "top"
        /\ UNCHANGED <<processing, pendingAck, semProcess, semProcessPosted,
                 actuate, halted, wire, pendQuadsRegisterProcess,
                 pendingActiveQuadUpdtDone, restoreProcess>>
    BY <1>5 DEF ProcessDone, tableOnly, tableVars, quadVars
  <1>7. CASE Opens
    BY <1>1, <1>3, <1>4, <1>6, <1>7, RestoreIs, StacksDiffer
  <1>8. CASE ~Opens
    BY <1>1, <1>2, <1>3, <1>6, <1>8, RestoreIs, StacksDiffer
  <1> QED BY <1>7, <1>8

(* A pass ends, and the masks are as the interrupt found or left them.     *)
LEMMA ServeProcessDone ==
    ASSUME ServeInv, halted = "no", ProcessDone
    PROVE  ServeInv'
  <1>1. /\ process = "done" /\ process' = "top" /\ InPass /\ ~InPass'
        /\ ~Leaving /\ ~Leaving' /\ actuate' # "restore"
    BY DonePops, LabelFacts DEF InPass, ServeInv, MaskStack, Leaving
  <1>2. Shape' /\ Posts' /\ Passes'
    BY <1>1, DonePops DEF ServeInv, Shape, Posts, Passes
  <1>3. AtRest'
    BY DonePops DEF AtRest, Skipped
  <1>4. Sources'
    BY DonePops DEF Sources
  <1>5. MaskStack'
    <2>1. Closed' => Closed
      BY DonePops DEF Closed
    <2>2. Opens => ~Closed'
      BY <1>1, DonePops DEF Closed
    <2>3. /\ stack' \in {<<>>, Once}
          /\ level' = IF stack' = <<>> THEN DISABLED ELSE IPI2HI
          /\ stack' = Once \/ (stack' = <<>> /\ ~Closed')
      BY <2>1, <2>2, DonePops, StacksDiffer
    <2> QED BY <1>1, <2>3 DEF MaskStack
  <1> QED BY DonePops, <1>2, <1>3, <1>4, <1>5 DEF ServeInv

-----------------------------------------------------------------------------
(* The actuate thread, while the process thread waits.                     *)

(* Steps of the actuate thread that touch no mask and no table.            *)
LEMMA ServeActuate ==
    ASSUME ServeInv, process = "pend",
           UNCHANGED <<processing, process, restoreProcess, semProcess,
               semProcessPosted, semProcessSrc, pendQuadsRegisterProcess>>,
           wire' \subseteq Slots, pendingAck' \subseteq pendingAck,
           pendingActiveQuadUpdtDone => pendingActiveQuadUpdtDone',
           halted' # "STACK_UNDERFLOW", MaskStack'
    PROVE  ServeInv'
  <1>1. ~InPass /\ ~InPass' /\ "IPI2" \notin semProcessSrc
    BY LabelFacts DEF InPass, ServeInv, Sources
  <1>2. Shape' /\ Posts' /\ Passes' /\ Sources'
    BY <1>1 DEF ServeInv, Shape, Posts, Passes, Sources
  <1>3. AtRest'
    BY DEF ServeInv, AtRest, Skipped
  <1> QED BY <1>2, <1>3 DEF ServeInv

(* The thread moves the Pstate or goes to its semaphore.                   *)
LEMMA ServeActuateMoves ==
    ASSUME ServeInv, halted = "no", process = "pend",
           \/ ActuateTop \/ ActuatePend \/ DoStep
    PROVE  ServeInv'
  <1>1. /\ UNCHANGED <<processing, process, restoreProcess, semProcess, wire,
               semProcessPosted, semProcessSrc, pendQuadsRegisterProcess,
               pendingAck, pendingActiveQuadUpdtDone, halted, stack, level>>
        /\ {actuate, actuate'} \subseteq {"top", "pend", "loop", "step", "acks"}
    BY DEF ActuateTop, ActuatePend, DoStep, actuateFrame, requestVars,
           tableVars, quadVars, postVars, processVars, irqVars
  <1>2. MaskStack'
    BY <1>1 DEF ServeInv, MaskStack, InPass, Leaving, Closed
  <1> QED BY <1>1, <1>2, ServeActuate DEF ServeInv, Shape

(* It leaves the loop, by a flag or a fault.                               *)
LEMMA ServeActuateLoop ==
    ASSUME ServeInv, halted = "no", process = "pend", ActuateLoop
    PROVE  ServeInv'
  <1>1. /\ UNCHANGED <<processing, process, restoreProcess, semProcess, wire,
               semProcessPosted, semProcessSrc, pendQuadsRegisterProcess,
               pendingAck, pendingActiveQuadUpdtDone, halted>>
        /\ actuate = "loop"
        /\ \/ actuate' = "step" /\ UNCHANGED <<stack, level>>
           \/ actuate' = "leave" /\ Mask(IPI2HI)
    BY DEF ActuateLoop, actuateFrame, requestVars, tableVars, quadVars,
           postVars, processVars, irqVars
  <1>2. ~InPass /\ ~InPass' /\ ~Leaving
    BY <1>1, LabelFacts DEF InPass, Leaving
  <1>3. stack = Once \/ (stack = <<>> /\ ~Closed)
    BY <1>2 DEF ServeInv, MaskStack
  <1>4. CASE actuate' = "step" /\ UNCHANGED <<stack, level>>
    <2>1. ~Leaving' /\ (Closed' => Closed)
      BY <1>1, <1>4 DEF Leaving, Closed
    <2>2. MaskStack'
      BY <1>1, <1>2, <1>3, <1>4, <2>1 DEF ServeInv, MaskStack
    <2> QED BY <1>1, <2>2, ServeActuate DEF ServeInv, Shape
  <1>5. CASE actuate' = "leave" /\ Mask(IPI2HI)
    <2>1. Leaving' /\ (Closed' => Closed)
      BY <1>1, <1>5 DEF Leaving, Closed
    <2>2. /\ stack = Once => stack' = Twice
          /\ stack = <<>> => stack' = Once
          /\ level' = IPI2HI
      BY <1>3, <1>5, MaskIs DEF ServeInv, MaskStack
    <2>3. MaskStack'
      BY <1>1, <1>2, <1>3, <1>5, <2>1, <2>2, StacksDiffer DEF MaskStack
    <2> QED BY <1>1, <2>3, ServeActuate DEF ServeInv, Shape
  <1> QED BY <1>1, <1>4, <1>5

(* With one of the three answers the others go too: the mask is restored   *)
(* with none of them left.                                                 *)
LEMMA AcksAre ==
    ASSUME ActuateAcks
    PROVE  \E acked :
             /\ pendingAck' = pendingAck \ acked
             /\ Answer(acked) /\ acked \subseteq pendingAck
             /\ acked \subseteq Closing \union {"WOF_CTRL", "QUADS"}
             /\ acked # {} => InRange
             /\ \/ actuate' = "restore" /\ pendingAck' \intersect Closing = {}
                   /\ pendingAck \intersect Closing # {}
                \/ actuate' = "loop" /\ acked \intersect Closing = {}
  <1> DEFINE due == IF ~InRange THEN {} ELSE
                    pendingAck \intersect
                       ({"CLIP", "VFRT", "CORES"}
                        \union (IF wofStatus = "ENABLED" THEN {"WOF_CTRL"} ELSE {}))
             interlock == /\ {"VFRT", "QUADS"} \subseteq pendingAck
                          /\ InRange /\ MadeForRequested
             acked == due \union (IF interlock THEN {"QUADS"} ELSE {})
  <1>1. /\ pendingAck' = pendingAck \ acked
        /\ Answer(acked) /\ actuate' = AfterAcks(acked)
    BY DEF ActuateAcks
  <1>2. /\ acked \subseteq pendingAck
        /\ acked \subseteq Closing \union {"WOF_CTRL", "QUADS"}
        /\ acked # {} => InRange
    BY DEF Closing
  <1>3. acked # {} => pendingAck \intersect Closing \subseteq acked
    BY DEF Closing
  <1> HIDE DEF acked
  <1>4. \/ actuate' = "restore" /\ pendingAck' \intersect Closing = {}
           /\ pendingAck \intersect Closing # {}
        \/ actuate' = "loop" /\ acked \intersect Closing = {}
    BY <1>1, <1>2, <1>3 DEF AfterAcks, Closing
  <1> QED BY <1>1, <1>2, <1>4

(* It answers what is left to it, if the chip is in range.                 *)
LEMMA ServeActuateAcks ==
    ASSUME ServeInv, halted = "no", process = "pend", ActuateAcks
    PROVE  ServeInv'
  <1>1. /\ UNCHANGED <<processing, process, restoreProcess, semProcess, wire,
               semProcessPosted, semProcessSrc, pendQuadsRegisterProcess,
               halted, stack, level>>
        /\ actuate = "acks"
        /\ pendingActiveQuadUpdtDone => pendingActiveQuadUpdtDone'
    BY DEF ActuateAcks, actuateFrame, postVars, processVars, irqVars
  <1>2. /\ pendingAck' \subseteq pendingAck
        /\ \/ actuate' = "restore" /\ pendingAck' \intersect Closing = {}
              /\ pendingAck \intersect Closing # {}
           \/ actuate' = "loop"
    BY AcksAre
  <1>3. ~InPass /\ ~InPass' /\ ~Leaving /\ ~Leaving'
    BY <1>1, <1>2, LabelFacts DEF InPass, Leaving
  <1>4. Closed' => Closed
    BY <1>1, <1>2 DEF Closed
  <1>5. MaskStack'
    BY <1>1, <1>2, <1>3, <1>4 DEF ServeInv, MaskStack
  <1> QED BY <1>1, <1>2, <1>5, ServeActuate DEF ServeInv, Shape

(* It restores the mask that the answered slots had closed.                *)
LEMMA ServeActuateRestore ==
    ASSUME ServeInv, halted = "no", process = "pend", ActuateRestore
    PROVE  ServeInv'
  <1>1. actuate = "restore" /\ ~InPass /\ ~Leaving /\ Closed
        /\ pendingAck \intersect Closing = {}
        /\ "IPI2" \notin semProcessSrc
    BY LabelFacts
       DEF ActuateRestore, ServeInv, MaskStack, Sources, InPass, Leaving, Closed
  <1>2. stack = Once
    BY <1>1 DEF ServeInv, MaskStack
  <1>3. /\ UNCHANGED <<processing, process, restoreProcess, semProcess, wire,
               semProcessPosted, semProcessSrc, pendQuadsRegisterProcess,
               pendingAck, pendingActiveQuadUpdtDone, halted>>
        /\ actuate' = "loop" /\ Restore(1)
    BY <1>2, StacksDiffer DEF ActuateRestore, actuateFrame, requestVars,
       tableVars, quadVars, postVars, processVars
  <1>4. stack' = <<>> /\ level' = DISABLED
    BY <1>2, <1>3, RestoreIs
  <1>5. ~InPass' /\ ~Leaving' /\ ~Closed'
    BY <1>1, <1>3 DEF InPass, Leaving, Closed
  <1>6. MaskStack'
    BY <1>3, <1>4, <1>5 DEF MaskStack
  <1> QED BY <1>3, <1>6, ServeActuate DEF ServeInv, Shape

(* Its own section.                                                        *)
LEMMA ServeSection ==
    ASSUME ServeInv, halted = "no", process = "pend",
           Leave \/ SafeMode \/ Suspend
    PROVE  ServeInv'
  <1>1. /\ UNCHANGED <<processing, process, restoreProcess, semProcess,
               semProcessPosted, semProcessSrc, pendQuadsRegisterProcess,
               pendingActiveQuadUpdtDone, halted, stack, level>>
        /\ pendingAck' \subseteq pendingAck
        /\ actuate \in {"leave", "safe", "suspend"}
        /\ actuate' \in {"safe", "suspend", "stop"}
    BY DEF Leave, SafeMode, Suspend, AckOnFault, actuateFrame, requestVars,
           tableVars, quadVars, postVars, processVars, irqVars
  <1>2. wire' \subseteq Slots
    BY SlotNames DEF Leave, SafeMode, Suspend, actuateFrame, ServeInv, Shape
  <1>3. ~InPass /\ ~InPass' /\ Leaving /\ Leaving' /\ (Closed' => Closed)
    BY <1>1, LabelFacts DEF InPass, Leaving, Closed
  <1>4. MaskStack'
    BY <1>1, <1>3 DEF ServeInv, MaskStack
  <1> QED BY <1>1, <1>2, <1>4, ServeActuate

(* It stops the Pstates and restores the mask it pushed.                   *)
LEMMA ServeStop ==
    ASSUME ServeInv, halted = "no", process = "pend", Stop
    PROVE  ServeInv'
  <1>1. /\ UNCHANGED <<processing, process, restoreProcess, semProcess, wire,
               semProcessPosted, semProcessSrc, pendQuadsRegisterProcess,
               halted>>
        /\ pendingAck' \subseteq pendingAck
        /\ pendingActiveQuadUpdtDone => pendingActiveQuadUpdtDone'
        /\ actuate = "stop" /\ actuate' = "top" /\ Restore(1)
    BY DEF Stop, PstateStop, WofOff, actuateFrame, postVars, processVars
  <1>2. ~InPass /\ ~InPass' /\ Leaving /\ ~Leaving' /\ (Closed' => Closed)
    BY <1>1, LabelFacts DEF InPass, Leaving, Closed
  <1>3. stack = Twice \/ (stack = Once /\ ~Closed)
    BY <1>2 DEF ServeInv, MaskStack
  <1>4. /\ stack = Twice => stack' = Once /\ level' = IPI2HI
        /\ stack = Once => stack' = <<>> /\ level' = DISABLED
    BY <1>1, RestoreIs
  <1>5. MaskStack'
    BY <1>1, <1>2, <1>3, <1>4, StacksDiffer DEF MaskStack
  <1> QED BY <1>1, <1>5, ServeActuate DEF ServeInv, Shape

-----------------------------------------------------------------------------
(* Flags, faults, and the two senders.                                     *)

(* The timer tick reads the flags of the OCC.                              *)
LEMMA ServeOccflgRequests ==
    ASSUME ServeInv, halted = "no", HandleOccflgRequests
    PROVE  ServeInv'
  <1>1. /\ UNCHANGED <<processing, process, restoreProcess, semProcess,
               semProcessPosted, semProcessSrc, stack, level, wire,
               pendQuadsRegisterProcess, pendingAck,
               pendingActiveQuadUpdtDone>>
        /\ actuate' = actuate \/ (actuate = "pend" /\ actuate' = "loop")
        /\ halted' # "STACK_UNDERFLOW"
    BY DEF HandleOccflgRequests, Halt, PostActuate, tableVars, quadVars,
           postVars, irqVars, processVars, actuateVars
  <1> QED BY <1>1, ServeOutside DEF ServeInv, Shape

(* A fault stops the Pstates, or is answered at once.                      *)
LEMMA ServeErrorInterrupt ==
    ASSUME ServeInv, halted = "no", NEW f \in Faults, ErrorInterrupt(f)
    PROVE  ServeInv'
  <1>1. /\ UNCHANGED <<processing, process, restoreProcess, semProcess,
               semProcessPosted, semProcessSrc, stack, level, wire, actuate,
               pendQuadsRegisterProcess, pendingActiveQuadUpdtDone, halted>>
        /\ pendingAck' \subseteq pendingAck
    BY DEF ErrorInterrupt, AckOnFault, postVars, irqVars, processVars,
           actuateVars
  <1> QED BY <1>1, ServeOutside DEF ServeInv, Shape

(* What the OCC and the SGPE do.                                           *)
PartnersStep ==
    \/ \E slot \in OccSlots : OccSend(slot)
    \/ \E f \in Flags : OccFlag(f)
    \/ SgpeRequests \/ SgpeThread \/ SgpeHandlers

(* The OCC and the SGPE put their messages on the wire.                    *)
LEMMA PartnersAre ==
    ASSUME PartnersStep
    PROVE  /\ UNCHANGED <<statusVars, wofVars, distance, tableVars, quadVars,
                 activeCores, pendQuadsRegisterProcess, postVars, irqVars,
                 processVars, actuateVars, halted>>
           /\ \/ \E slot \in RequestSlots : Send(slot)
              \/ wire' = wire \union {"ACK_CTRL"} /\ UNCHANGED outstanding
              \/ wire' = wire \union {"ACK_SUSP"} /\ UNCHANGED outstanding
                 /\ "SUSPEND" \in toSgpe
              \/ UNCHANGED <<wire, outstanding>>
           /\ toSgpe' \subseteq toSgpe /\ UNCHANGED twice
           /\ Flags = {} => UNCHANGED occflg
  <1>1. CASE \E slot \in OccSlots : OccSend(slot)
    BY <1>1 DEF OccSend, pgpeVars, RequestSlots
  <1>2. CASE \E f \in Flags : OccFlag(f)
    BY <1>2 DEF OccFlag, pgpeVars, answerVars
  <1>3. CASE SgpeRequests
    BY <1>3, SlotNames DEF SgpeRequests, QuadsNotify, CoresSend, pgpeVars
  <1>4. CASE SgpeThread
    BY <1>4, SlotNames DEF SgpeThread, QuadsPoll, QuadsDone, pgpeVars,
       answerVars
  <1>5. CASE SgpeHandlers
    BY <1>5 DEF SgpeHandlers, CoresPoll, AnswerCtrl, AnswerSuspend, pgpeVars,
       answerVars
  <1> QED BY <1>1, <1>2, <1>3, <1>4, <1>5 DEF PartnersStep

(* So they keep ServeInv.                                                  *)
LEMMA ServePartners ==
    ASSUME ServeInv, halted = "no", PartnersStep
    PROVE  ServeInv'
  <1>1. wire' \subseteq Slots
    BY PartnersAre, SlotNames DEF Send, ServeInv, Shape
  <1>2. UNCHANGED <<processing, pendingAck, pendingActiveQuadUpdtDone,
           pendQuadsRegisterProcess, semProcess, semProcessPosted,
           semProcessSrc, stack, level, process, restoreProcess, actuate,
           halted>>
    BY PartnersAre DEF tableVars, quadVars, postVars, irqVars, processVars,
       actuateVars
  <1> QED BY <1>1, <1>2, ServeOutside

-----------------------------------------------------------------------------
(* The initial states.                                                     *)
LEMMA ServeInit ==
    ASSUME Init PROVE ServeInv
  <1>1. ~InPass /\ ~Leaving /\ ~Closed
    BY LabelFacts DEF Init, InPass, Leaving, Closed
  <1> QED BY <1>1 DEF Init, ServeInv, Shape, Posts, Passes, AtRest, MaskStack,
                      Sources

(* The cases together.                                                     *)
LEMMA ServeProcess ==
    ASSUME ServeInv, halted = "no", ProcessThread
    PROVE  ServeInv'
  <1>1. /\ {"WOF_CTRL", "CLIP", "VFRT"} \subseteq Slots
        /\ {"WOF_CTRL_2", "CLIP_2", "VFRT_2"} \subseteq PassLabels \ Slots
    BY SlotNames DEF PassLabels
  <1>2. CASE WofCtrl
    BY <1>1, <1>2, Positions, Currents, ServeRefuse DEF WofCtrl
  <1>3. CASE ClipUpdt
    BY <1>1, <1>3, Positions, Currents, ServeRefuse DEF ClipUpdt
  <1>4. CASE WofVfrt
    BY <1>1, <1>4, Positions, Currents, ServeRefuse DEF WofVfrt
  <1> QED
    BY <1>2, <1>3, <1>4, ServeProcessPend, ServeProcessWake, ServeProcessDone,
       ServeWofCtrl2, ServeCtrlStopWait, ServeUpdates, ServeStartStop,
       ServeStartStop2, ServeStarted, ServeSecondLooks, ServeRegistration
    DEF ProcessThread

LEMMA ServeActuateThread ==
    ASSUME ServeInv, halted = "no", ActuateThread
    PROVE  ServeInv'
  <1>1. process = "pend"
    BY DEF ActuateThread, ActuateMay
  <1> QED
    BY <1>1, ServeActuateMoves, ServeActuateLoop, ServeActuateAcks,
       ServeActuateRestore, ServeSection, ServeStop DEF ActuateThread

(* ServeInv is inductive, for all constants.                               *)
LEMMA ServeNext ==
    ASSUME ServeInv, [Next]_<<vars, scenario>>
    PROVE  ServeInv'
  <1>1. CASE UNCHANGED <<vars, scenario>>
    BY <1>1, ServeOutside DEF vars, tableVars, quadVars, postVars, irqVars,
       processVars, actuateVars, ServeInv, Shape
  <1>2. CASE Next
    <2>1. halted = "no"
      BY <1>2 DEF Next
    <2> QED
      BY <1>2, <2>1, ServeIpcInterrupt, ServeType4Interrupt,
         ServeOccflgRequests, ServeErrorInterrupt, ServeProcess,
         ServeActuateThread, ServePartners DEF Next, PartnersStep
  <1> QED BY <1>1, <1>2

(* Whatever the OCC asks and whatever fails, the process thread never      *)
(* waits with a request in its table that it has not looked at, but for a  *)
(* START_STOP that the quads hold up (p9_pgpe_thread_process_requests).    *)
THEOREM NothingIsForgotten == Spec => []NothingForgotten
  <1>1. Init => ServeInv
    BY ServeInit
  <1>2. ServeInv /\ [Next]_<<vars, scenario>> => ServeInv'
    BY ServeNext
  <1>3. ServeInv => NothingForgotten
    BY DEF ServeInv, AtRest, NothingForgotten, Skipped
  <1> QED BY <1>1, <1>2, <1>3, PTL DEF Spec

(* The interrupt masks that are pushed are popped once: whatever the OCC   *)
(* asks and whatever fails, pk_irq_vec_restore finds what it pops          *)
(* (p9_pgpe_irq.h of the pgpe, the panic of pk_irq_vec_restore).           *)
THEOREM MasksAreBalanced == Spec => [](halted # "STACK_UNDERFLOW")
  <1>1. Init => ServeInv
    BY ServeInit
  <1>2. ServeInv /\ [Next]_<<vars, scenario>> => ServeInv'
    BY ServeNext
  <1>3. ServeInv => halted # "STACK_UNDERFLOW"
    BY DEF ServeInv
  <1> QED BY <1>1, <1>2, <1>3, PTL DEF Spec

-----------------------------------------------------------------------------
(* WOF and the status of the Pstates.                                      *)

(* Nothing is enabled at first.                                            *)
LEMMA WofInit ==
    ASSUME Init PROVE WofInv
  BY DEF Init, WofInv, WofOnlyWhileStarted

(* A step that starts no wait for the SGPE, stops no Pstates and enables   *)
(* no WOF.                                                                 *)
LEMMA WofKeeps ==
    ASSUME WofInv, wofStatus' \in {wofStatus, "DISABLED"},
           pstatesStatus' = pstatesStatus \/ pstatesStatus' \notin NotStarted,
           process' \in PassLabels \union {"top", "pend", "woken"},
           process' # "CTRL_STOP" \/ process' = process
    PROVE  WofInv'
  BY DEF WofInv, WofOnlyWhileStarted

(* A served slot leads to the next one.                                    *)
LEMMA ServedGoesOn ==
    ASSUME NEW slot \in Slots, Served(slot)
    PROVE  process' \in PassLabels /\ process' # "CTRL_STOP"
  BY PlaceIs, NextWorkIs, SlotNames DEF Served, PassLabels

(* The process thread enables WOF only while Pstates are active.           *)
LEMMA WofProcess ==
    ASSUME WofInv, ProcessThread
    PROVE  WofInv'
  <1>1. CASE ProcessPend
    BY <1>1, WofKeeps DEF ProcessPend, statusVars, wofVars
  <1>2. CASE ProcessWake
    BY <1>2, WofKeeps, NextWorkIs, SlotNames
       DEF ProcessWake, tableOnly, statusVars, wofVars, PassLabels
  <1>3. CASE ProcessDone
    BY <1>3, WofKeeps
       DEF ProcessDone, Halt, tableOnly, statusVars, wofVars, processVars,
           WofInv
  <1>4. CASE WofCtrl \/ ClipUpdt \/ WofVfrt
    BY <1>4, WofKeeps, ServedGoesOn, SlotNames
       DEF WofCtrl, ClipUpdt, WofVfrt, RefuseSuspended, tableOnly, statusVars,
           wofVars, PassLabels
  <1>5. CASE WofCtrl2
    <2>1. /\ UNCHANGED pstatesStatus
          /\ \/ Served("WOF_CTRL") /\ wofStatus' \in {wofStatus, "DISABLED"}
             \/ Served("WOF_CTRL") /\ pstatesStatus \notin NotStarted
             \/ /\ process' = "CTRL_STOP" /\ UNCHANGED wofStatus
                /\ pstatesStatus \notin NotStarted
      BY <1>5 DEF WofCtrl2, WofOff, statusVars, wofVars
    <2>2. Served("WOF_CTRL") => process' \in PassLabels /\ process' # "CTRL_STOP"
      BY ServedGoesOn, SlotNames
    <2> QED BY <2>1, <2>2 DEF WofInv, WofOnlyWhileStarted, PassLabels
  <1>6. CASE CtrlStopWait
    <2>1. /\ process = "CTRL_STOP" /\ UNCHANGED pstatesStatus
          /\ \/ Served("WOF_CTRL")
             \/ UNCHANGED <<process, wofStatus>>
      BY <1>6 DEF CtrlStopWait, Halt, statusVars, wofVars, processVars
    <2>2. Served("WOF_CTRL") => process' \in PassLabels /\ process' # "CTRL_STOP"
      BY ServedGoesOn, SlotNames
    <2> QED BY <2>1, <2>2 DEF WofInv, WofOnlyWhileStarted
  <1>7. CASE UpdtActiveCores \/ UpdtActiveQuads
    BY <1>7, WofKeeps, ServedGoesOn, SlotNames
       DEF UpdtActiveCores, UpdtActiveQuads, statusVars, wofVars
  <1>8. CASE StartStop
    BY <1>8, WofKeeps, ServedGoesOn, SlotNames
       DEF StartStop, tableOnly, statusVars, wofVars, PassLabels
  <1>9. CASE StartStop2
    <2>1. \/ process' = "STARTING" /\ UNCHANGED <<pstatesStatus, wofStatus>>
          \/ Served("START_STOP") /\ wofStatus' = "DISABLED"
          \/ Served("START_STOP") /\ UNCHANGED <<pstatesStatus, wofStatus>>
      BY <1>9 DEF StartStop2, PstateStop, WofOff, wofVars
    <2>2. Served("START_STOP")
              => process' \in PassLabels /\ process' # "CTRL_STOP"
      BY ServedGoesOn, SlotNames
    <2> QED BY <2>1, <2>2 DEF WofInv, WofOnlyWhileStarted, PassLabels
  <1>10. CASE Started
    <2>1. \/ UNCHANGED <<pstatesStatus, wofStatus, process>>
          \/ /\ Served("START_STOP") /\ pstatesStatus' = "ACTIVE"
             /\ UNCHANGED wofStatus
      BY <1>10 DEF Started, Halt, statusVars, wofVars, processVars
    <2>2. Served("START_STOP")
              => process' \in PassLabels /\ process' # "CTRL_STOP"
      BY ServedGoesOn, SlotNames
    <2> QED BY <2>1, <2>2, WofKeeps DEF WofInv, NotStarted
  <1>11. CASE ClipUpdt2 \/ WofVfrt2 \/ SetPmcrReq
    BY <1>11, WofKeeps, ServedGoesOn, SlotNames
       DEF ClipUpdt2, WofVfrt2, SetPmcrReq, tableOnly, statusVars, wofVars
  <1>12. CASE AckSgpe
    <2>1. /\ process \in Slots /\ Served(process) /\ UNCHANGED wofStatus
          /\ pstatesStatus' \in {pstatesStatus, "PM_SUSPENDED"}
      BY <1>12, SlotNames DEF AckSgpe, AckSlots, wofVars
    <2>2. PICK slot \in Slots : Served(slot)
      BY <2>1
    <2> QED BY <2>1, <2>2, WofKeeps, ServedGoesOn DEF NotStarted
  <1>13. CASE Registration
    BY <1>13, WofKeeps DEF Registration, statusVars, wofVars, PassLabels
  <1> QED BY <1>1, <1>2, <1>3, <1>4, <1>5, <1>6, <1>7, <1>8, <1>9, <1>10,
             <1>11, <1>12, <1>13 DEF ProcessThread

(* The actuate thread disables WOF where it stops Pstates.                 *)
LEMMA WofActuate ==
    ASSUME WofInv, ActuateThread
    PROVE  WofInv'
  <1>1. process = "pend" /\ UNCHANGED process
    BY DEF ActuateThread, ActuateMay, ActuateTop, ActuatePend, ActuateLoop,
       DoStep, ActuateAcks, ActuateRestore, Halt, Leave, SafeMode, Suspend,
       Stop, actuateFrame, processVars
  <1>2. \/ UNCHANGED <<pstatesStatus, wofStatus>>
        \/ wofStatus' = "DISABLED"
    BY DEF ActuateThread, ActuateTop, ActuatePend, ActuateLoop,
       DoStep, ActuateAcks, ActuateRestore, Halt, Leave, SafeMode, Suspend,
       Stop, PstateStop, WofOff, requestVars, statusVars, wofVars
  <1> QED BY <1>1, <1>2 DEF WofInv, WofOnlyWhileStarted

(* WofInv is inductive by itself.                                          *)
LEMMA WofNext ==
    ASSUME WofInv, [Next]_<<vars, scenario>>
    PROVE  WofInv'
  <1>1. CASE UNCHANGED <<vars, scenario>>
    BY <1>1 DEF vars, statusVars, wofVars, processVars, WofInv,
       WofOnlyWhileStarted
  <1>2. CASE IpcInterrupt
    BY <1>2, WofKeeps
       DEF IpcInterrupt, PostProcess, statusVars, wofVars, WofInv
  <1>3. CASE Type4Interrupt
    BY <1>3, WofKeeps
       DEF Type4Interrupt, Halt, PostProcess, statusVars, wofVars,
           processVars, WofInv
  <1>4. CASE HandleOccflgRequests
    BY <1>4, WofKeeps
       DEF HandleOccflgRequests, Halt, statusVars, wofVars, processVars,
           NotStarted, WofInv
  <1>5. ASSUME NEW f \in Faults, ErrorInterrupt(f)
        PROVE  WofInv'
    BY <1>5, WofKeeps
       DEF ErrorInterrupt, wofVars, processVars, NotStarted, WofInv
  <1>6. CASE PartnersStep
    BY <1>6, WofKeeps, PartnersAre
       DEF statusVars, wofVars, processVars, WofInv
  <1> QED BY <1>1, <1>2, <1>3, <1>4, <1>5, <1>6, WofProcess, WofActuate
          DEF Next, PartnersStep

(* Whatever the OCC asks and whatever fails, WOF is not enabled while      *)
(* Pstates are stopped, also when they stop while the process thread waits *)
(* for the SGPE (p9_pgpe_pstate_stop).                                     *)
THEOREM WofIsOffWhileStopped == Spec => []WofOnlyWhileStarted
  <1>1. Init => WofInv
    BY WofInit
  <1>2. WofInv /\ [Next]_<<vars, scenario>> => WofInv'
    BY WofNext
  <1>3. WofInv => WofOnlyWhileStarted
    BY DEF WofInv
  <1> QED BY <1>1, <1>2, <1>3, PTL DEF Spec

-----------------------------------------------------------------------------
(* Without flags and faults: steps that keep QuietInv.                     *)

(* A served slot is answered, or left pending and out of the table.        *)
LEMMA QuietServed ==
    ASSUME ServeInv, QuietInv, NEW slot \in Slots, process \in PassLabels,
           Current(process) \subseteq {slot},
           slot \in processing \union Current(process),
           processing' = processing \ {slot},
           \E done : /\ done \subseteq pendingAck
                     /\ done \intersect Closing \subseteq {slot}
                     /\ done \intersect processing' = {}
                     /\ pendingAck' = pendingAck \ done
                     /\ Answer(done),
           UNCHANGED <<wire, occflg, semProcessSrc, stack>>,
           pstatesStatus' \in {"INIT", "ACTIVE", "STOPPED"},
           toSgpe' \subseteq {"CTRL"}, actuate' \in {actuate, "loop"},
           Served(slot)
    PROVE  QuietInv'
  <1>1. PICK done : /\ done \subseteq pendingAck
                    /\ done \intersect Closing \subseteq {slot}
                    /\ done \intersect processing' = {}
                    /\ pendingAck' = pendingAck \ done
                    /\ Answer(done)
    OBVIOUS
  <1>2. /\ InPass /\ InPass' /\ Current(process') = {}
        /\ process' \in PassLabels
    BY PlaceIs, NextWorkIs, LabelFacts DEF Served, InPass
  <1>3. process # "pend" /\ ~Leaving /\ actuate # "restore"
        /\ ~Leaving' /\ actuate' # "restore"
    BY LabelFacts DEF ServeInv, MaskStack, Leaving
  <1>4. Calm'
    BY <1>3 DEF QuietInv, Calm
  <1>5. Accounts'
    <2>1. TableIsOutstanding' /\ twice' = {}
      BY <1>1 DEF QuietInv, Accounts, TableIsOutstanding, Answer
    <2>2. processing' \ AckSlots \subseteq pendingAck'
      BY <1>1 DEF QuietInv, Accounts
    <2> QED BY <1>2, <2>1, <2>2 DEF Accounts
  <1>6. Unserved = processing \union Current(process)
        /\ Unserved' = processing'
    BY <1>2 DEF Unserved
  <1>7. Closed => Closed'
    <2>1. CASE "IPI2" \in semProcessSrc
      BY <2>1 DEF Closed
    <2>2. CASE "IPI2" \notin semProcessSrc
      <3>1. slot = "START_STOP"
        BY <1>6, <2>2 DEF QuietInv, ClosedBack
      <3>2. pendingAck' \intersect Closing = pendingAck \intersect Closing
        BY <1>1, <3>1 DEF Closing
      <3> QED BY <1>3, <2>2, <3>2 DEF Closed
    <2> QED BY <2>1, <2>2
  <1>8. ~restoreProcess' => (pendingAck' \intersect Closing) \ Unserved' # {}
    <2>1. CASE ~restoreProcess
      <3>1. PICK x \in pendingAck \intersect Closing : x \notin Unserved
        BY <1>2, <2>1 DEF QuietInv, ClosedBack
      <3>2. x \notin done /\ x \notin processing'
        BY <1>1, <1>6, <3>1
      <3> QED BY <1>1, <1>6, <3>1, <3>2
    <2>2. CASE KeepsClosed(slot)
      BY <1>6, <2>2 DEF KeepsClosed, Closing
    <2> QED BY <2>1, <2>2 DEF Served
  <1>9. ClosedBack'
    BY <1>2, <1>6, <1>7, <1>8 DEF QuietInv, ClosedBack
  <1> QED BY <1>4, <1>5, <1>9 DEF QuietInv

(* The pass goes on with the same slot.                                    *)
LEMMA QuietPassGoesOn ==
    ASSUME ServeInv, QuietInv, InPass, InPass',
           Unserved' = Unserved, processing' \subseteq processing,
           Current(process') \intersect AckSlots = {},
           UNCHANGED <<pendingAck, outstanding, twice, wire, occflg,
               semProcessSrc, stack, actuate, restoreProcess, pstatesStatus>>,
           toSgpe' \subseteq {"CTRL"}
    PROVE  QuietInv'
  <1>1. Calm'
    BY DEF QuietInv, Calm
  <1>2. Unserved \ AckSlots \subseteq pendingAck
    BY DEF QuietInv, Accounts, Unserved
  <1>3. Accounts'
    BY <1>2 DEF QuietInv, Accounts, TableIsOutstanding, Unserved
  <1>4. ClosedBack'
    BY DEF QuietInv, ClosedBack, Closed, Leaving
  <1> QED BY <1>1, <1>3, <1>4 DEF QuietInv

(* The requests, one by one.                                               *)
LEMMA QuietRefuse ==
    ASSUME ServeInv, QuietInv, NEW slot \in RequestSlots,
           NEW next \in PassLabels, Current(next) = {slot},
           RefuseSuspended(slot, next)
    PROVE  QuietInv'
  <1>1. /\ process = slot /\ process' = next
        /\ processing' = processing \ {slot}
        /\ UNCHANGED <<pendingAck, outstanding, twice, wire, occflg, toSgpe,
               semProcessSrc, stack, actuate, restoreProcess, pstatesStatus>>
    BY DEF RefuseSuspended, Taken, QuietInv, Calm, Suspended, processFrame,
           tableOnly, statusVars, postVars, irqVars, worldVars
  <1>2. InPass /\ InPass' /\ Current(slot) = {} /\ slot \in processing
    BY <1>1, LabelFacts, SlotNames DEF InPass, ServeInv, Passes
  <1>3. Unserved' = Unserved
    BY <1>1, <1>2 DEF Unserved
  <1>4. Current(process') \intersect AckSlots = {}
    BY <1>1, SlotNames DEF AckSlots
  <1> QED BY <1>1, <1>2, <1>3, <1>4, QuietPassGoesOn DEF QuietInv, Calm

LEMMA QuietWofCtrl2 ==
    ASSUME ServeInv, QuietInv, WofCtrl2
    PROVE  QuietInv'
  <1>1. /\ process = "WOF_CTRL_2" /\ UNCHANGED processing
        /\ UNCHANGED <<wire, occflg, semProcessSrc, stack, actuate,
                       pstatesStatus>>
        /\ toSgpe' \subseteq toSgpe \union {"CTRL"}
    BY DEF WofCtrl2, processFrame, statusVars, postVars, irqVars, worldVars
  <1>2. /\ InPass /\ Current(process) = {"WOF_CTRL"}
        /\ "WOF_CTRL" \notin processing /\ "WOF_CTRL" \in Slots
        /\ "WOF_CTRL" \in pendingAck
    BY <1>1, Currents, SlotNames DEF InPass, PassLabels, ServeInv, Passes,
       QuietInv, Accounts
  <1>3. \/ /\ process' = "CTRL_STOP"
           /\ UNCHANGED <<pendingAck, outstanding, twice, restoreProcess>>
        \/ /\ Served("WOF_CTRL")
           /\ \/ UNCHANGED <<pendingAck, outstanding, twice>>
              \/ Acked("WOF_CTRL")
              \/ WofOff({"WOF_CTRL"})
    BY DEF WofCtrl2
  <1>4. CASE /\ process' = "CTRL_STOP"
             /\ UNCHANGED <<pendingAck, outstanding, twice, restoreProcess>>
    <2>1. InPass' /\ Current(process') = {"WOF_CTRL"}
      BY <1>4, Currents DEF InPass, PassLabels
    <2>2. Unserved' = Unserved /\ Current(process') \intersect AckSlots = {}
      BY <1>1, <1>2, <2>1 DEF Unserved, AckSlots
    <2> QED BY <1>1, <1>2, <1>4, <2>1, <2>2, QuietPassGoesOn DEF QuietInv, Calm
  <1>5. CASE /\ Served("WOF_CTRL")
             /\ \/ UNCHANGED <<pendingAck, outstanding, twice>>
                \/ Acked("WOF_CTRL")
                \/ WofOff({"WOF_CTRL"})
    <2>1. \E done : /\ done \subseteq pendingAck
                    /\ done \intersect Closing \subseteq {"WOF_CTRL"}
                    /\ done \intersect processing' = {}
                    /\ pendingAck' = pendingAck \ done
                    /\ Answer(done)
      <3>1. CASE UNCHANGED <<pendingAck, outstanding, twice>>
        <4>1. pendingAck' = pendingAck \ {} /\ Answer({})
          BY <3>1 DEF Answer
        <4> QED BY <4>1
      <3>2. CASE Acked("WOF_CTRL")
        BY <1>1, <1>2, <3>2 DEF Acked
      <3>3. CASE WofOff({"WOF_CTRL"})
        <4> DEFINE exit == IF wofStatus = "ENABLED"
                           THEN {"QUADS"} \intersect (pendingAck \ processing)
                           ELSE {}
        <4>1. /\ pendingAck' = pendingAck \ ({"WOF_CTRL"} \union exit)
              /\ Answer({"WOF_CTRL"} \union exit)
          BY <3>3 DEF WofOff
        <4>2. exit \subseteq {"QUADS"} \intersect (pendingAck \ processing)
          OBVIOUS
        <4> HIDE DEF exit
        <4>3. ({"WOF_CTRL"} \union exit) \intersect Closing = {}
          BY <4>2 DEF Closing
        <4> QED BY <1>1, <1>2, <4>1, <4>2, <4>3
      <3> QED BY <1>5, <3>1, <3>2, <3>3
    <2>2. processing' = processing \ {"WOF_CTRL"}
      BY <1>1, <1>2
    <2> QED BY <1>1, <1>2, <1>5, <2>1, <2>2, QuietServed
        DEF QuietInv, Calm, InPass
  <1> QED BY <1>3, <1>4, <1>5

(* A halt changes nothing the invariant is about.                          *)
LEMMA QuietHalts ==
    ASSUME ServeInv, QuietInv, NEW reason, Halt(reason)
    PROVE  QuietInv'
  BY DEF Halt, QuietInv, Calm, Accounts, ClosedBack, TableIsOutstanding,
         Unserved, InPass, Leaving, Closed, statusVars, tableVars, postVars,
         irqVars, processVars, actuateVars, answerVars, worldVars

LEMMA QuietCtrlStopWait ==
    ASSUME ServeInv, QuietInv, CtrlStopWait
    PROVE  QuietInv'
  <1>1. CASE Halt("CTRL_STOP_UPDT_BAD_ACK")
    BY <1>1, QuietHalts
  <1>2. CASE ~Halt("CTRL_STOP_UPDT_BAD_ACK")
    <2>1. /\ process = "CTRL_STOP" /\ Served("WOF_CTRL")
          /\ UNCHANGED <<wire, occflg, semProcessSrc, stack, actuate, toSgpe,
                 processing, pendingAck, outstanding, twice, pstatesStatus>>
      BY <1>2 DEF CtrlStopWait, processFrame, tableVars, statusVars, postVars,
         irqVars, worldVars, answerVars
    <2>2. /\ InPass /\ Current(process) = {"WOF_CTRL"}
          /\ "WOF_CTRL" \notin processing /\ "WOF_CTRL" \in Slots
      BY <2>1, Currents, SlotNames DEF InPass, PassLabels, ServeInv, Passes
    <2>3. pendingAck' = pendingAck \ {} /\ Answer({})
      BY <2>1 DEF Answer
    <2>4. processing' = processing \ {"WOF_CTRL"}
      BY <2>1, <2>2
    <2> QED BY <2>1, <2>2, <2>3, <2>4, QuietServed
        DEF QuietInv, Calm, InPass
  <1> QED BY <1>1, <1>2

LEMMA QuietUpdates ==
    ASSUME ServeInv, QuietInv,
           \/ UpdtActiveCores \/ UpdtActiveQuads \/ SetPmcrReq \/ AckSgpe
    PROVE  QuietInv'
  <1>1. /\ process \in {"CORES", "QUADS", "SET_PMCR"} \union AckSlots
        /\ processing' = processing \ {process}
        /\ UNCHANGED <<wire, occflg, semProcessSrc, stack, actuate, toSgpe>>
        /\ Served(process)
        /\ \/ UNCHANGED <<pendingAck, outstanding, twice>>
           \/ Acked(process) /\ process \in RequestSlots
    BY SlotNames
       DEF UpdtActiveCores, UpdtActiveQuads, SetPmcrReq, AckSgpe, Taken,
           processFrame, tableOnly, postVars, irqVars, worldVars, answerVars
  <1>2. /\ process \in Slots /\ process \in PassLabels /\ Current(process) = {}
        /\ process \in processing
    BY <1>1, SlotNames, LabelFacts DEF AckSlots, ServeInv, Passes, InPass
  <1>3. pstatesStatus' = pstatesStatus
    <2>1. process # "ACK_SUSP"
      BY <1>2 DEF QuietInv, Calm
    <2> QED BY <2>1 DEF UpdtActiveCores, UpdtActiveQuads, SetPmcrReq, AckSgpe,
               tableOnly, statusVars
  <1>4. \E done : /\ done \subseteq pendingAck
                  /\ done \subseteq {process}
                  /\ pendingAck' = pendingAck \ done
                  /\ Answer(done)
    <2>1. CASE UNCHANGED <<pendingAck, outstanding, twice>>
      <3>1. pendingAck' = pendingAck \ {} /\ Answer({})
        BY <2>1 DEF Answer
      <3> QED BY <3>1
    <2>2. CASE Acked(process) /\ process \in RequestSlots
      <3>1. process \in pendingAck
        BY <1>2, <2>2, SlotNames DEF QuietInv, Accounts, AckSlots
      <3> QED BY <2>2, <3>1 DEF Acked
    <2> QED BY <1>1, <2>1, <2>2
  <1>5. PICK slot \in Slots : slot = process
    BY <1>2
  <1> QED BY <1>1, <1>2, <1>3, <1>4, <1>5, QuietServed DEF QuietInv, Calm

LEMMA QuietStartStop ==
    ASSUME ServeInv, QuietInv, StartStop
    PROVE  QuietInv'
  <1>1. /\ process = "START_STOP" /\ process' = "START_STOP_2"
        /\ UNCHANGED <<processing, pendingAck, outstanding, twice, wire,
               occflg, toSgpe, semProcessSrc, stack, actuate, restoreProcess,
               pstatesStatus>>
    BY DEF StartStop, QuietInv, Calm, Suspended, processFrame, tableOnly,
           tableVars, statusVars, postVars, irqVars, worldVars
  <1>2. /\ InPass /\ InPass' /\ Current(process) = {}
        /\ Current(process') = {}
    BY <1>1, LabelFacts, SlotNames, Currents DEF InPass, PassLabels
  <1>3. Unserved' = Unserved
    BY <1>1, <1>2 DEF Unserved
  <1> QED BY <1>1, <1>2, <1>3, QuietPassGoesOn DEF QuietInv, Calm

LEMMA QuietStartStop2 ==
    ASSUME ServeInv, QuietInv, StartStop2
    PROVE  QuietInv'
  <1>1. /\ process = "START_STOP_2"
        /\ UNCHANGED <<wire, occflg, toSgpe, semProcessSrc, stack, actuate>>
        /\ pstatesStatus' \in {pstatesStatus, "STOPPED"}
        /\ \/ /\ process' = "STARTING"
              /\ UNCHANGED <<processing, pendingAck, outstanding, twice,
                             restoreProcess, pstatesStatus>>
           \/ /\ processing' = processing \ {"START_STOP"}
              /\ Served("START_STOP")
              /\ Acked("START_STOP") \/ WofOff({"START_STOP"})
    BY DEF StartStop2, PstateStop, Taken, processFrame, tableVars, postVars,
           irqVars, worldVars, answerVars
  <1>2. /\ InPass /\ Current(process) = {} /\ "START_STOP" \in Slots
        /\ "START_STOP" \in processing /\ "START_STOP" \in pendingAck
    BY <1>1, Currents, SlotNames
       DEF InPass, PassLabels, ServeInv, Passes, QuietInv, Accounts, AckSlots
  <1>3. CASE /\ process' = "STARTING"
             /\ UNCHANGED <<processing, pendingAck, outstanding, twice,
                            restoreProcess, pstatesStatus>>
    <2>1. InPass' /\ Current(process') = {}
      BY <1>3, Currents DEF InPass, PassLabels
    <2>2. Unserved' = Unserved
      BY <1>2, <1>3, <2>1 DEF Unserved
    <2> QED BY <1>1, <1>2, <1>3, <2>1, <2>2, QuietPassGoesOn
        DEF QuietInv, Calm
  <1>4. CASE /\ processing' = processing \ {"START_STOP"}
             /\ Served("START_STOP")
             /\ Acked("START_STOP") \/ WofOff({"START_STOP"})
    <2>1. \E done : /\ done \subseteq pendingAck
                    /\ done \intersect Closing \subseteq {"START_STOP"}
                    /\ done \intersect processing' = {}
                    /\ pendingAck' = pendingAck \ done
                    /\ Answer(done)
      <3>1. CASE Acked("START_STOP")
        BY <1>2, <1>4, <3>1 DEF Acked
      <3>2. CASE WofOff({"START_STOP"})
        <4> DEFINE exit == IF wofStatus = "ENABLED"
                           THEN {"QUADS"} \intersect (pendingAck \ processing)
                           ELSE {}
        <4>1. /\ pendingAck' = pendingAck \ ({"START_STOP"} \union exit)
              /\ Answer({"START_STOP"} \union exit)
          BY <3>2 DEF WofOff
        <4>2. exit \subseteq {"QUADS"} \intersect (pendingAck \ processing)
          OBVIOUS
        <4> HIDE DEF exit
        <4>3. ({"START_STOP"} \union exit) \intersect Closing = {}
          BY <4>2 DEF Closing
        <4> QED BY <1>2, <1>4, <4>1, <4>2, <4>3
      <3> QED BY <1>4, <3>1, <3>2
    <2> QED BY <1>1, <1>2, <1>4, <2>1, QuietServed DEF QuietInv, Calm, InPass
  <1> QED BY <1>1, <1>3, <1>4

LEMMA QuietStarted ==
    ASSUME ServeInv, QuietInv, Started
    PROVE  QuietInv'
  <1>1. CASE Halt("SEMAPHORE_OVERFLOW")
    BY <1>1, QuietHalts
  <1>2. CASE ~Halt("SEMAPHORE_OVERFLOW")
    <2>1. /\ process = "STARTING"
          /\ UNCHANGED <<wire, occflg, toSgpe, semProcessSrc, stack>>
          /\ pstatesStatus' = "ACTIVE" /\ actuate' \in {actuate, "loop"}
          /\ processing' = processing \ {"START_STOP"}
          /\ Acked("START_STOP") /\ Served("START_STOP")
      BY <1>2 DEF Started, PostActuate, Taken, processFrame, postVars,
         irqVars, worldVars
    <2>2. /\ InPass /\ Current(process) = {} /\ "START_STOP" \in Slots
          /\ "START_STOP" \in processing /\ "START_STOP" \in pendingAck
      BY <2>1, Currents, SlotNames
         DEF InPass, PassLabels, ServeInv, Passes, QuietInv, Accounts, AckSlots
    <2>3. \E done : /\ done \subseteq pendingAck
                    /\ done \intersect Closing \subseteq {"START_STOP"}
                    /\ done \intersect processing' = {}
                    /\ pendingAck' = pendingAck \ done
                    /\ Answer(done)
      BY <2>1, <2>2 DEF Acked
    <2> QED BY <2>1, <2>2, <2>3, QuietServed DEF QuietInv, Calm, InPass
  <1> QED BY <1>1, <1>2

LEMMA QuietSecondLooks ==
    ASSUME ServeInv, QuietInv, ClipUpdt2 \/ WofVfrt2
    PROVE  QuietInv'
  <1>1. PICK slot \in {"CLIP", "VFRT"} :
           /\ process = (IF slot = "CLIP" THEN "CLIP_2" ELSE "VFRT_2")
           /\ UNCHANGED <<wire, occflg, toSgpe, semProcessSrc, stack, actuate,
                          pstatesStatus, processing>>
           /\ Acked(slot) \/ UNCHANGED <<pendingAck, outstanding, twice>>
           /\ Served(slot)
    <2>1. CASE ClipUpdt2
      BY <2>1 DEF ClipUpdt2, processFrame, statusVars, postVars, irqVars,
         worldVars
    <2>2. CASE WofVfrt2
      BY <2>2 DEF WofVfrt2, processFrame, statusVars, postVars, irqVars,
         worldVars
    <2> QED BY <2>1, <2>2
  <1>2. /\ process \in PassLabels /\ InPass /\ slot \in Slots
        /\ Current(process) = {slot}
    BY <1>1, SlotNames, Currents DEF InPass, PassLabels
  <1>3. slot \notin processing /\ slot \in pendingAck
    BY <1>2 DEF ServeInv, Passes, QuietInv, Accounts
  <1>4. \E done : /\ done \subseteq pendingAck
                  /\ done \subseteq {slot}
                  /\ pendingAck' = pendingAck \ done
                  /\ Answer(done)
    <2>1. CASE UNCHANGED <<pendingAck, outstanding, twice>>
      <3>1. pendingAck' = pendingAck \ {} /\ Answer({})
        BY <2>1 DEF Answer
      <3> QED BY <3>1
    <2>2. CASE Acked(slot)
      BY <1>3, <2>2 DEF Acked
    <2> QED BY <1>1, <2>1, <2>2
  <1>5. processing' = processing \ {slot}
    BY <1>1, <1>3
  <1> QED BY <1>1, <1>2, <1>4, <1>5, QuietServed DEF QuietInv, Calm

LEMMA QuietRegistration ==
    ASSUME ServeInv, QuietInv, Registration
    PROVE  QuietInv'
  <1>1. /\ process = "REGISTER" /\ process' = "done"
        /\ UNCHANGED <<processing, pendingAck, outstanding, twice, wire,
               occflg, toSgpe, semProcessSrc, stack, actuate, restoreProcess,
               pstatesStatus>>
    BY DEF Registration, tableVars, statusVars, postVars, irqVars,
           actuateVars, answerVars
  <1>2. /\ InPass /\ InPass' /\ Current(process) = {}
        /\ Current(process') = {}
    BY <1>1, LabelFacts DEF InPass
  <1>3. Unserved' = Unserved
    BY <1>1, <1>2 DEF Unserved
  <1> QED BY <1>1, <1>2, <1>3, QuietPassGoesOn DEF QuietInv, Calm

LEMMA QuietProcessPend ==
    ASSUME ServeInv, QuietInv, ProcessPend
    PROVE  QuietInv'
  <1>1. /\ process = "top" /\ process' \in {"woken", "pend"}
        /\ UNCHANGED <<processing, pendingAck, outstanding, twice, wire,
               occflg, toSgpe, semProcessSrc, stack, actuate, restoreProcess,
               pstatesStatus>>
    BY DEF ProcessPend, tableVars, statusVars, irqVars, actuateVars,
           answerVars, worldVars
  <1>2. ~InPass /\ ~InPass'
    BY <1>1, LabelFacts DEF InPass
  <1> QED BY <1>1, <1>2 DEF QuietInv, Calm, Accounts, ClosedBack, Leaving,
          TableIsOutstanding, Unserved, Closed

LEMMA QuietProcessWake ==
    ASSUME ServeInv, QuietInv, ProcessWake
    PROVE  QuietInv'
  <1>1. /\ process = "woken" /\ Mask(IPI2HI) /\ restoreProcess'
        /\ process' = NextWork(0)
        /\ UNCHANGED <<processing, pendingAck, outstanding, twice, wire,
               occflg, toSgpe, semProcessSrc, actuate, pstatesStatus>>
    BY DEF ProcessWake, tableOnly, tableVars, statusVars, worldVars
  <1>2. process' \in Slots \union {"REGISTER", "done"}
    BY <1>1, NextWorkIs
  <1>3. InPass' /\ Current(process') = {} /\ ~InPass
    BY <1>1, <1>2, LabelFacts DEF InPass
  <1>4. Unserved' = processing /\ Unserved = processing
        /\ Closed' = Closed
    BY <1>1, <1>3 DEF Unserved, Closed
  <1>5. Calm' /\ Accounts'
    BY <1>1, <1>3 DEF QuietInv, Calm, Accounts, TableIsOutstanding
  <1>6. stack = <<>> \/ Closed
    BY <1>1, <1>3 DEF QuietInv, ClosedBack, ServeInv, MaskStack, Leaving
  <1>7. stack = <<>> => stack' = Once
    BY <1>1, MaskIs DEF ServeInv, MaskStack
  <1>8. ClosedBack'
    BY <1>1, <1>3, <1>4, <1>6, <1>7 DEF QuietInv, ClosedBack
  <1> QED BY <1>5, <1>8 DEF QuietInv

(* Who does not restore the mask leaves a slot pending that will.          *)
LEMMA QuietProcessDone ==
    ASSUME ServeInv, QuietInv, halted = "no", ProcessDone
    PROVE  QuietInv'
  <1>1. CASE Halt("STACK_UNDERFLOW")
    BY <1>1, QuietHalts
  <1>2. CASE ~Halt("STACK_UNDERFLOW")
    <2>1. UNCHANGED <<outstanding, twice, wire, occflg, toSgpe, pstatesStatus>>
      BY <1>2 DEF ProcessDone, tableOnly, statusVars, worldVars
    <2>2. /\ InPass /\ ~InPass' /\ Current(process) = {}
          /\ ~Leaving /\ ~Leaving' /\ actuate # "restore"
          /\ actuate' # "restore"
      BY DonePops, LabelFacts DEF InPass, ServeInv, MaskStack, Leaving
    <2>3. Calm' /\ Accounts'
      BY <2>1, <2>2, DonePops
         DEF QuietInv, Calm, Accounts, TableIsOutstanding
    <2>4. Unserved' = processing /\ processing \subseteq {"START_STOP"}
      BY <2>2, DonePops DEF Unserved, Skipped
    <2>5. stack' = <<>> \/ Closed'
      <3>1. CASE Opens \/ stack = Once
        BY <3>1, DonePops, StacksDiffer
      <3>2. CASE ~Opens /\ stack # Once
        <4>1. pendingAck \intersect Closing # {}
          <5>1. CASE ~restoreProcess
            BY <2>2, <5>1 DEF QuietInv, ClosedBack
          <5>2. CASE restoreProcess
            BY <2>2, <3>2, <5>2 DEF QuietInv, ClosedBack, Closed, Opens
          <5> QED BY <5>1, <5>2
        <4> QED BY <4>1, DonePops DEF Closed
      <3> QED BY <3>1, <3>2
    <2>6. ClosedBack'
      BY <2>2, <2>4, <2>5 DEF ClosedBack
    <2> QED BY <2>3, <2>6 DEF QuietInv
  <1> QED BY <1>1, <1>2

LEMMA QuietProcess ==
    ASSUME ServeInv, QuietInv, halted = "no", ProcessThread
    PROVE  QuietInv'
  <1>1. /\ {"WOF_CTRL", "CLIP", "VFRT"} \subseteq RequestSlots
        /\ {"WOF_CTRL_2", "CLIP_2", "VFRT_2"} \subseteq PassLabels
    BY SlotNames DEF PassLabels
  <1>2. CASE WofCtrl
    BY <1>1, <1>2, Currents, QuietRefuse DEF WofCtrl
  <1>3. CASE ClipUpdt
    BY <1>1, <1>3, Currents, QuietRefuse DEF ClipUpdt
  <1>4. CASE WofVfrt
    BY <1>1, <1>4, Currents, QuietRefuse DEF WofVfrt
  <1> QED
    BY <1>2, <1>3, <1>4, QuietProcessPend, QuietProcessWake, QuietProcessDone,
       QuietWofCtrl2, QuietCtrlStopWait, QuietUpdates, QuietStartStop,
       QuietStartStop2, QuietStarted, QuietSecondLooks, QuietRegistration
    DEF ProcessThread

(* A message moves from the wire to the table.                             *)
LEMMA QuietIpcInterrupt ==
    ASSUME ServeInv, QuietInv, IpcInterrupt
    PROVE  QuietInv'
  <1>1. stack = <<>> /\ level = DISABLED /\ ~InPass /\ ~Leaving
    BY OpenMeansEmpty DEF IpcInterrupt
  <1>2. wire \intersect pendingAck = {}
    BY DEF QuietInv, Accounts, TableIsOutstanding
  <1>3. /\ pendingAck' = pendingAck \union (wire \intersect RequestSlots)
        /\ processing' = processing \union (wire \ (wire \intersect pendingAck))
        /\ wire' = {} /\ PostProcess /\ Answer(wire \intersect pendingAck)
        /\ semProcessSrc' = semProcessSrc \union {"IPI2"}
        /\ UNCHANGED <<actuate, pstatesStatus, occflg, toSgpe>>
    BY DEF IpcInterrupt, actuateVars, statusVars, worldVars
  <1>4. ~InPass' /\ ~Leaving' /\ Closed'
    BY <1>1, <1>3, PostedIs DEF Leaving, Closed
  <1>5. Calm'
    BY <1>2, <1>3 DEF QuietInv, Calm
  <1>6. wire \subseteq RequestSlots \union AckSlots
        /\ RequestSlots \intersect AckSlots = {}
    BY SlotNames DEF ServeInv, Shape, AckSlots, Slots
  <1>7. Accounts'
    BY <1>2, <1>3, <1>4, <1>6
       DEF QuietInv, Accounts, TableIsOutstanding, Answer
  <1>8. ClosedBack'
    BY <1>3, <1>4 DEF ClosedBack
  <1> QED BY <1>5, <1>7, <1>8 DEF QuietInv

LEMMA QuietType4Interrupt ==
    ASSUME ServeInv, QuietInv, Type4Interrupt
    PROVE  QuietInv'
  <1>1. CASE Halt("UNEXPECTED_REGISTRATION")
    BY <1>1, QuietHalts
  <1>2. CASE ~Halt("UNEXPECTED_REGISTRATION")
    <2>1. /\ PostProcess /\ semProcessSrc' = semProcessSrc \union {"TYPE4"}
          /\ level > TYPE4
          /\ UNCHANGED <<processing, pendingAck, outstanding, twice, wire,
                 occflg, toSgpe, stack, actuate, restoreProcess, pstatesStatus>>
      BY <1>2 DEF Type4Interrupt, tableVars, irqVars, actuateVars, statusVars,
         answerVars, worldVars
    <2>2. stack = <<>> /\ ~InPass /\ ~Leaving
      BY <2>1, OpenMeansEmpty
         DEF ServeInv, MaskStack, TYPE4, IPI2HI, DISABLED
    <2>3. ~InPass' /\ ~Leaving'
      BY <2>1, <2>2, PostedIs DEF Leaving
    <2> QED BY <2>1, <2>2, <2>3 DEF QuietInv, Calm, Accounts, ClosedBack,
            TableIsOutstanding, Unserved
  <1> QED BY <1>1, <1>2

LEMMA QuietActuateMoves ==
    ASSUME ServeInv, QuietInv, process = "pend",
           ActuateTop \/ ActuatePend \/ DoStep \/ Leave \/ Suspend
    PROVE  QuietInv'
  <1>1. /\ UNCHANGED <<processing, process, restoreProcess, semProcessSrc,
               pendingAck, outstanding, twice, wire, occflg, toSgpe, stack,
               pstatesStatus>>
        /\ \/ {actuate, actuate'} \subseteq
                  {"top", "pend", "loop", "step", "acks"}
           \/ {actuate, actuate'} \subseteq {"leave", "suspend", "stop"}
    BY DEF ActuateTop, ActuatePend, DoStep, Leave, Suspend, EntersSafeMode,
           QuietInv, Calm, actuateFrame, requestVars, tableVars, statusVars,
           postVars, processVars, irqVars, answerVars, worldVars
  <1>2. /\ InPass' = InPass /\ Leaving' = Leaving /\ Unserved' = Unserved
        /\ Closed' = Closed /\ actuate' # "safe"
    BY <1>1 DEF InPass, Leaving, Unserved, Closed
  <1> QED BY <1>1, <1>2
          DEF QuietInv, Calm, Accounts, ClosedBack, TableIsOutstanding

LEMMA QuietActuateLoop ==
    ASSUME ServeInv, QuietInv, process = "pend", ActuateLoop
    PROVE  QuietInv'
  <1>1. /\ UNCHANGED <<processing, process, restoreProcess, semProcessSrc,
               pendingAck, outstanding, twice, wire, occflg, toSgpe,
               pstatesStatus>>
        /\ actuate = "loop"
        /\ \/ actuate' = "step" /\ UNCHANGED <<stack, level>>
           \/ actuate' = "leave" /\ Mask(IPI2HI)
    BY DEF ActuateLoop, actuateFrame, requestVars, tableVars, statusVars,
           postVars, processVars, irqVars, answerVars, worldVars
  <1>2. ~InPass /\ ~InPass' /\ ~Leaving /\ Unserved' = Unserved
        /\ Closed' = Closed
    BY <1>1, LabelFacts DEF InPass, Leaving, Unserved, Closed
  <1>3. stack = <<>> \/ Closed
    BY <1>2 DEF QuietInv, ClosedBack
  <1>4. Calm' /\ Accounts'
    BY <1>1, <1>2 DEF QuietInv, Calm, Accounts, TableIsOutstanding
  <1>5. IF Leaving' THEN stack' = Once \/ Closed' ELSE stack' = <<>> \/ Closed'
    BY <1>1, <1>2, <1>3, MaskIs DEF Leaving, ServeInv, MaskStack
  <1>6. ClosedBack'
    BY <1>1, <1>2, <1>5 DEF QuietInv, ClosedBack
  <1> QED BY <1>4, <1>6 DEF QuietInv

(* The answers to what nobody will serve again.                            *)
LEMMA QuietActuateAcks ==
    ASSUME ServeInv, QuietInv, process = "pend", ActuateAcks
    PROVE  QuietInv'
  <1>1. /\ UNCHANGED <<processing, process, restoreProcess, semProcessSrc,
               wire, occflg, toSgpe, stack, pstatesStatus>>
        /\ actuate = "acks"
    BY DEF ActuateAcks, actuateFrame, statusVars, postVars, processVars,
           irqVars, worldVars
  <1>2. PICK acked :
             /\ pendingAck' = pendingAck \ acked
             /\ Answer(acked) /\ acked \subseteq pendingAck
             /\ acked \subseteq Closing \union {"WOF_CTRL", "QUADS"}
             /\ \/ actuate' = "restore"
                \/ actuate' = "loop" /\ acked \intersect Closing = {}
    BY AcksAre
  <1>3. ~InPass /\ ~InPass' /\ ~Leaving /\ ~Leaving' /\ Unserved' = Unserved
    BY <1>1, <1>2, LabelFacts DEF InPass, Leaving, Unserved
  <1>4. acked \intersect processing = {}
    BY <1>2 DEF ServeInv, AtRest, Skipped, Closing
  <1>5. Closed => Closed'
    BY <1>1, <1>2 DEF Closed
  <1>6. Calm'
    BY <1>1, <1>2 DEF QuietInv, Calm
  <1>7. Accounts'
    BY <1>1, <1>2, <1>3, <1>4
       DEF QuietInv, Accounts, TableIsOutstanding, Answer
  <1>8. ClosedBack'
    BY <1>1, <1>3, <1>5 DEF QuietInv, ClosedBack
  <1> QED BY <1>6, <1>7, <1>8 DEF QuietInv

LEMMA QuietActuateRestore ==
    ASSUME ServeInv, QuietInv, process = "pend", ActuateRestore
    PROVE  QuietInv'
  <1>1. actuate = "restore" /\ ~InPass /\ ~Leaving /\ Closed
    BY LabelFacts DEF ActuateRestore, InPass, Leaving, Closed
  <1>2. stack = Once
    BY <1>1 DEF ServeInv, MaskStack
  <1>3. /\ UNCHANGED <<processing, process, restoreProcess, semProcessSrc,
               pendingAck, outstanding, twice, wire, occflg, toSgpe,
               pstatesStatus>>
        /\ actuate' = "loop" /\ Restore(1)
    BY <1>2, StacksDiffer DEF ActuateRestore, actuateFrame, requestVars,
       tableVars, statusVars, postVars, processVars, answerVars, worldVars
  <1>4. stack' = <<>>
    BY <1>2, <1>3, RestoreIs
  <1>5. ~InPass' /\ ~Leaving' /\ Unserved' = Unserved
    BY <1>1, <1>3 DEF InPass, Leaving, Unserved
  <1> QED BY <1>3, <1>4, <1>5
          DEF QuietInv, Calm, Accounts, ClosedBack, TableIsOutstanding

LEMMA QuietStop ==
    ASSUME ServeInv, QuietInv, process = "pend", Stop
    PROVE  QuietInv'
  <1>1. /\ UNCHANGED <<processing, process, restoreProcess, semProcessSrc,
               pendingAck, outstanding, twice, wire, occflg, toSgpe,
               pstatesStatus>>
        /\ actuate = "stop" /\ actuate' = "top" /\ Restore(1)
    BY DEF Stop, QuietInv, Calm, actuateFrame, postVars, processVars,
       answerVars, worldVars
  <1>2. /\ ~InPass /\ ~InPass' /\ Leaving /\ ~Leaving'
        /\ Unserved' = Unserved /\ Closed' = Closed
    BY <1>1, LabelFacts DEF InPass, Leaving, Unserved, Closed
  <1>3. stack = Once \/ Closed
    BY <1>2 DEF QuietInv, ClosedBack
  <1>4. stack = Once => stack' = <<>>
    BY <1>1, RestoreIs
  <1>5. Calm' /\ Accounts'
    BY <1>1, <1>2 DEF QuietInv, Calm, Accounts, TableIsOutstanding
  <1>6. ClosedBack'
    BY <1>1, <1>2, <1>3, <1>4 DEF QuietInv, ClosedBack
  <1> QED BY <1>5, <1>6 DEF QuietInv

LEMMA QuietActuateThread ==
    ASSUME ServeInv, QuietInv, ActuateThread
    PROVE  QuietInv'
  <1>1. process = "pend"
    BY DEF ActuateThread, ActuateMay
  <1>2. ~SafeMode
    BY DEF SafeMode, QuietInv, Calm
  <1> QED
    BY <1>1, <1>2, QuietActuateMoves, QuietActuateLoop, QuietActuateAcks,
       QuietActuateRestore, QuietStop DEF ActuateThread

(* A sender asks for a slot only when it waits for none.                   *)
LEMMA QuietPartners ==
    ASSUME ServeInv, QuietInv, Flags = {}, PartnersStep
    PROVE  QuietInv'
  <1>1. UNCHANGED <<pstatesStatus, processing, pendingAck, semProcessSrc,
           stack, process, restoreProcess, actuate, twice, occflg>>
    BY PartnersAre DEF statusVars, tableVars, postVars, irqVars, processVars,
       actuateVars
  <1>2. \/ \E slot \in RequestSlots : Send(slot)
        \/ wire' = wire \union {"ACK_CTRL"} /\ UNCHANGED outstanding
        \/ UNCHANGED <<wire, outstanding>>
    BY PartnersAre DEF QuietInv, Calm
  <1>3. toSgpe' \subseteq {"CTRL"}
    BY PartnersAre DEF QuietInv, Calm
  <1>4. pendingAck \subseteq RequestSlots
        /\ RequestSlots \intersect AckSlots = {}
        /\ AckSlots = {"ACK_CTRL", "ACK_SUSP"}
    BY SlotNames DEF ServeInv, Shape, AckSlots
  <1>5. Calm'
    BY <1>1, <1>2, <1>3, <1>4 DEF QuietInv, Calm, Send
  <1>6. TableIsOutstanding'
    <2>1. CASE \E slot \in RequestSlots : Send(slot)
      <3>1. PICK slot \in RequestSlots : Send(slot)
        BY <2>1
      <3> QED BY <1>1, <1>4, <3>1
              DEF Send, QuietInv, Accounts, TableIsOutstanding
    <2>2. CASE wire' = wire \union {"ACK_CTRL"} /\ UNCHANGED outstanding
      BY <1>1, <1>4, <2>2 DEF QuietInv, Accounts, TableIsOutstanding
    <2>3. CASE UNCHANGED <<wire, outstanding>>
      BY <1>1, <2>3 DEF QuietInv, Accounts, TableIsOutstanding
    <2> QED BY <1>2, <2>1, <2>2, <2>3
  <1>7. InPass' = InPass /\ Leaving' = Leaving /\ Unserved' = Unserved
        /\ Closed' = Closed
    BY <1>1 DEF InPass, Leaving, Unserved, Closed
  <1>8. Accounts' /\ ClosedBack'
    BY <1>1, <1>6, <1>7 DEF QuietInv, Accounts, ClosedBack
  <1> QED BY <1>5, <1>8 DEF QuietInv

-----------------------------------------------------------------------------
(* The initial states.                                                     *)
LEMMA QuietInit ==
    ASSUME Init PROVE QuietInv
  <1>1. ~InPass /\ ~Leaving
    BY LabelFacts DEF Init, InPass, Leaving
  <1> QED BY <1>1 DEF Init, QuietInv, Calm, Accounts, ClosedBack, Unserved,
                      TableIsOutstanding

(* QuietInv is inductive with ServeInv.                                    *)
LEMMA QuietNext ==
    ASSUME ServeInv, QuietInv, Flags = {}, Faults = {},
           [Next]_<<vars, scenario>>
    PROVE  QuietInv'
  <1>1. CASE UNCHANGED <<vars, scenario>>
    BY <1>1 DEF vars, QuietInv, Calm, Accounts, ClosedBack, Unserved, InPass,
       Leaving, Closed, TableIsOutstanding, statusVars, tableVars, postVars,
       irqVars, processVars, actuateVars, answerVars, worldVars
  <1>2. CASE Next
    <2>1. halted = "no" /\ ~(\E f \in Faults : ErrorInterrupt(f))
      BY <1>2 DEF Next
    <2>2. ~HandleOccflgRequests
      BY DEF HandleOccflgRequests, QuietInv, Calm
    <2> QED
      BY <1>2, <2>1, <2>2, QuietIpcInterrupt, QuietType4Interrupt,
         QuietProcess, QuietActuateThread, QuietPartners
      DEF Next, PartnersStep
  <1> QED BY <1>1, <1>2

(* The two imply the books of the run.                                     *)
LEMMA QuietMeansAccounted ==
    ASSUME ServeInv, QuietInv PROVE RequestsAccounted
  <1>1. TableIsOutstanding /\ AnsweredOnce
    BY DEF QuietInv, Accounts, AnsweredOnce
  <1>2. NothingForgotten
    BY DEF ServeInv, AtRest, NothingForgotten, Skipped
  <1>3. ClosedForAnAnswer
    <2>1. ASSUME process = "pend", level = IPI2HI,
                 actuate \in {"top", "pend", "loop", "step", "acks"}
          PROVE  pendingAck \intersect {"CORES", "CLIP", "VFRT"} # {}
      <3>1. ~InPass /\ ~Leaving /\ "IPI2" \notin semProcessSrc
        BY <2>1, LabelFacts DEF InPass, Leaving, ServeInv, Sources
      <3>2. stack # <<>>
        BY <2>1 DEF ServeInv, MaskStack, IPI2HI, DISABLED
      <3> QED BY <2>1, <3>1, <3>2 DEF QuietInv, ClosedBack, Closed, Closing
    <2> QED BY <2>1 DEF ClosedForAnAnswer
  <1> QED BY <1>1, <1>2, <1>3 DEF RequestsAccounted

(* Without flags and faults the books balance: what is in the table and on *)
(* the way is what the senders wait for, nothing is answered twice or      *)
(* forgotten, and the IPC interrupt is left masked only for an answer that *)
(* will open it (p9_pgpe_thread_process_requests, .._actuate_pstates).     *)
THEOREM EveryRequestAccounted ==
    ASSUME Flags = {}, Faults = {}
    PROVE  Spec => []RequestsAccounted
  <1>1. Init => ServeInv /\ QuietInv
    BY ServeInit, QuietInit
  <1>2. ServeInv /\ QuietInv /\ [Next]_<<vars, scenario>>
            => (ServeInv /\ QuietInv)'
    BY ServeNext, QuietNext
  <1>3. ServeInv /\ QuietInv => RequestsAccounted
    BY QuietMeansAccounted
  <1> QED BY <1>1, <1>2, <1>3, PTL DEF Spec

(* Only the actuate thread, within the limits, answers while the process   *)
(* thread waits.                                                           *)
LEMMA AnswersInRange ==
    ASSUME ServeInv, QuietInv, Faults = {}, Flags = {}, Next,
           process = "pend", pendingAck \ pendingAck' # {}
    PROVE  InRange
  <1>1. ~IpcInterrupt /\ ~Type4Interrupt /\ ~PartnersStep
        /\ ~HandleOccflgRequests /\ ~(\E f \in Faults : ErrorInterrupt(f))
    BY PartnersAre
       DEF IpcInterrupt, Type4Interrupt, Halt, HandleOccflgRequests, tableVars
  <1>2. ~ProcessThread
    BY DEF ProcessThread, ProcessPend, ProcessWake, ProcessDone, WofCtrl,
       ClipUpdt, WofVfrt, RefuseSuspended, WofCtrl2, CtrlStopWait,
       UpdtActiveCores, UpdtActiveQuads, StartStop, StartStop2, Started,
       ClipUpdt2, WofVfrt2, SetPmcrReq, AckSgpe, AckSlots, Registration
  <1>3. ActuateThread
    BY <1>1, <1>2 DEF Next, PartnersStep
  <1>4. ActuateAcks
    BY <1>3
       DEF ActuateThread, ActuateTop, ActuatePend, ActuateLoop, DoStep,
           ActuateRestore, Halt, Leave, SafeMode, Suspend, Stop, requestVars,
           tableVars, QuietInv, Calm
  <1> QED BY <1>4, AcksAre

(* And no answer is sent before its slot is served, nor for a clip or a    *)
(* VFRT of active Pstates before the chip is within it                     *)
(* (p9_pgpe_thread_actuate_pstates: inRange before the acks).              *)
THEOREM AnswersComeWhenServed ==
    ASSUME Flags = {}, Faults = {}
    PROVE  Spec => AnsweredWhenServed
  <1> DEFINE Orderly ==
        \A slot \in pendingAck \ pendingAck' :
          /\ slot \notin processing'
          /\ (/\ slot = "CLIP" \/ (slot = "VFRT" /\ wofStatus = "ENABLED")
              /\ pstatesStatus = "ACTIVE" /\ process = "pend")
             => InRange
  <1>1. Init => ServeInv /\ QuietInv
    BY ServeInit, QuietInit
  <1>2. ServeInv /\ QuietInv /\ [Next]_<<vars, scenario>>
            => (ServeInv /\ QuietInv)'
    BY ServeNext, QuietNext
  <1>3. ServeInv /\ QuietInv /\ (ServeInv /\ QuietInv)' /\ Next => Orderly
    <2> SUFFICES ASSUME ServeInv, QuietInv, ServeInv', QuietInv', Next,
                        NEW slot \in pendingAck \ pendingAck'
                 PROVE  /\ slot \notin processing'
                        /\ process = "pend" => InRange
      OBVIOUS
    <2>1. slot \notin processing'
      BY SlotNames DEF ServeInv, Shape, QuietInv, Accounts, AckSlots
    <2>2. process = "pend" => InRange
      BY AnswersInRange
    <2> QED BY <2>1, <2>2
  <1>4. ServeInv /\ QuietInv /\ (ServeInv /\ QuietInv)'
            /\ [Next]_<<vars, scenario>> => [Orderly]_vars
    BY <1>3
  <1>5. AnsweredWhenServed <=> [][Orderly]_vars
    BY DEF AnsweredWhenServed
  <1> QED BY <1>1, <1>2, <1>4, <1>5, PTL DEF Spec

-----------------------------------------------------------------------------
(* The quads between NOTIFY and DONE.                                      *)

IsSgpe(s) == s = [quads |-> s.quads, cores |-> s.cores, quadOp |-> s.quadOp,
                  coreOp |-> s.coreOp, updates |-> s.updates,
                  suspended |-> s.suspended]
IsUpdate(u) == u = [type |-> u.type, stage |-> u.stage, units |-> u.units]
IsArgs(a) ==
    /\ a = [START_STOP |-> a.START_STOP, WOF_CTRL |-> a.WOF_CTRL,
            VFRT |-> a.VFRT, QUADS |-> a.QUADS, CORES |-> a.CORES]
    /\ IsUpdate(a.QUADS)
Starting == process \in {"START_STOP", "START_STOP_2", "STARTING"}
Changing ==
    \/ sgpe.quadOp = "MID"
    \/ sgpe.quadOp = "NOTIFY" /\ "QUADS" \notin outstanding

(* The flag that holds START_STOP up is set while the SGPE changes quads,  *)
(* and the message is the one the SGPE waits for.                          *)
QuadsInv ==
    /\ IsSgpe(sgpe) /\ IsArgs(args)
    /\ "QUADS" \in outstanding => /\ sgpe.quadOp = args.QUADS.stage
                                  /\ sgpe.quadOp \in {"NOTIFY", "DONE"}
    /\ Changing => pendingActiveQuadUpdtDone
    /\ Starting => ~pendingActiveQuadUpdtDone

(* A pass goes on to START_STOP only when the flag is clear.               *)
LEMMA QuadsServed ==
    ASSUME QuadsInv, NEW slot \in Slots, Served(slot),
           UNCHANGED <<args, sgpe>>, outstanding' \subseteq outstanding,
           \/ pendingActiveQuadUpdtDone'
           \/ /\ pendingActiveQuadUpdtDone => pendingActiveQuadUpdtDone'
              /\ "QUADS" \in outstanding => "QUADS" \in outstanding'
    PROVE  QuadsInv'
  <1>1. /\ process' \in Slots \union {"REGISTER", "done"}
        /\ process' \in Slots => Due(process')
    BY PlaceIs, NextWorkIs DEF Served
  <1>2. Starting' => ~pendingActiveQuadUpdtDone'
    BY <1>1, SlotNames DEF Starting, Due
  <1>3. Changing' => pendingActiveQuadUpdtDone'
    BY DEF QuadsInv, Changing
  <1> QED BY <1>2, <1>3 DEF QuadsInv

(* A step that leaves the quads, the flag and their message alone.         *)
LEMMA QuadsKeeps ==
    ASSUME QuadsInv, UNCHANGED <<args, sgpe, pendingActiveQuadUpdtDone>>,
           outstanding' \subseteq outstanding,
           "QUADS" \in outstanding => "QUADS" \in outstanding',
           Starting' => Starting
    PROVE  QuadsInv'
  BY DEF QuadsInv, Changing

(* WOF that goes off may answer a NOTIFY and raises the flag with it.      *)
LEMMA WofOffIs ==
    ASSUME NEW done, WofOff(done)
    PROVE  /\ \/ Answer(done)
              \/ pendingActiveQuadUpdtDone' /\ "QUADS" \in pendingAck
           /\ pendingActiveQuadUpdtDone => pendingActiveQuadUpdtDone'
           /\ outstanding' \subseteq outstanding
  <1> DEFINE freed == IF wofStatus = "ENABLED"
                      THEN {"QUADS"} \intersect (pendingAck \ processing)
                      ELSE {}
  <1>1. /\ Answer(done \union freed)
        /\ pendingActiveQuadUpdtDone'
               = (freed # {} \/ pendingActiveQuadUpdtDone)
    BY DEF WofOff
  <1>2. freed # {} => "QUADS" \in pendingAck
    OBVIOUS
  <1> HIDE DEF freed
  <1>3. CASE freed = {}
    <2>1. done \union freed = done
      BY <1>3
    <2> QED BY <1>1, <1>3, <2>1 DEF Answer
  <1>4. CASE freed # {}
    BY <1>1, <1>2, <1>4 DEF Answer
  <1> QED BY <1>3, <1>4

(* The flag follows the stage of the update that is answered.              *)
LEMMA QuadsProcess ==
    ASSUME ServeInv, QuietInv, QuadsInv, ProcessThread
    PROVE  QuadsInv'
  <1>1. CASE ProcessPend
    BY <1>1, QuadsKeeps
       DEF ProcessPend, quadVars, answerVars, worldVars, Starting
  <1>2. CASE ProcessWake
    <2>1. /\ process' \in Slots \union {"REGISTER", "done"}
          /\ process' \in Slots => Due(process')
          /\ UNCHANGED <<args, sgpe, pendingActiveQuadUpdtDone, outstanding>>
      BY <1>2, NextWorkIs DEF ProcessWake, tableOnly, quadVars, worldVars
    <2> QED BY <2>1, SlotNames DEF Starting, Due, QuadsInv, Changing
  <1>3. CASE ProcessDone
    BY <1>3, QuadsKeeps
       DEF ProcessDone, Halt, tableOnly, quadVars, answerVars, worldVars,
           processVars, Starting
  <1>4. ASSUME NEW slot \in {"WOF_CTRL", "CLIP", "VFRT"},
               NEW next \in {"WOF_CTRL_2", "CLIP_2", "VFRT_2"},
               RefuseSuspended(slot, next)
        PROVE  QuadsInv'
    <2>1. /\ UNCHANGED <<args, sgpe, pendingActiveQuadUpdtDone, outstanding>>
          /\ process' = next
      BY <1>4 DEF RefuseSuspended, QuietInv, Calm, Suspended, processFrame,
         tableOnly, quadVars, worldVars
    <2> QED BY <2>1, QuadsKeeps DEF Starting
  <1>5. CASE WofCtrl2
    <2>1. UNCHANGED <<args, sgpe>>
      BY <1>5 DEF WofCtrl2, processFrame, worldVars
    <2>2. \/ /\ process' = "CTRL_STOP"
             /\ UNCHANGED <<outstanding, pendingActiveQuadUpdtDone>>
          \/ /\ Served("WOF_CTRL") /\ UNCHANGED pendingActiveQuadUpdtDone
             /\ UNCHANGED outstanding \/ Acked("WOF_CTRL")
          \/ Served("WOF_CTRL") /\ WofOff({"WOF_CTRL"})
      BY <1>5 DEF WofCtrl2
    <2>3. CASE /\ process' = "CTRL_STOP"
               /\ UNCHANGED <<outstanding, pendingActiveQuadUpdtDone>>
      BY <2>1, <2>3, QuadsKeeps DEF Starting
    <2>4. CASE /\ Served("WOF_CTRL") /\ UNCHANGED pendingActiveQuadUpdtDone
               /\ UNCHANGED outstanding \/ Acked("WOF_CTRL")
      BY <2>1, <2>4, QuadsServed, SlotNames DEF Acked, Answer
    <2>5. CASE Served("WOF_CTRL") /\ WofOff({"WOF_CTRL"})
      BY <2>1, <2>5, WofOffIs, QuadsServed, SlotNames DEF Answer
    <2> QED BY <2>2, <2>3, <2>4, <2>5
  <1>6. CASE CtrlStopWait
    <2>1. CASE Halt("CTRL_STOP_UPDT_BAD_ACK")
      BY <2>1, QuadsKeeps
         DEF Halt, quadVars, answerVars, worldVars, processVars, Starting
    <2>2. CASE ~Halt("CTRL_STOP_UPDT_BAD_ACK")
      BY <1>6, <2>2, QuadsServed, SlotNames
         DEF CtrlStopWait, processFrame, answerVars, worldVars
    <2> QED BY <2>1, <2>2
  <1>7. CASE UpdtActiveCores \/ SetPmcrReq \/ AckSgpe
    <2>1. /\ process \in {"CORES", "SET_PMCR"} \union AckSlots
          /\ UNCHANGED <<args, sgpe, pendingActiveQuadUpdtDone>>
          /\ Served(process)
          /\ UNCHANGED outstanding \/ Acked(process)
      BY <1>7 DEF UpdtActiveCores, SetPmcrReq, AckSgpe, processFrame,
         tableOnly, quadVars, answerVars, worldVars
    <2>2. PICK slot \in Slots \ {"QUADS"} : slot = process
      BY <2>1, SlotNames DEF AckSlots
    <2> QED BY <2>1, <2>2, QuadsServed DEF Acked, Answer
  <1>8. CASE UpdtActiveQuads
    <2>1. /\ process = "QUADS" /\ Served("QUADS")
          /\ UNCHANGED <<args, sgpe>>
          /\ \/ UNCHANGED <<outstanding, pendingActiveQuadUpdtDone>>
             \/ /\ Acked("QUADS")
                /\ pendingActiveQuadUpdtDone' = (args.QUADS.stage = "NOTIFY")
      BY <1>8 DEF UpdtActiveQuads, processFrame, answerVars, worldVars
    <2>2. "QUADS" \in Slots
      BY SlotNames
    <2>3. CASE UNCHANGED <<outstanding, pendingActiveQuadUpdtDone>>
      BY <2>1, <2>2, <2>3, QuadsServed
    <2>4. CASE /\ Acked("QUADS")
               /\ pendingActiveQuadUpdtDone' = (args.QUADS.stage = "NOTIFY")
      <3>1. "QUADS" \in outstanding
        BY <2>1, SlotNames, LabelFacts
           DEF ServeInv, Passes, InPass, QuietInv, Accounts, AckSlots,
               TableIsOutstanding
      <3>2. sgpe.quadOp = args.QUADS.stage
        BY <3>1 DEF QuadsInv
      <3>3. CASE args.QUADS.stage = "NOTIFY"
        BY <2>1, <2>2, <2>4, <3>3, QuadsServed DEF Acked, Answer
      <3>4. CASE args.QUADS.stage # "NOTIFY"
        <4>1. ~Changing' /\ ~pendingActiveQuadUpdtDone'
          BY <2>1, <2>4, <3>1, <3>2, <3>4 DEF Changing, QuadsInv
        <4>2. outstanding' \subseteq outstanding
          BY <2>4 DEF Acked, Answer
        <4> QED BY <2>1, <4>1, <4>2 DEF QuadsInv
      <3> QED BY <3>3, <3>4
    <2> QED BY <2>1, <2>3, <2>4
  <1>9. CASE StartStop
    <2>1. /\ UNCHANGED <<args, sgpe, pendingActiveQuadUpdtDone, outstanding>>
          /\ process = "START_STOP"
      BY <1>9 DEF StartStop, QuietInv, Calm, Suspended, processFrame,
         tableOnly, quadVars, worldVars
    <2> QED BY <2>1, QuadsKeeps DEF Starting
  <1>10. CASE StartStop2
    <2>1. /\ UNCHANGED <<args, sgpe>> /\ process = "START_STOP_2"
          /\ \/ UNCHANGED <<pendingActiveQuadUpdtDone, outstanding>>
             \/ /\ Served("START_STOP") /\ Acked("START_STOP")
                /\ UNCHANGED pendingActiveQuadUpdtDone
             \/ Served("START_STOP") /\ WofOff({"START_STOP"})
      BY <1>10 DEF StartStop2, PstateStop, processFrame, answerVars, worldVars
    <2>2. CASE UNCHANGED <<pendingActiveQuadUpdtDone, outstanding>>
      BY <2>1, <2>2, QuadsKeeps DEF Starting
    <2>3. CASE /\ Served("START_STOP") /\ Acked("START_STOP")
               /\ UNCHANGED pendingActiveQuadUpdtDone
      BY <2>1, <2>3, QuadsServed, SlotNames DEF Acked, Answer
    <2>4. CASE Served("START_STOP") /\ WofOff({"START_STOP"})
      BY <2>1, <2>4, WofOffIs, QuadsServed, SlotNames DEF Answer
    <2> QED BY <2>1, <2>2, <2>3, <2>4
  <1>11. CASE Started
    <2>1. CASE Halt("SEMAPHORE_OVERFLOW")
      BY <2>1, QuadsKeeps
         DEF Halt, quadVars, answerVars, worldVars, processVars, Starting
    <2>2. CASE ~Halt("SEMAPHORE_OVERFLOW")
      BY <1>11, <2>2, QuadsServed, SlotNames
         DEF Started, processFrame, quadVars, worldVars, Acked, Answer
    <2> QED BY <2>1, <2>2
  <1>12. CASE ClipUpdt2 \/ WofVfrt2
    <2>1. PICK slot \in {"CLIP", "VFRT"} :
             /\ Served(slot)
             /\ UNCHANGED <<args, sgpe, pendingActiveQuadUpdtDone>>
             /\ UNCHANGED outstanding \/ Acked(slot)
      BY <1>12 DEF ClipUpdt2, WofVfrt2, processFrame, quadVars, worldVars
    <2> QED BY <2>1, QuadsServed, SlotNames DEF Acked, Answer
  <1>13. CASE Registration
    BY <1>13, QuadsKeeps DEF Registration, answerVars, Starting
  <1> QED
    BY <1>1, <1>2, <1>3, <1>4, <1>5, <1>6, <1>7, <1>8, <1>9, <1>10, <1>11,
       <1>12, <1>13 DEF ProcessThread, WofCtrl, ClipUpdt, WofVfrt

(* The actuate thread answers a NOTIFY only with the flag raised.          *)
LEMMA QuadsActuate ==
    ASSUME ServeInv, QuietInv, QuadsInv, ActuateThread
    PROVE  QuadsInv'
  <1>1. /\ UNCHANGED <<args, sgpe, process>>
        /\ process = "pend"
    BY DEF ActuateThread, ActuateMay, ActuateTop, ActuatePend, ActuateLoop,
       DoStep, ActuateAcks, ActuateRestore, Halt, Leave, SafeMode, Suspend,
       Stop, actuateFrame, processVars, worldVars
  <1>2. CASE ActuateAcks
    <2>1. /\ outstanding' \subseteq outstanding
          /\ pendingActiveQuadUpdtDone => pendingActiveQuadUpdtDone'
          /\ \/ pendingActiveQuadUpdtDone'
             \/ "QUADS" \in outstanding => "QUADS" \in outstanding'
      BY <1>2 DEF ActuateAcks, Answer
    <2> QED BY <1>1, <2>1 DEF QuadsInv, Changing, Starting
  <1>3. CASE ~ActuateAcks
    <2>1. UNCHANGED <<outstanding, pendingActiveQuadUpdtDone>>
      BY <1>3 DEF ActuateThread, ActuateTop, ActuatePend, ActuateLoop, DoStep,
         ActuateRestore, Halt, Leave, SafeMode, Suspend, Stop, QuietInv, Calm,
         requestVars, quadVars, answerVars
    <2> QED BY <1>1, <2>1, QuadsKeeps DEF Starting
  <1> QED BY <1>2, <1>3

(* The SGPE goes from NOTIFY to DONE and from DONE to NOTIFY.              *)
LEMMA QuadsPartners ==
    ASSUME ServeInv, QuietInv, QuadsInv, PartnersStep
    PROVE  QuadsInv'
  <1>1. UNCHANGED <<process, pendingActiveQuadUpdtDone>>
    BY PartnersAre DEF processVars, quadVars
  <1>2. IsSgpe(sgpe) /\ IsArgs(args)
    BY DEF QuadsInv
  <1>3. CASE \E slot \in OccSlots : OccSend(slot)
    <2>1. PICK slot \in OccSlots : OccSend(slot)
      BY <1>3
    <2>2. /\ UNCHANGED sgpe /\ outstanding' = outstanding \union {slot}
          /\ slot # "QUADS"
      BY <2>1 DEF OccSend, Send, OccSlots
    <2>3. IsArgs(args') /\ args'.QUADS = args.QUADS
      BY <1>2, <2>1 DEF OccSend, IsArgs
    <2> QED BY <1>1, <2>2, <2>3 DEF QuadsInv, Changing, Starting
  <1>4. CASE SgpeRequests
    <2>1. CASE \E type \in {"entry", "exit"}, q \in SUBSET Quads :
                  QuadsNotify(type, q)
      <3>1. /\ outstanding' = outstanding \union {"QUADS"}
            /\ sgpe' = [sgpe EXCEPT !.quadOp = "NOTIFY"]
            /\ \E type, q : args' = [args EXCEPT
                  !.QUADS = [type |-> type, stage |-> "NOTIFY", units |-> q]]
        BY <2>1 DEF QuadsNotify, Send
      <3>2. IsSgpe(sgpe') /\ sgpe'.quadOp = "NOTIFY"
        BY <1>2, <3>1 DEF IsSgpe
      <3>3. IsArgs(args') /\ args'.QUADS.stage = "NOTIFY"
        BY <1>2, <3>1 DEF IsArgs, IsUpdate
      <3> QED BY <1>1, <3>1, <3>2, <3>3 DEF QuadsInv, Changing, Starting
    <2>2. CASE \E type \in {"entry", "exit"}, c \in SUBSET Cores :
                  CoresSend(type, c)
      <3>1. /\ outstanding' = outstanding \union {"CORES"}
            /\ sgpe' = [sgpe EXCEPT !.coreOp = "SENT"]
            /\ \E u : args' = [args EXCEPT !.CORES = u]
        BY <2>2 DEF CoresSend, Send
      <3>2. IsSgpe(sgpe') /\ sgpe'.quadOp = sgpe.quadOp
        BY <1>2, <3>1 DEF IsSgpe
      <3>3. IsArgs(args') /\ args'.QUADS = args.QUADS
        BY <1>2, <3>1 DEF IsArgs
      <3> QED BY <1>1, <3>1, <3>2, <3>3 DEF QuadsInv, Changing, Starting
    <2> QED BY <1>4, <2>1, <2>2 DEF SgpeRequests
  <1>5. CASE QuadsPoll
    <2>1. /\ UNCHANGED <<args, outstanding>> /\ "QUADS" \notin outstanding
          /\ \/ /\ sgpe.quadOp = "NOTIFY"
                /\ \E q : sgpe' = [sgpe EXCEPT !.quadOp = "MID", !.quads = q]
             \/ sgpe' = [sgpe EXCEPT !.quadOp = "idle"]
      BY <1>5 DEF QuadsPoll, answerVars
    <2>2. /\ IsSgpe(sgpe')
          /\ \/ sgpe'.quadOp = "MID" /\ sgpe.quadOp = "NOTIFY"
             \/ sgpe'.quadOp = "idle"
      BY <1>2, <2>1 DEF IsSgpe
    <2> QED BY <1>1, <2>1, <2>2 DEF QuadsInv, Changing, Starting
  <1>6. CASE QuadsDone
    <2>1. /\ sgpe.quadOp = "MID"
          /\ \/ /\ outstanding' = outstanding \union {"QUADS"}
                /\ args' = [args EXCEPT !.QUADS.stage = "DONE"]
                /\ sgpe' = [sgpe EXCEPT !.quadOp = "DONE"]
             \/ /\ UNCHANGED <<args, outstanding>>
                /\ sgpe' = [sgpe EXCEPT !.quadOp = "idle"]
      BY <1>6 DEF QuadsDone, Send
    <2>2. "QUADS" \notin outstanding
      BY <2>1 DEF QuadsInv
    <2>3. CASE /\ outstanding' = outstanding \union {"QUADS"}
               /\ args' = [args EXCEPT !.QUADS.stage = "DONE"]
               /\ sgpe' = [sgpe EXCEPT !.quadOp = "DONE"]
      <3>1. IsSgpe(sgpe') /\ sgpe'.quadOp = "DONE"
        BY <1>2, <2>3 DEF IsSgpe
      <3>2. IsArgs(args') /\ args'.QUADS.stage = "DONE"
        BY <1>2, <2>3 DEF IsArgs, IsUpdate
      <3> QED BY <1>1, <2>3, <3>1, <3>2 DEF QuadsInv, Changing, Starting
    <2>4. CASE /\ UNCHANGED <<args, outstanding>>
               /\ sgpe' = [sgpe EXCEPT !.quadOp = "idle"]
      <3>1. IsSgpe(sgpe') /\ sgpe'.quadOp = "idle"
        BY <1>2, <2>4 DEF IsSgpe
      <3> QED BY <1>1, <2>2, <2>4, <3>1 DEF QuadsInv, Changing, Starting
    <2> QED BY <2>1, <2>3, <2>4
  <1>7. CASE SgpeHandlers \/ \E f \in Flags : OccFlag(f)
    <2>1. /\ UNCHANGED <<args, outstanding>>
          /\ \/ UNCHANGED sgpe
             \/ \E u, c : sgpe' = [sgpe EXCEPT !.coreOp = u, !.cores = c]
             \/ sgpe' = [sgpe EXCEPT !.updates = TRUE]
             \/ sgpe' = [sgpe EXCEPT !.suspended = TRUE]
      BY <1>7 DEF SgpeHandlers, CoresPoll, AnswerCtrl, AnswerSuspend, OccFlag,
         answerVars
    <2>2. IsSgpe(sgpe') /\ sgpe'.quadOp = sgpe.quadOp
      BY <1>2, <2>1 DEF IsSgpe
    <2> QED BY <1>1, <2>1, <2>2 DEF QuadsInv, Changing, Starting
  <1> QED BY <1>3, <1>4, <1>5, <1>6, <1>7 DEF PartnersStep, SgpeThread

(* No update is under way at first.                                        *)
LEMMA QuadsInit ==
    ASSUME Init PROVE QuadsInv
  BY DEF Init, QuadsInv, IsSgpe, IsArgs, IsUpdate, NoUpdate, Changing, Starting

(* QuadsInv is inductive with the other two.                               *)
LEMMA QuadsNext ==
    ASSUME ServeInv, QuietInv, QuadsInv, Flags = {}, Faults = {},
           [Next]_<<vars, scenario>>
    PROVE  QuadsInv'
  <1>1. CASE UNCHANGED <<vars, scenario>>
    BY <1>1, QuadsKeeps
       DEF vars, quadVars, processVars, answerVars, worldVars, Starting
  <1>2. CASE IpcInterrupt
    <2>1. wire \intersect pendingAck = {}
      BY DEF QuietInv, Accounts, TableIsOutstanding
    <2>2. /\ UNCHANGED <<args, sgpe, pendingActiveQuadUpdtDone>>
          /\ outstanding' = outstanding \ (wire \intersect pendingAck)
          /\ process' \in {process, "woken"}
      BY <1>2 DEF IpcInterrupt, Answer, PostProcess, quadVars, worldVars
    <2> QED BY <2>1, <2>2, QuadsKeeps DEF Starting
  <1>3. CASE Type4Interrupt
    BY <1>3, QuadsKeeps
       DEF Type4Interrupt, Halt, PostProcess, quadVars, processVars,
           answerVars, worldVars, Starting
  <1>4. CASE Next /\ ~IpcInterrupt /\ ~Type4Interrupt
    <2>1. ~HandleOccflgRequests /\ ~(\E f \in Faults : ErrorInterrupt(f))
      BY DEF HandleOccflgRequests, QuietInv, Calm
    <2> QED BY <1>4, <2>1, QuadsProcess, QuadsActuate, QuadsPartners
            DEF Next, PartnersStep
  <1> QED BY <1>1, <1>2, <1>3, <1>4

(* Pstates do not start while the SGPE takes quads out or brings them in:  *)
(* a START_STOP that comes between NOTIFY and DONE is held up, and no      *)
(* NOTIFY is answered once the start is under way                          *)
(* (pendingActiveQuadUpdtDone, p9_pgpe_thread_process_requests).           *)
THEOREM StartsAreBetweenTransitions ==
    ASSUME Flags = {}, Faults = {}
    PROVE  Spec => []StartsBetweenTransitions
  <1>1. Init => ServeInv /\ QuietInv /\ QuadsInv
    BY ServeInit, QuietInit, QuadsInit
  <1>2. ServeInv /\ QuietInv /\ QuadsInv /\ [Next]_<<vars, scenario>>
            => (ServeInv /\ QuietInv /\ QuadsInv)'
    BY ServeNext, QuietNext, QuadsNext
  <1>3. QuadsInv => StartsBetweenTransitions
    BY DEF QuadsInv, Changing, Starting, StartsBetweenTransitions
  <1> QED BY <1>1, <1>2, <1>3, PTL DEF Spec

-----------------------------------------------------------------------------
(* The types.                                                              *)

Message(units) == [type: {"none", "entry", "exit"},
                   stage: {"none", "NOTIFY", "DONE"}, units: SUBSET units]
Messages == [START_STOP: {"start", "stop"}, WOF_CTRL: {"on", "off"},
             VFRT: SUBSET Quads, QUADS: Message(Quads), CORES: Message(Cores)]
Replies == [QUADS: SUBSET Quads, CORES: (SUBSET Cores) \union {NULL},
            CTRL: (SUBSET Cores) \union {NULL}]
SgpeStates == [quads: SUBSET Quads, cores: SUBSET Cores,
               quadOp: {"idle", "NOTIFY", "MID", "DONE"},
               coreOp: {"idle", "SENT"}, updates: BOOLEAN,
               suspended: BOOLEAN]

StatusTypes ==
    /\ pstatesStatus \in Statuses /\ wofStatus \in {"ENABLED", "DISABLED"}
    /\ severeFault \subseteq Faults /\ distance \in 0 .. MaxDistance
    /\ semActuate \in {0, 1} /\ toSgpe \subseteq {"CTRL", "SUSPEND"}
    /\ wire \subseteq Requests \union AckSlots
    /\ outstanding \subseteq Requests
UnitTypes ==
    /\ activeQuads \subseteq Quads /\ requestedQuads \subseteq Quads
    /\ activeCores \subseteq Cores /\ registering \subseteq Quads
    /\ pendQuadsRegisterProcess \subseteq registering
RecordTypes == args \in Messages /\ reply \in Replies /\ sgpe \in SgpeStates
TypeInv == StatusTypes /\ UnitTypes /\ RecordTypes

(* New limits are within the bound.                                        *)
LEMMA Distances ==
    ASSUME StatusTypes
    PROVE  /\ Retarget => distance' \in 0 .. MaxDistance
           /\ Nearer => distance' \in 0 .. MaxDistance
           /\ 0 \in 0 .. MaxDistance
           /\ distance > 0 => distance - 1 \in 0 .. MaxDistance
  BY PgpeAssumption DEF StatusTypes, Retarget, Nearer

(* The units of an update are quads, or cores.                             *)
LEMMA UnitsAre ==
    ASSUME args \in Messages
    PROVE  /\ args.QUADS \in Message(Quads) /\ args.CORES \in Message(Cores)
           /\ args.QUADS.units \subseteq Quads
           /\ args.CORES.units \subseteq Cores
           /\ args.VFRT \subseteq Quads
  <1>1. args.QUADS \in Message(Quads) /\ args.CORES \in Message(Cores)
    BY DEF Messages
  <1> QED BY <1>1 DEF Message, Messages

(* What the answers put into the reply.                                    *)
LEMMA RepliesAre ==
    ASSUME reply \in Replies
    PROVE  /\ \A q \in SUBSET Quads :
                  /\ [reply EXCEPT !.QUADS = q] \in Replies
                  /\ \A c \in (SUBSET Cores) \union {NULL} :
                        [reply EXCEPT !.QUADS = q, !.CORES = c] \in Replies
           /\ \A c \in (SUBSET Cores) \union {NULL} :
                  /\ [reply EXCEPT !.CORES = c] \in Replies
                  /\ [reply EXCEPT !.CTRL = c] \in Replies
           /\ reply.QUADS \in SUBSET Quads
           /\ reply.CORES \in (SUBSET Cores) \union {NULL}
           /\ reply.CTRL \in (SUBSET Cores) \union {NULL}
  BY DEF Replies

(* WOF that goes off keeps the types.                                      *)
LEMMA WofOffTypes ==
    ASSUME TypeInv, NEW done, WofOff(done)
    PROVE  /\ wofStatus' = "DISABLED" /\ outstanding' \subseteq Requests
           /\ requestedQuads' \subseteq Quads /\ reply' \in Replies
  <1>1. requestedQuads' \in SUBSET Quads
    BY UnitsAre DEF WofOff, TypeInv, UnitTypes, RecordTypes
  <1>2. reply' \in Replies
    BY <1>1, RepliesAre DEF WofOff, TypeInv, RecordTypes
  <1> QED BY <1>1, <1>2 DEF WofOff, Answer, TypeInv, StatusTypes

(* The process thread: one action after the other.                         *)
LEMMA TypesWofCtrl2 ==
    ASSUME TypeInv, WofCtrl2
    PROVE  TypeInv'
  <1>1. UNCHANGED <<args, sgpe, registering, pendQuadsRegisterProcess, wire,
                    statusVars, semActuate, activeQuads>>
    BY DEF WofCtrl2, processFrame, worldVars
  <1>2. \/ /\ UNCHANGED <<wofVars, distance, requestedQuads, toSgpe,
                          activeCores, reply>>
           /\ Acked("WOF_CTRL")
        \/ WofOff({"WOF_CTRL"}) /\ Nearer /\ UNCHANGED <<activeCores, toSgpe>>
        \/ /\ toSgpe' = toSgpe \union {"CTRL"}
           /\ reply' = [reply EXCEPT !.CTRL = NULL]
           /\ UNCHANGED <<wofVars, distance, requestedQuads, activeCores,
                          outstanding>>
        \/ WofOn(activeCores) /\ UNCHANGED <<toSgpe, reply, outstanding>>
    BY DEF WofCtrl2
  <1>3. CASE /\ UNCHANGED <<wofVars, distance, requestedQuads, toSgpe,
                            activeCores, reply>>
             /\ Acked("WOF_CTRL")
    BY <1>1, <1>3 DEF TypeInv, StatusTypes, UnitTypes, RecordTypes, Acked,
       Answer, wofVars, statusVars
  <1>4. CASE WofOff({"WOF_CTRL"}) /\ Nearer /\ UNCHANGED <<activeCores, toSgpe>>
    BY <1>1, <1>4, WofOffTypes, Distances
       DEF TypeInv, StatusTypes, UnitTypes, RecordTypes, statusVars
  <1>5. CASE /\ toSgpe' = toSgpe \union {"CTRL"}
             /\ reply' = [reply EXCEPT !.CTRL = NULL]
             /\ UNCHANGED <<wofVars, distance, requestedQuads, activeCores,
                            outstanding>>
    <2>1. reply' \in Replies
      <3>1. NULL \in (SUBSET Cores) \union {NULL}
        OBVIOUS
      <3>2. reply \in Replies
        BY DEF TypeInv, RecordTypes
      <3> QED BY <1>5, <3>1, <3>2, RepliesAre
    <2> QED BY <1>1, <1>5, <2>1
            DEF TypeInv, StatusTypes, UnitTypes, RecordTypes, wofVars,
                statusVars
  <1>6. CASE WofOn(activeCores) /\ UNCHANGED <<toSgpe, reply, outstanding>>
    BY <1>1, <1>6, Distances
       DEF TypeInv, StatusTypes, UnitTypes, RecordTypes, WofOn, statusVars
  <1> QED BY <1>2, <1>3, <1>4, <1>5, <1>6

LEMMA TypesCtrlStopWait ==
    ASSUME TypeInv, CtrlStopWait
    PROVE  TypeInv'
  <1>1. CASE Halt("CTRL_STOP_UPDT_BAD_ACK")
    BY <1>1 DEF TypeInv, StatusTypes, UnitTypes, RecordTypes, Halt, statusVars,
       wofVars, quadVars, actuateVars, answerVars, worldVars
  <1>2. CASE ~Halt("CTRL_STOP_UPDT_BAD_ACK")
    <2>1. /\ reply.CTRL # NULL /\ WofOn(reply.CTRL)
          /\ UNCHANGED <<args, sgpe, registering, pendQuadsRegisterProcess,
                wire, statusVars, semActuate, activeQuads, answerVars, toSgpe>>
      BY <1>2 DEF CtrlStopWait, processFrame, worldVars
    <2>2. reply.CTRL \subseteq Cores
      <3>1. reply.CTRL \in (SUBSET Cores) \union {NULL}
        BY RepliesAre DEF TypeInv, RecordTypes
      <3>2. reply.CTRL # NULL
        BY <2>1
      <3> QED BY <3>1, <3>2
    <2> QED BY <2>1, <2>2, Distances
            DEF TypeInv, StatusTypes, UnitTypes, RecordTypes, WofOn,
                statusVars, answerVars
  <1> QED BY <1>1, <1>2

LEMMA TypesUpdates ==
    ASSUME TypeInv, UpdtActiveCores \/ UpdtActiveQuads
    PROVE  TypeInv'
  <1>1. args.CORES.units \subseteq Cores /\ args.QUADS.units \subseteq Quads
    BY UnitsAre DEF TypeInv, RecordTypes
  <1>2. CASE UpdtActiveCores
    <2>1. activeCores' \in SUBSET Cores
      BY <1>1, <1>2 DEF UpdtActiveCores, CoresAfter, TypeInv, UnitTypes
    <2>2. reply' \in Replies
      <3>1. \/ UNCHANGED reply
            \/ \E c : /\ reply' = [reply EXCEPT !.CORES = c]
                     /\ c \in {activeCores', NULL}
        BY <1>2 DEF UpdtActiveCores, answerVars
      <3>2. CASE UNCHANGED reply
        BY <3>2 DEF TypeInv, RecordTypes
      <3>3. CASE \E c : /\ reply' = [reply EXCEPT !.CORES = c]
                       /\ c \in {activeCores', NULL}
        <4>1. PICK c : /\ reply' = [reply EXCEPT !.CORES = c]
                       /\ c \in {activeCores', NULL}
          BY <3>3
        <4>2. c \in (SUBSET Cores) \union {NULL}
          <5>1. c \in {activeCores', NULL}
            BY <4>1
          <5> QED BY <2>1, <5>1
        <4>3. reply \in Replies
          BY DEF TypeInv, RecordTypes
        <4> QED BY <4>1, <4>2, <4>3, RepliesAre
      <3> QED BY <3>1, <3>2, <3>3
    <2>3. distance' \in 0 .. MaxDistance
      BY <1>2, Distances DEF UpdtActiveCores, TypeInv, StatusTypes
    <2>4. outstanding' \subseteq outstanding
      BY <1>2 DEF UpdtActiveCores, Acked, Answer, answerVars
    <2> QED BY <1>2, <2>1, <2>2, <2>3, <2>4
            DEF UpdtActiveCores, TypeInv, StatusTypes, UnitTypes, RecordTypes,
                processFrame, statusVars, wofVars, quadVars, worldVars
  <1>3. CASE UpdtActiveQuads
    <2>1. requestedQuads' \in SUBSET Quads /\ activeQuads' \in SUBSET Quads
      BY <1>1, <1>3 DEF UpdtActiveQuads, GoesOut, TypeInv, UnitTypes
    <2>2. reply' \in Replies
      <3>1. \/ UNCHANGED reply
            \/ reply' = [reply EXCEPT !.QUADS = List(args.QUADS)]
        BY <1>3 DEF UpdtActiveQuads, answerVars
      <3>2. List(args.QUADS) \in SUBSET Quads
        BY <2>1 DEF List
      <3>3. reply \in Replies
        BY DEF TypeInv, RecordTypes
      <3> QED BY <3>1, <3>2, <3>3, RepliesAre
    <2>3. distance' \in 0 .. MaxDistance
      BY <1>3, Distances DEF UpdtActiveQuads, TypeInv, StatusTypes
    <2>4. outstanding' \subseteq outstanding
      BY <1>3 DEF UpdtActiveQuads, Acked, Answer, answerVars
    <2> QED BY <1>3, <2>1, <2>2, <2>3, <2>4
            DEF UpdtActiveQuads, TypeInv, StatusTypes, UnitTypes, RecordTypes,
                processFrame, statusVars, wofVars, worldVars
  <1> QED BY <1>2, <1>3

(* A post that does not overflow leaves at most one.                       *)
LEMMA PostsActuate ==
    ASSUME StatusTypes, ~PostOverflows, PostActuate
    PROVE  semActuate' \in {0, 1}
  BY DEF StatusTypes, PostOverflows, PostActuate

LEMMA TypesStarts ==
    ASSUME TypeInv, StartStop2 \/ Started
    PROVE  TypeInv'
  <1>1. CASE StartStop2
    <2>1. /\ UNCHANGED <<processFrame, activeQuads, activeCores, severeFault,
                         distance, semActuate, toSgpe>>
          /\ pstatesStatus' \in Statuses
          /\ \/ /\ UNCHANGED <<wofVars, requestedQuads, reply>>
                /\ outstanding' \subseteq outstanding
             \/ WofOff({"START_STOP"})
      BY <1>1 DEF StartStop2, PstateStop, Acked, Answer, answerVars, Statuses,
         TypeInv, StatusTypes
    <2> QED BY <2>1, WofOffTypes
            DEF TypeInv, StatusTypes, UnitTypes, RecordTypes, processFrame,
                worldVars, wofVars
  <1>2. CASE Started
    <2>1. CASE Halt("SEMAPHORE_OVERFLOW")
      BY <2>1 DEF TypeInv, StatusTypes, UnitTypes, RecordTypes, Halt,
         statusVars, wofVars, quadVars, actuateVars, answerVars, worldVars
    <2>2. CASE ~Halt("SEMAPHORE_OVERFLOW")
      <3>1. semActuate' \in {0, 1} /\ distance' \in 0 .. MaxDistance
        BY <1>2, <2>2, PostsActuate, Distances DEF Started, TypeInv
      <3>2. outstanding' \subseteq outstanding /\ pstatesStatus' \in Statuses
        BY <1>2, <2>2 DEF Started, Acked, Answer, Statuses
      <3> QED BY <1>2, <2>2, <3>1, <3>2
              DEF Started, TypeInv, StatusTypes, UnitTypes, RecordTypes,
                  processFrame, wofVars, quadVars, worldVars
    <2> QED BY <2>1, <2>2
  <1> QED BY <1>1, <1>2

(* The others leave the lists alone.                                       *)
LEMMA TypesProcess ==
    ASSUME TypeInv, ProcessThread
    PROVE  TypeInv'
  <1>1. ASSUME UNCHANGED <<wofStatus, severeFault, semActuate, toSgpe, wire,
                  activeQuads, requestedQuads, activeCores, registering,
                  pendQuadsRegisterProcess, args, reply, sgpe>>,
               pstatesStatus' \in Statuses, distance' \in 0 .. MaxDistance,
               outstanding' \subseteq outstanding
        PROVE  TypeInv'
    BY <1>1 DEF TypeInv, StatusTypes, UnitTypes, RecordTypes
  <1>2. pstatesStatus \in Statuses /\ distance \in 0 .. MaxDistance
    BY DEF TypeInv, StatusTypes
  <1>3. CASE ProcessPend \/ ProcessWake \/ ProcessDone
    BY <1>1, <1>2, <1>3
       DEF ProcessPend, ProcessWake, ProcessDone, Halt, tableOnly, statusVars,
           wofVars, quadVars, actuateVars, answerVars, worldVars
  <1>4. CASE WofCtrl \/ ClipUpdt \/ WofVfrt \/ StartStop \/ SetPmcrReq
    <2>1. /\ UNCHANGED <<processFrame, tableOnly>>
          /\ outstanding' \subseteq outstanding
      BY <1>4 DEF WofCtrl, ClipUpdt, WofVfrt, StartStop, SetPmcrReq,
         RefuseSuspended, Acked, Answer
    <2> QED BY <1>1, <1>2, <2>1
            DEF processFrame, tableOnly, statusVars, wofVars, quadVars,
                worldVars
  <1>5. CASE ClipUpdt2 \/ WofVfrt2
    <2>1. distance' \in 0 .. MaxDistance
      BY <1>2, <1>5, Distances DEF ClipUpdt2, WofVfrt2, TypeInv
    <2>2. outstanding' \subseteq outstanding
      BY <1>5 DEF ClipUpdt2, WofVfrt2, Acked, Answer
    <2> QED BY <1>1, <1>2, <1>5, <2>1, <2>2
            DEF ClipUpdt2, WofVfrt2, processFrame, statusVars, wofVars,
                quadVars, worldVars
  <1>6. CASE AckSgpe
    <2>1. pstatesStatus' \in Statuses
      BY <1>2, <1>6 DEF AckSgpe, Statuses, Suspended
    <2> QED BY <1>1, <1>2, <1>6, <2>1
            DEF AckSgpe, processFrame, wofVars, quadVars, answerVars, worldVars
  <1>7. CASE Registration
    <2>1. distance' \in 0 .. MaxDistance
      BY <1>2, <1>7, Distances DEF Registration, TypeInv
    <2> QED BY <1>7, <2>1
            DEF Registration, TypeInv, StatusTypes, UnitTypes, RecordTypes,
                statusVars, wofVars, actuateVars, answerVars
  <1> QED BY <1>3, <1>4, <1>5, <1>6, <1>7, TypesWofCtrl2, TypesCtrlStopWait,
             TypesUpdates, TypesStarts DEF ProcessThread

(* The answers on a fault.                                                 *)
LEMMA AckOnFaultTypes ==
    ASSUME TypeInv, NEW slots, AckOnFault(slots)
    PROVE  /\ outstanding' \subseteq outstanding
           /\ requestedQuads' \subseteq Quads /\ activeCores' \subseteq Cores
           /\ reply' \in Replies
  <1>1. requestedQuads' \in SUBSET Quads /\ activeCores' \in SUBSET Cores
    BY UnitsAre DEF AckOnFault, CoresAfter, TypeInv, UnitTypes, RecordTypes
  <1>2. reply' \in Replies
    <2>1. PICK q \in SUBSET Quads, c \in (SUBSET Cores) \union {NULL} :
             reply' = [reply EXCEPT !.QUADS = q, !.CORES = c]
      <3>1. \E q, c : /\ reply' = [reply EXCEPT !.QUADS = q, !.CORES = c]
                      /\ q \in {requestedQuads', reply.QUADS}
                      /\ c \in {activeCores', reply.CORES}
        BY DEF AckOnFault
      <3> QED BY <1>1, <3>1, RepliesAre DEF TypeInv, RecordTypes
    <2> QED BY <2>1, RepliesAre DEF TypeInv, RecordTypes
  <1> QED BY <1>1, <1>2 DEF AckOnFault, Answer

(* The actuate thread.                                                     *)
LEMMA TypesActuate ==
    ASSUME TypeInv, ActuateThread
    PROVE  TypeInv'
  <1>1. ASSUME UNCHANGED <<pstatesStatus, wofStatus, severeFault,
                  activeQuads, requestedQuads, activeCores, registering,
                  pendQuadsRegisterProcess, args, reply, sgpe>>,
               wire' \subseteq wire \union AckSlots,
               toSgpe' \subseteq toSgpe \union {"SUSPEND"},
               semActuate' \in {0, 1}, distance' \in 0 .. MaxDistance,
               outstanding' \subseteq outstanding
        PROVE  TypeInv'
    BY <1>1 DEF TypeInv, StatusTypes, UnitTypes, RecordTypes
  <1>2. /\ semActuate \in {0, 1} /\ distance \in 0 .. MaxDistance
        /\ pstatesStatus \in Statuses
    BY DEF TypeInv, StatusTypes
  <1>3. CASE ActuateTop \/ ActuatePend \/ ActuateLoop \/ Leave
    BY <1>1, <1>2, <1>3
       DEF ActuateTop, ActuatePend, ActuateLoop, Leave, actuateFrame,
           requestVars, statusVars, wofVars, quadVars, answerVars, worldVars
  <1>4. CASE DoStep
    <2>1. distance' \in 0 .. MaxDistance
      BY <1>2, <1>4, Distances DEF DoStep, TypeInv
    <2> QED BY <1>1, <1>2, <1>4, <2>1
            DEF DoStep, actuateFrame, requestVars, statusVars, wofVars,
                quadVars, answerVars, worldVars
  <1>5. CASE ActuateAcks
    <2>1. PICK q, c : /\ reply' = [reply EXCEPT !.QUADS = q, !.CORES = c]
                      /\ q \in {args.VFRT, reply.QUADS}
                      /\ c \in {activeCores, reply.CORES}
      BY <1>5 DEF ActuateAcks
    <2>2. q \in SUBSET Quads /\ c \in (SUBSET Cores) \union {NULL}
      BY <2>1, UnitsAre, RepliesAre DEF TypeInv, RecordTypes, UnitTypes
    <2>3. reply' \in Replies
      BY <2>1, <2>2, RepliesAre DEF TypeInv, RecordTypes
    <2>4. outstanding' \subseteq outstanding
      BY <1>5 DEF ActuateAcks, Answer
    <2> QED BY <1>2, <1>5, <2>3, <2>4
            DEF ActuateAcks, actuateFrame, TypeInv, StatusTypes, UnitTypes,
                RecordTypes, statusVars, wofVars, worldVars
  <1>6. CASE ActuateRestore
    BY <1>1, <1>2, <1>6
       DEF ActuateRestore, Halt, actuateFrame, requestVars, statusVars,
           wofVars, quadVars, actuateVars, answerVars, worldVars
  <1>7. CASE SafeMode
    <2>1. AckOnFault(OccAcks \union SgpeAcks)
      BY <1>7 DEF SafeMode
    <2>2. pstatesStatus' \in Statuses /\ distance' \in 0 .. MaxDistance
      BY <1>7, Distances DEF SafeMode, Statuses, Suspended, TypeInv
    <2> QED BY <1>2, <1>7, <2>1, <2>2, AckOnFaultTypes
            DEF SafeMode, actuateFrame, TypeInv, StatusTypes, UnitTypes,
                RecordTypes, worldVars
  <1>8. CASE Suspend
    <2>1. /\ wire' \subseteq wire \union AckSlots
          /\ toSgpe' \subseteq toSgpe \union {"SUSPEND"}
      BY <1>8 DEF Suspend, AckSlots
    <2> QED BY <1>1, <1>2, <1>8, <2>1
            DEF Suspend, statusVars, wofVars, quadVars, worldVars
  <1>9. CASE Stop
    <2>1. /\ UNCHANGED <<actuateFrame, severeFault, distance, activeQuads,
                         activeCores, semActuate, toSgpe>>
          /\ pstatesStatus' \in Statuses
          /\ \/ UNCHANGED <<wofVars, answerVars, requestedQuads>>
             \/ WofOff({})
      BY <1>2, <1>9 DEF Stop, PstateStop, Statuses
    <2> QED BY <2>1, WofOffTypes
            DEF TypeInv, StatusTypes, UnitTypes, RecordTypes, actuateFrame,
                answerVars, wofVars, worldVars
  <1> QED BY <1>3, <1>4, <1>5, <1>6, <1>7, <1>8, <1>9 DEF ActuateThread

(* The interrupts.                                                         *)
LEMMA TypesInterrupts ==
    ASSUME TypeInv, \/ IpcInterrupt \/ Type4Interrupt \/ HandleOccflgRequests
                    \/ \E f \in Faults : ErrorInterrupt(f)
    PROVE  TypeInv'
  <1>1. pstatesStatus \in Statuses
    BY DEF TypeInv, StatusTypes
  <1>2. CASE IpcInterrupt
    BY <1>2 DEF IpcInterrupt, Answer, TypeInv, StatusTypes, UnitTypes,
       RecordTypes, statusVars, wofVars, quadVars, actuateVars, worldVars
  <1>3. CASE Type4Interrupt
    <2>1. /\ UNCHANGED <<statusVars, wofVars, distance, quadVars,
                activeCores, actuateVars, wire, answerVars, worldVars, toSgpe>>
          /\ pendQuadsRegisterProcess'
                \subseteq pendQuadsRegisterProcess \union registering
      BY <1>3 DEF Type4Interrupt, Halt
    <2> QED BY <2>1
            DEF TypeInv, StatusTypes, UnitTypes, RecordTypes, statusVars,
                wofVars, quadVars, actuateVars, answerVars, worldVars
  <1>4. CASE HandleOccflgRequests
    <2>1. semActuate' \in {0, 1} /\ pstatesStatus' \in Statuses
      BY <1>1, <1>4, PostsActuate
         DEF HandleOccflgRequests, Halt, Statuses, Suspended, TypeInv,
             StatusTypes, statusVars, actuateVars
    <2> QED BY <1>4, <2>1
            DEF HandleOccflgRequests, TypeInv, StatusTypes,
                UnitTypes, RecordTypes, wofVars, quadVars, answerVars,
                worldVars
  <1>5. CASE \E f \in Faults : ErrorInterrupt(f)
    <2>1. PICK f \in Faults : ErrorInterrupt(f)
      BY <1>5
    <2>2. /\ severeFault' \subseteq Faults /\ pstatesStatus' \in Statuses
          /\ activeQuads' \subseteq Quads /\ distance' \in 0 .. MaxDistance
      BY <1>1, <2>1, Distances
         DEF ErrorInterrupt, TypeInv, StatusTypes, UnitTypes, Statuses,
             Suspended
    <2>3. /\ outstanding' \subseteq outstanding
          /\ requestedQuads' \subseteq Quads /\ activeCores' \subseteq Cores
          /\ reply' \in Replies
      BY <2>1, AckOnFaultTypes
         DEF ErrorInterrupt, answerVars, TypeInv, UnitTypes, RecordTypes
    <2> QED BY <2>1, <2>2, <2>3
            DEF ErrorInterrupt, TypeInv, StatusTypes, UnitTypes, RecordTypes,
                wofVars, actuateVars
  <1> QED BY <1>2, <1>3, <1>4, <1>5

(* What the OCC and the SGPE write.                                        *)
LEMMA MessagesAre ==
    ASSUME args \in Messages
    PROVE  /\ \A a \in {"start", "stop"} :
                 [args EXCEPT !.START_STOP = a] \in Messages
           /\ \A a \in {"on", "off"} :
                 [args EXCEPT !.WOF_CTRL = a] \in Messages
           /\ \A q \in SUBSET Quads : [args EXCEPT !.VFRT = q] \in Messages
           /\ \A u \in Message(Quads) : [args EXCEPT !.QUADS = u] \in Messages
           /\ \A u \in Message(Cores) : [args EXCEPT !.CORES = u] \in Messages
           /\ [args EXCEPT !.QUADS.stage = "DONE"] \in Messages
  <1>1. [args.QUADS EXCEPT !.stage = "DONE"] \in Message(Quads)
    BY UnitsAre DEF Message
  <1> QED BY <1>1 DEF Messages

LEMMA TypesOccSend ==
    ASSUME TypeInv, NEW slot \in OccSlots, OccSend(slot)
    PROVE  TypeInv'
  <1>1. args \in Messages /\ requestedQuads \in SUBSET Quads
    BY DEF TypeInv, RecordTypes, UnitTypes
  <1>2. args' \in Messages
    <2>1. CASE slot = "START_STOP"
      <3>1. PICK a \in Actions \intersect {"start", "stop"} :
               args' = [args EXCEPT !.START_STOP = a]
        BY <2>1 DEF OccSend
      <3> QED BY <1>1, <3>1, MessagesAre
    <2>2. CASE slot = "WOF_CTRL"
      <3>1. PICK a \in Actions \intersect {"on", "off"} :
               args' = [args EXCEPT !.WOF_CTRL = a]
        BY <2>2 DEF OccSend
      <3> QED BY <1>1, <3>1, MessagesAre
    <2>3. CASE slot = "VFRT"
      <3>1. args' = [args EXCEPT !.VFRT = requestedQuads]
        BY <2>3 DEF OccSend
      <3> QED BY <1>1, <3>1, MessagesAre
    <2>4. CASE slot \in {"CLIP", "SET_PMCR"}
      BY <1>1, <2>4 DEF OccSend
    <2> QED BY <2>1, <2>2, <2>3, <2>4 DEF OccSlots
  <1>3. /\ wire' \subseteq Requests \union AckSlots
        /\ outstanding' \subseteq Requests
        /\ UNCHANGED <<pgpeVars, reply, registering, sgpe, toSgpe>>
    BY DEF OccSend, Send, TypeInv, StatusTypes
  <1> QED BY <1>2, <1>3
          DEF TypeInv, StatusTypes, UnitTypes, RecordTypes, pgpeVars,
              statusVars, wofVars, quadVars, actuateVars

(* What the SGPE does to its own state.                                    *)
LEMMA SgpeStatesAre ==
    ASSUME sgpe \in SgpeStates
    PROVE  /\ \A o \in {"idle", "NOTIFY", "MID", "DONE"} :
                 [sgpe EXCEPT !.quadOp = o] \in SgpeStates
           /\ \A q \in SUBSET Quads :
                 [sgpe EXCEPT !.quadOp = "MID", !.quads = q] \in SgpeStates
           /\ [sgpe EXCEPT !.coreOp = "SENT"] \in SgpeStates
           /\ \A c \in SUBSET Cores :
                 [sgpe EXCEPT !.coreOp = "idle", !.cores = c] \in SgpeStates
           /\ [sgpe EXCEPT !.updates = TRUE] \in SgpeStates
           /\ [sgpe EXCEPT !.suspended = TRUE] \in SgpeStates
           /\ sgpe.quads \in SUBSET Quads /\ sgpe.cores \in SUBSET Cores
  BY DEF SgpeStates

LEMMA TypesSgpe ==
    ASSUME TypeInv, SgpeRequests \/ SgpeThread \/ SgpeHandlers
    PROVE  TypeInv'
  <1>1. /\ args \in Messages /\ sgpe \in SgpeStates /\ reply \in Replies
        /\ sgpe.quads \in SUBSET Quads /\ sgpe.cores \in SUBSET Cores
        /\ args.QUADS.units \subseteq Quads
        /\ args.CORES.units \subseteq Cores
    BY UnitsAre, SgpeStatesAre DEF TypeInv, RecordTypes
  <1>2. ASSUME args' \in Messages, sgpe' \in SgpeStates, reply' \in Replies,
               registering' \subseteq Quads, registering \subseteq registering',
               UNCHANGED pgpeVars, toSgpe' \subseteq toSgpe,
               wire' \subseteq wire \union Requests \union AckSlots,
               outstanding' \subseteq outstanding \union Requests
        PROVE  TypeInv'
    BY <1>2 DEF TypeInv, StatusTypes, UnitTypes, RecordTypes, pgpeVars,
       statusVars, wofVars, quadVars, actuateVars
  <1>3. registering \subseteq Quads
    BY DEF TypeInv, UnitTypes
  <1>4. ASSUME NEW type \in {"entry", "exit"}, NEW q \in SUBSET Quads,
               QuadsNotify(type, q)
        PROVE  TypeInv'
    <2>1. /\ args' = [args EXCEPT !.QUADS = [type |-> type,
                          stage |-> "NOTIFY", units |-> q]]
          /\ sgpe' = [sgpe EXCEPT !.quadOp = "NOTIFY"]
          /\ UNCHANGED <<pgpeVars, reply, registering, toSgpe>>
          /\ wire' \subseteq wire \union Requests
          /\ outstanding' \subseteq outstanding \union Requests
      BY <1>4 DEF QuadsNotify, Send
    <2>2. args' \in Messages /\ sgpe' \in SgpeStates
      BY <1>1, <2>1, MessagesAre, SgpeStatesAre DEF Message
    <2> QED BY <1>1, <1>2, <1>3, <2>1, <2>2
  <1>5. ASSUME NEW type \in {"entry", "exit"}, NEW c \in SUBSET Cores,
               CoresSend(type, c)
        PROVE  TypeInv'
    <2>1. /\ args' = [args EXCEPT !.CORES = [type |-> type,
                          stage |-> "none", units |-> c]]
          /\ sgpe' = [sgpe EXCEPT !.coreOp = "SENT"]
          /\ UNCHANGED <<pgpeVars, reply, registering, toSgpe>>
          /\ wire' \subseteq wire \union Requests
          /\ outstanding' \subseteq outstanding \union Requests
      BY <1>5 DEF CoresSend, Send
    <2>2. args' \in Messages /\ sgpe' \in SgpeStates
      BY <1>1, <2>1, MessagesAre, SgpeStatesAre DEF Message
    <2> QED BY <1>1, <1>2, <1>3, <2>1, <2>2
  <1>6. CASE QuadsPoll
    <2>1. /\ \/ \E q \in SUBSET Quads :
                   sgpe' = [sgpe EXCEPT !.quadOp = "MID", !.quads = q]
             \/ sgpe' = [sgpe EXCEPT !.quadOp = "idle"]
          /\ registering \subseteq registering' /\ registering' \subseteq Quads
          /\ UNCHANGED <<pgpeVars, wire, answerVars, args, toSgpe>>
      <3>1. ASSUME NEW q, q \in SUBSET Quads,
                   sgpe' = [sgpe EXCEPT !.quadOp = "MID", !.quads = q]
            PROVE  \E r \in SUBSET Quads :
                      sgpe' = [sgpe EXCEPT !.quadOp = "MID", !.quads = r]
        BY <3>1
      <3>2. /\ sgpe.quads \ args.QUADS.units \in SUBSET Quads
            /\ sgpe.quads \union args.QUADS.units \in SUBSET Quads
            /\ registering \union args.QUADS.units \subseteq Quads
        BY <1>1, <1>3
      <3> QED BY <1>3, <1>6, <3>1, <3>2 DEF QuadsPoll
    <2>2. sgpe' \in SgpeStates
      BY <1>1, <2>1, SgpeStatesAre
    <2> QED BY <1>1, <1>2, <2>1, <2>2 DEF answerVars
  <1>7. CASE QuadsDone
    <2>1. /\ \/ args' = [args EXCEPT !.QUADS.stage = "DONE"]
             \/ UNCHANGED args
          /\ \E o \in {"idle", "DONE"} : sgpe' = [sgpe EXCEPT !.quadOp = o]
          /\ UNCHANGED <<pgpeVars, reply, registering, toSgpe>>
          /\ wire' \subseteq wire \union Requests
          /\ outstanding' \subseteq outstanding \union Requests
      BY <1>7 DEF QuadsDone, Send
    <2>2. args' \in Messages /\ sgpe' \in SgpeStates
      BY <1>1, <2>1, MessagesAre, SgpeStatesAre
    <2> QED BY <1>1, <1>2, <1>3, <2>1, <2>2
  <1>8. CASE SgpeHandlers
    <2>1. /\ \/ \E c \in SUBSET Cores :
                   sgpe' = [sgpe EXCEPT !.coreOp = "idle", !.cores = c]
             \/ sgpe' = [sgpe EXCEPT !.updates = TRUE]
             \/ sgpe' = [sgpe EXCEPT !.suspended = TRUE]
          /\ UNCHANGED reply \/ reply' = [reply EXCEPT !.CTRL = sgpe.cores]
          /\ UNCHANGED <<pgpeVars, outstanding, args, registering>>
          /\ toSgpe' \subseteq toSgpe /\ wire' \subseteq wire \union AckSlots
      <3>1. /\ sgpe.cores \ args.CORES.units \in SUBSET Cores
            /\ sgpe.cores \union args.CORES.units \in SUBSET Cores
        BY <1>1
      <3> QED BY <1>8, <3>1
              DEF SgpeHandlers, CoresPoll, AnswerCtrl, AnswerSuspend,
                  answerVars, AckSlots
    <2>2. sgpe' \in SgpeStates
      BY <1>1, <2>1, SgpeStatesAre
    <2>3. reply' \in Replies
      <3>1. sgpe.cores \in (SUBSET Cores) \union {NULL}
        BY <1>1
      <3> QED BY <1>1, <2>1, <3>1, RepliesAre
    <2> QED BY <1>1, <1>2, <1>3, <2>1, <2>2, <2>3
  <1> QED BY <1>4, <1>5, <1>6, <1>7, <1>8 DEF SgpeRequests, SgpeThread

LEMMA TypesInit ==
    ASSUME Init PROVE TypeInv
  <1>1. StatusTypes
    BY PgpeAssumption DEF Init, StatusTypes, Statuses
  <1>2. UnitTypes
    BY DEF Init, UnitTypes
  <1>3. args \in Messages
    <2>1. NoUpdate \in Message(Quads) /\ NoUpdate \in Message(Cores)
      BY DEF NoUpdate, Message
    <2> QED BY <2>1 DEF Init, Messages
  <1>4. reply \in Replies
    <2>1. NULL \in (SUBSET Cores) \union {NULL} /\ Cores \in SUBSET Cores
      OBVIOUS
    <2> QED BY <2>1 DEF Init, Replies
  <1>5. sgpe \in SgpeStates
    BY DEF Init, SgpeStates
  <1> QED BY <1>1, <1>2, <1>3, <1>4, <1>5 DEF TypeInv, RecordTypes

LEMMA TypesNext ==
    ASSUME TypeInv, [Next]_<<vars, scenario>>
    PROVE  TypeInv'
  <1>1. CASE UNCHANGED <<vars, scenario>>
    BY <1>1 DEF vars, TypeInv, StatusTypes, UnitTypes, RecordTypes, statusVars,
       wofVars, quadVars, actuateVars, answerVars, worldVars
  <1>2. CASE \E f \in Flags : OccFlag(f)
    BY <1>2 DEF OccFlag, TypeInv, StatusTypes, UnitTypes, RecordTypes,
       pgpeVars, statusVars, wofVars, quadVars, actuateVars, answerVars
  <1> QED BY <1>1, <1>2, TypesProcess, TypesActuate, TypesInterrupts,
             TypesOccSend, TypesSgpe DEF Next

(* Every variable keeps its type, whatever the OCC asks and whatever       *)
(* fails: the lists hold quads and cores, the masks nest no deeper than    *)
(* an interrupt left masked and one section, and the semaphores hold at    *)
(* most one.                                                               *)
THEOREM PgpeTypeCorrect == Spec => []TypeOK
  <1>1. Init => ServeInv /\ TypeInv
    BY ServeInit, TypesInit
  <1>2. ServeInv /\ TypeInv /\ [Next]_<<vars, scenario>>
            => (ServeInv /\ TypeInv)'
    BY ServeNext, TypesNext
  <1>3. ServeInv /\ TypeInv => TypeOK
    <2> SUFFICES ASSUME ServeInv, TypeInv PROVE TypeOK
      OBVIOUS
    <2>1. args.QUADS \in Updates /\ args.CORES \in Updates
      BY UnitsAre DEF TypeInv, RecordTypes, Message, Updates
    <2>2. level \in {IPI2HI, DISABLED} /\ Len(stack) <= 3
      BY DEF ServeInv, MaskStack, Once, Twice
    <2> QED BY <2>1, <2>2
            DEF ServeInv, Shape, Posts, TypeInv, StatusTypes, UnitTypes, TypeOK
  <1> QED BY <1>1, <1>2, <1>3, PTL DEF Spec

-----------------------------------------------------------------------------
(* The lists of quads and of cores: what the SGPE has and what the PGPE    *)
(* has.                                                                    *)

(* An update that waits is fresh until the process thread has served it,   *)
(* and held when that leaves the answer to the actuate thread.             *)
Waits(slot) == slot \in outstanding
Fresh(slot) == slot \in wire \union processing
Held(slot) == Waits(slot) /\ ~Fresh(slot)
After(list, op) == IF op.type = "entry" THEN list \ op.units
                                        ELSE list \union op.units

(* The PGPE's quads have power, and those that have it and are not the     *)
(* PGPE's have yet to register.                                            *)
Powered ==
    /\ pgpeActive
    /\ activeQuads \subseteq sgpe.quads /\ registering \subseteq sgpe.quads
    /\ activeQuads \intersect registering = {}

(* The message stays as it is through an update.                           *)
Transition ==
    LET op == args.QUADS
    IN  /\ Waits("QUADS") => sgpe.quadOp \in {"NOTIFY", "DONE"}
        /\ Fresh("QUADS") => Waits("QUADS")
        /\ sgpe.quadOp # "idle" =>
              op.type \in {"entry", "exit"} /\ op.units # {}
        /\ sgpe.quadOp = "NOTIFY" =>
              /\ op.stage = "NOTIFY"
              /\ op.type = "entry" => /\ op.units \subseteq sgpe.quads
                                      /\ op.units \intersect registering = {}
              /\ op.type = "exit" => op.units \intersect sgpe.quads = {}
        /\ sgpe.quadOp \in {"MID", "DONE"} =>
              /\ op.type = "entry" => op.units \intersect sgpe.quads = {}
              /\ op.type = "exit" => op.units \subseteq sgpe.quads
        /\ sgpe.quadOp = "DONE" => op.stage = "DONE"

(* Only a NOTIFY for quads that leave STOP is held, for the VFRT.          *)
QuadsHeld ==
    Held("QUADS") => /\ args.QUADS.type = "exit" /\ args.QUADS.stage = "NOTIFY"
                     /\ wofStatus = "ENABLED"
                     /\ args.QUADS.units \subseteq requestedQuads

(* Entering quads are out of the PGPE's list before they lose power.       *)
Early ==
    (sgpe.quadOp = "NOTIFY" /\ ~Fresh("QUADS") /\ args.QUADS.type = "entry")
        => args.QUADS.units \intersect activeQuads = {}

(* The answer has no entering quad and every leaving one.                  *)
Returned ==
    (sgpe.quadOp \in {"NOTIFY", "DONE"} /\ ~Waits("QUADS")) =>
        IF args.QUADS.type = "entry"
        THEN reply.QUADS \intersect args.QUADS.units = {}
        ELSE args.QUADS.units \subseteq reply.QUADS

(* Without WOF the requested quads are the SGPE's: the leaving ones from   *)
(* NOTIFY on, the entering ones until DONE.                                *)
Requested ==
    LET op == args.QUADS
        asked == IF op.type = "entry" THEN op.units ELSE {}
    IN  CASE sgpe.quadOp = "NOTIFY" /\ ~Waits("QUADS") ->
                requestedQuads = IF op.type = "entry" THEN sgpe.quads
                                 ELSE sgpe.quads \union op.units
          [] sgpe.quadOp = "MID" \/ (sgpe.quadOp = "DONE" /\ Waits("QUADS")) ->
                requestedQuads = sgpe.quads \union asked
          [] OTHER -> requestedQuads = sgpe.quads
Answered ==
    (sgpe.quadOp \in {"NOTIFY", "DONE"} /\ ~Waits("QUADS"))
        => reply.QUADS = After(sgpe.quads, args.QUADS)
NoWof == "WOF_CTRL" \notin Requests
             => wofStatus = "DISABLED" /\ Requested /\ Answered

QuadLists ==
    Powered /\ Transition /\ QuadsHeld /\ Early /\ Returned /\ NoWof

(* The PGPE keeps the list of cores from the answer to CTRL_STOP_UPDT on.  *)
Known == activeCoreUpdtAction # "ERROR"
Reported ==
    /\ sgpe.updates => Known \/ process = "CTRL_STOP"
    /\ wofStatus = "ENABLED" /\ WofPhaseTwo => Known
    /\ process = "CTRL_STOP" =>
           /\ WofPhaseTwo /\ ~Known
           /\ reply.CTRL # NULL => sgpe.updates /\ reply.CTRL = sgpe.cores
    /\ "CTRL" \in toSgpe => process = "CTRL_STOP" /\ reply.CTRL = NULL
CoreMessage ==
    /\ Waits("CORES") => sgpe.coreOp = "SENT"
    /\ Fresh("CORES") => Waits("CORES")
    /\ sgpe.coreOp = "SENT" =>
           sgpe.updates /\ args.CORES.type \in {"entry", "exit"}
    /\ process = "CTRL_STOP" /\ sgpe.coreOp = "SENT" => Fresh("CORES")
CoresKept ==
    Known =>
        activeCores = IF sgpe.coreOp = "SENT" /\ ~Fresh("CORES")
                      THEN After(sgpe.cores, args.CORES) ELSE sgpe.cores
CoresAnswered ==
    sgpe.coreOp = "SENT" /\ ~Waits("CORES")
        => reply.CORES = After(sgpe.cores, args.CORES)
CoreLists == Reported /\ CoreMessage /\ CoresKept /\ CoresAnswered

Quiet == ServeInv /\ QuietInv /\ WofInv /\ TypeInv

(* Whether an update waits, is fresh or held follows from the table.       *)
LEMMA WaitsAre ==
    ASSUME Quiet
    PROVE  /\ \A slot \in RequestSlots :
                 /\ Fresh(slot) => Waits(slot)
                 /\ Held(slot) <=> slot \in pendingAck \ processing
                 /\ slot \in processing => slot \notin wire
           /\ process \in RequestSlots => Fresh(process) /\ Waits(process)
           /\ \A slot \in RequestSlots : slot \in AckSlots => FALSE
  <1>1. \A slot \in RequestSlots : slot \notin AckSlots
    BY SlotNames DEF AckSlots
  <1>2. /\ outstanding = pendingAck \union (wire \ AckSlots)
        /\ pendingAck \intersect wire = {}
        /\ processing \ AckSlots \subseteq pendingAck
    BY DEF Quiet, QuietInv, Accounts, TableIsOutstanding
  <1>3. process \in RequestSlots => process \in processing
    BY LabelFacts DEF Quiet, ServeInv, Passes, InPass, Slots, PassLabels
  <1> QED BY <1>1, <1>2, <1>3 DEF Waits, Fresh, Held

(* A step that leaves the quads of both and the message alone.             *)
LEMMA QuadListsKeep ==
    ASSUME QuadLists,
           UNCHANGED <<pgpeActive, activeQuads, registering, requestedQuads>>,
           sgpe'.quads = sgpe.quads, sgpe'.quadOp = sgpe.quadOp,
           args'.QUADS = args.QUADS, reply'.QUADS = reply.QUADS,
           Waits("QUADS")' <=> Waits("QUADS"),
           Fresh("QUADS")' <=> Fresh("QUADS"),
           wofStatus' = wofStatus \/ (wofStatus' = "DISABLED" /\ ~Held("QUADS"))
    PROVE  QuadLists'
  <1>1. Held("QUADS")' <=> Held("QUADS")
    BY DEF Held
  <1>2. Powered' /\ Transition'
    BY DEF QuadLists, Powered, Transition
  <1>3. QuadsHeld' /\ Early' /\ Returned'
    BY <1>1 DEF QuadLists, QuadsHeld, Early, Returned
  <1>4. NoWof'
    BY DEF QuadLists, NoWof, Requested, Answered, After
  <1> QED BY <1>2, <1>3, <1>4 DEF QuadLists

(* A step that leaves the cores of both and the message alone.             *)
LEMMA CoreListsKeep ==
    ASSUME CoreLists,
           UNCHANGED <<activeCores, toSgpe>>,
           activeCoreUpdtAction' = activeCoreUpdtAction \/ (Known /\ Known'),
           sgpe'.cores = sgpe.cores, sgpe'.coreOp = sgpe.coreOp,
           sgpe'.updates = sgpe.updates,
           args'.CORES = args.CORES, reply'.CORES = reply.CORES,
           reply'.CTRL = reply.CTRL,
           Waits("CORES")' <=> Waits("CORES"),
           Fresh("CORES")' <=> Fresh("CORES"),
           wofStatus' = wofStatus \/ wofStatus' = "DISABLED",
           (process' = "CTRL_STOP") <=> (process = "CTRL_STOP")
    PROVE  CoreLists'
  <1>1. Known' <=> Known
    BY DEF Known
  <1>2. Reported' /\ CoreMessage'
    BY <1>1 DEF CoreLists, Reported, CoreMessage
  <1>3. CoresKept' /\ CoresAnswered'
    BY <1>1 DEF CoreLists, CoresKept, CoresAnswered, After
  <1> QED BY <1>2, <1>3 DEF CoreLists

(* What an answer changes in the reply.                                    *)
LEMMA ReplyQuads ==
    ASSUME reply \in Replies, NEW q, reply' = [reply EXCEPT !.QUADS = q]
    PROVE  /\ reply'.QUADS = q /\ reply'.CORES = reply.CORES
           /\ reply'.CTRL = reply.CTRL
  BY DEF Replies
LEMMA ReplyCores ==
    ASSUME reply \in Replies, NEW c, reply' = [reply EXCEPT !.CORES = c]
    PROVE  /\ reply'.QUADS = reply.QUADS /\ reply'.CORES = c
           /\ reply'.CTRL = reply.CTRL
  BY DEF Replies
LEMMA ReplyCtrl ==
    ASSUME reply \in Replies, NEW c, reply' = [reply EXCEPT !.CTRL = c]
    PROVE  /\ reply'.QUADS = reply.QUADS /\ reply'.CORES = reply.CORES
           /\ reply'.CTRL = c
  BY DEF Replies
LEMMA ReplyBoth ==
    ASSUME reply \in Replies, NEW q, NEW c,
           reply' = [reply EXCEPT !.QUADS = q, !.CORES = c]
    PROVE  /\ reply'.QUADS = q /\ reply'.CORES = c
           /\ reply'.CTRL = reply.CTRL
  BY DEF Replies

(* A step of the pass that leaves both lists and their messages alone, and *)
(* whatever else it answers.                                               *)
LEMMA ListsPass ==
    ASSUME Quiet, QuadLists, CoreLists,
           UNCHANGED <<pgpeActive, activeQuads, registering, requestedQuads,
              sgpe, args, reply, activeCores, toSgpe, wofVars, wire>>,
           "QUADS" \in processing' <=> "QUADS" \in processing,
           "CORES" \in processing' <=> "CORES" \in processing,
           "QUADS" \in outstanding' <=> "QUADS" \in outstanding,
           "CORES" \in outstanding' <=> "CORES" \in outstanding,
           (process' = "CTRL_STOP") <=> (process = "CTRL_STOP")
    PROVE  QuadLists' /\ CoreLists'
  <1>1. /\ Waits("QUADS")' <=> Waits("QUADS")
        /\ Fresh("QUADS")' <=> Fresh("QUADS")
        /\ Waits("CORES")' <=> Waits("CORES")
        /\ Fresh("CORES")' <=> Fresh("CORES")
    BY DEF Waits, Fresh
  <1> QED BY <1>1, QuadListsKeep, CoreListsKeep DEF wofVars

(* The pass goes on to no CTRL_STOP.                                       *)
LEMMA ServedGoes ==
    ASSUME NEW slot \in Slots, Served(slot)
    PROVE  process' # "CTRL_STOP"
  BY PlaceIs, NextWorkIs, SlotNames DEF Served

(* WOF goes on between two updates: the requested quads are what the PGPE  *)
(* has.                                                                    *)
LEMMA WofOnQuads ==
    ASSUME Quiet, QuadLists, "WOF_CTRL" \in Requests,
           wofStatus = "DISABLED", wofStatus' = "ENABLED",
           UNCHANGED <<pgpeActive, activeQuads, registering, sgpe, args,
                       reply, outstanding, processing, wire>>
    PROVE  QuadLists'
  <1>1. /\ Waits("QUADS")' <=> Waits("QUADS")
        /\ Fresh("QUADS")' <=> Fresh("QUADS")
    BY DEF Waits, Fresh
  <1>2. ~Held("QUADS") /\ ~Held("QUADS")'
    BY <1>1 DEF QuadLists, QuadsHeld, Held
  <1>3. Powered' /\ Transition'
    BY <1>1 DEF QuadLists, Powered, Transition
  <1>4. QuadsHeld' /\ Early' /\ Returned' /\ NoWof'
    BY <1>1, <1>2 DEF QuadLists, QuadsHeld, Early, Returned, NoWof
  <1> QED BY <1>3, <1>4 DEF QuadLists

(* WOF goes off: a quad that was held gets its answer.                     *)
LEMMA WofOffLists ==
    ASSUME Quiet, QuadLists, CoreLists,
           NEW done \in SUBSET (RequestSlots \ {"QUADS", "CORES"}),
           WofOff(done),
           UNCHANGED <<pgpeActive, activeQuads, registering, sgpe, args,
                       activeCores, toSgpe, wire>>,
           "QUADS" \in processing' <=> "QUADS" \in processing,
           "CORES" \in processing' <=> "CORES" \in processing,
           (process' = "CTRL_STOP") <=> (process = "CTRL_STOP")
    PROVE  QuadLists' /\ CoreLists'
  <1> DEFINE freed == IF wofStatus = "ENABLED"
                      THEN {"QUADS"} \intersect (pendingAck \ processing)
                      ELSE {}
  <1>1. /\ wofStatus' = "DISABLED"
        /\ activeCoreUpdtAction' = IF wofStatus = "ENABLED" /\ WofPhaseTwo
                                   THEN "ACK_ONLY" ELSE activeCoreUpdtAction
        /\ outstanding' = outstanding \ (done \union freed)
        /\ requestedQuads' = IF freed = {} THEN requestedQuads
                             ELSE requestedQuads \union args.QUADS.units
        /\ reply' = [reply EXCEPT !.QUADS = IF freed = {} THEN @
                                            ELSE requestedQuads']
    BY DEF WofOff, Answer
  <1>2. freed \in {{}, {"QUADS"}}
    OBVIOUS
  <1>3. (freed # {}) <=> (wofStatus = "ENABLED" /\ Held("QUADS"))
    BY WaitsAre DEF RequestSlots, SgpeSlots
  <1> HIDE DEF freed
  <1>4. reply \in Replies
    BY DEF Quiet, TypeInv, RecordTypes
  <1>5. /\ reply'.QUADS = IF freed = {} THEN reply.QUADS ELSE requestedQuads'
        /\ reply'.CORES = reply.CORES /\ reply'.CTRL = reply.CTRL
    BY <1>1, <1>4, ReplyQuads
  <1>6. /\ Fresh("QUADS")' <=> Fresh("QUADS")
        /\ Fresh("CORES")' <=> Fresh("CORES")
        /\ Waits("CORES")' <=> Waits("CORES")
    BY <1>1, <1>2 DEF Fresh, Waits
  <1>7. CoreLists'
    <2>1. activeCoreUpdtAction' = activeCoreUpdtAction \/ (Known /\ Known')
      BY <1>1 DEF CoreLists, Reported, Known
    <2> QED BY <1>1, <1>5, <1>6, <2>1, CoreListsKeep
  <1>8. CASE freed = {}
    <2>1. Waits("QUADS")' <=> Waits("QUADS")
      BY <1>1, <1>8 DEF Waits
    <2>2. wofStatus' = wofStatus \/ ~Held("QUADS")
      BY <1>1, <1>3, <1>8 DEF Quiet, TypeInv, StatusTypes
    <2>3. QuadLists'
      BY <1>1, <1>5, <1>6, <1>8, <2>1, <2>2, QuadListsKeep
    <2> QED BY <1>7, <2>3
  <1>9. CASE freed # {}
    <2>1. freed = {"QUADS"} /\ Held("QUADS") /\ wofStatus = "ENABLED"
      BY <1>2, <1>3, <1>9
    <2>2. /\ ~Waits("QUADS")' /\ ~Fresh("QUADS")' /\ ~Held("QUADS")'
          /\ ~Fresh("QUADS")
      BY <1>1, <1>6, <2>1 DEF Waits, Held
    <2>3. /\ sgpe.quadOp = "NOTIFY" /\ args.QUADS.type = "exit"
          /\ requestedQuads' = requestedQuads \union args.QUADS.units
          /\ reply'.QUADS = requestedQuads'
      BY <1>1, <1>5, <2>1
         DEF QuadLists, Transition, QuadsHeld, Held
    <2>4. Powered' /\ Transition'
      BY <2>2 DEF QuadLists, Powered, Transition
    <2>5. QuadsHeld' /\ Early' /\ Returned'
      BY <2>2, <2>3 DEF QuadsHeld, Early, Returned
    <2>6. NoWof'
      BY <2>1 DEF QuadLists, NoWof
    <2> QED BY <1>7, <2>4, <2>5, <2>6 DEF QuadLists
  <1> QED BY <1>8, <1>9

(* While the thread is at WOF_CTRL, the OCC has sent it.                   *)
LEMMA WofAsked ==
    ASSUME Quiet, process \in {"WOF_CTRL_2", "CTRL_STOP"}
    PROVE  "WOF_CTRL" \in Requests
  <1>1. InPass /\ Current(process) = {"WOF_CTRL"}
    BY DEF InPass, PassLabels, Current
  <1>2. "WOF_CTRL" \in outstanding
    BY <1>1 DEF Quiet, QuietInv, Accounts, TableIsOutstanding
  <1> QED BY <1>2 DEF Quiet, TypeInv, StatusTypes

LEMMA ListsWofCtrl2 ==
    ASSUME Quiet, QuadLists, CoreLists, WofCtrl2
    PROVE  QuadLists' /\ CoreLists'
  <1>1. /\ UNCHANGED <<processing, pgpeActive, activeQuads, wire, args,
                       registering, sgpe>>
        /\ process = "WOF_CTRL_2" /\ "WOF_CTRL" \in Requests
        /\ reply \in Replies /\ wofStatus \in {"ENABLED", "DISABLED"}
        /\ "WOF_CTRL" \in RequestSlots \ {"QUADS", "CORES"}
        /\ Served("WOF_CTRL") => process' # "CTRL_STOP"
    BY WofAsked, ServedGoes, SlotNames
       DEF WofCtrl2, processFrame, worldVars, statusVars, Quiet, TypeInv,
           StatusTypes, RecordTypes
  <1>2. \/ /\ UNCHANGED <<wofVars, requestedQuads, toSgpe, activeCores, reply>>
           /\ Acked("WOF_CTRL") /\ Served("WOF_CTRL")
        \/ /\ WofOff({"WOF_CTRL"}) /\ UNCHANGED <<activeCores, toSgpe>>
           /\ Served("WOF_CTRL")
        \/ /\ toSgpe' = toSgpe \union {"CTRL"}
           /\ reply' = [reply EXCEPT !.CTRL = NULL]
           /\ WofPhaseTwo /\ ~Known /\ process' = "CTRL_STOP"
           /\ UNCHANGED <<wofVars, requestedQuads, activeCores, outstanding>>
        \/ /\ WofOn(activeCores) /\ UNCHANGED <<toSgpe, reply, outstanding>>
           /\ ~(WofPhaseTwo /\ ~Known) /\ wofStatus # "ENABLED"
           /\ Served("WOF_CTRL")
    <2>1. args.WOF_CTRL \in {"on", "off"}
      BY DEF Quiet, TypeInv, RecordTypes, Messages
    <2> QED BY <1>1, <2>1 DEF WofCtrl2, Known
  <1>3. CASE /\ UNCHANGED <<wofVars, requestedQuads, toSgpe, activeCores, reply>>
             /\ Acked("WOF_CTRL") /\ Served("WOF_CTRL")
    <2>1. outstanding' = outstanding \ {"WOF_CTRL"}
      BY <1>3 DEF Acked, Answer
    <2> QED BY <1>1, <1>3, <2>1, ListsPass
  <1>4. CASE /\ WofOff({"WOF_CTRL"}) /\ UNCHANGED <<activeCores, toSgpe>>
             /\ Served("WOF_CTRL")
    <2>1. {"WOF_CTRL"} \in SUBSET (RequestSlots \ {"QUADS", "CORES"})
      BY <1>1
    <2> QED BY <1>1, <1>4, <2>1, WofOffLists
  <1>5. CASE /\ toSgpe' = toSgpe \union {"CTRL"}
             /\ reply' = [reply EXCEPT !.CTRL = NULL]
             /\ WofPhaseTwo /\ ~Known /\ process' = "CTRL_STOP"
             /\ UNCHANGED <<wofVars, requestedQuads, activeCores, outstanding>>
    <2>1. /\ reply'.CTRL = NULL /\ reply'.QUADS = reply.QUADS
          /\ reply'.CORES = reply.CORES
      BY <1>1, <1>5, ReplyCtrl
    <2>2. /\ Waits("QUADS")' <=> Waits("QUADS")
          /\ Fresh("QUADS")' <=> Fresh("QUADS")
          /\ Waits("CORES")' <=> Waits("CORES")
          /\ Fresh("CORES")' <=> Fresh("CORES")
          /\ ~Known'
      BY <1>1, <1>5 DEF Waits, Fresh, Known, wofVars
    <2>3. QuadLists'
      BY <1>1, <1>5, <2>1, <2>2, QuadListsKeep DEF wofVars
    <2>4. ~sgpe.updates /\ sgpe.coreOp # "SENT"
      BY <1>1, <1>5 DEF CoreLists, Reported, CoreMessage
    <2>5. Reported' /\ CoreMessage'
      BY <1>1, <1>5, <2>1, <2>2, <2>4
         DEF CoreLists, Reported, CoreMessage, wofVars
    <2>6. CoresKept' /\ CoresAnswered'
      BY <1>1, <2>2, <2>4 DEF CoresKept, CoresAnswered
    <2> QED BY <2>3, <2>5, <2>6 DEF CoreLists
  <1>6. CASE /\ WofOn(activeCores) /\ UNCHANGED <<toSgpe, reply, outstanding>>
             /\ ~(WofPhaseTwo /\ ~Known) /\ wofStatus # "ENABLED"
             /\ Served("WOF_CTRL")
    <2>1. /\ wofStatus = "DISABLED" /\ wofStatus' = "ENABLED"
          /\ UNCHANGED activeCores
          /\ activeCoreUpdtAction' = IF WofPhaseTwo THEN "PROCESS_AND_ACK"
                                     ELSE activeCoreUpdtAction
          /\ process' # "CTRL_STOP"
      BY <1>1, <1>6 DEF WofOn
    <2>2. QuadLists'
      BY <1>1, <1>6, <2>1, WofOnQuads
    <2>3. /\ Waits("CORES")' <=> Waits("CORES")
          /\ Fresh("CORES")' <=> Fresh("CORES")
          /\ Known' <=> Known
          /\ WofPhaseTwo => Known'
      BY <1>1, <1>6, <2>1 DEF Waits, Fresh, Known
    <2>4. Reported' /\ CoreMessage'
      BY <1>1, <1>6, <2>1, <2>3 DEF CoreLists, Reported, CoreMessage
    <2>5. CoresKept' /\ CoresAnswered'
      BY <1>1, <1>6, <2>1, <2>3 DEF CoreLists, CoresKept, CoresAnswered, After
    <2> QED BY <2>2, <2>4, <2>5 DEF CoreLists
  <1> QED BY <1>2, <1>3, <1>4, <1>5, <1>6

(* The SGPE's list is taken over.                                          *)
LEMMA ListsCtrlStopWait ==
    ASSUME Quiet, QuadLists, CoreLists, CtrlStopWait
    PROVE  QuadLists' /\ CoreLists'
  <1>1. CASE Halt("CTRL_STOP_UPDT_BAD_ACK")
    BY <1>1, ListsPass
       DEF Halt, statusVars, wofVars, quadVars, tableVars, processVars,
           answerVars, worldVars
  <1>2. CASE ~Halt("CTRL_STOP_UPDT_BAD_ACK")
    <2>1. /\ process = "CTRL_STOP" /\ reply.CTRL # NULL /\ WofOn(reply.CTRL)
          /\ UNCHANGED <<args, sgpe, registering, wire, pgpeActive,
                activeQuads, reply, outstanding, processing, toSgpe>>
          /\ process' # "CTRL_STOP" /\ "WOF_CTRL" \in Requests
      BY <1>2, ServedGoes, SlotNames, WofAsked
         DEF CtrlStopWait, processFrame, worldVars, statusVars, tableVars,
             answerVars
    <2>2. /\ WofPhaseTwo /\ ~Known /\ sgpe.updates /\ reply.CTRL = sgpe.cores
          /\ "CTRL" \notin toSgpe /\ wofStatus = "DISABLED"
          /\ sgpe.coreOp = "SENT" => Fresh("CORES") /\ Waits("CORES")
      BY <2>1 DEF CoreLists, Reported, CoreMessage, Quiet, TypeInv, StatusTypes
    <2>3. /\ wofStatus' = "ENABLED" /\ activeCores' = sgpe.cores
          /\ Known' /\ QuadLists'
      BY <2>1, <2>2, WofOnQuads DEF WofOn, Known
    <2>4. /\ Waits("CORES")' <=> Waits("CORES")
          /\ Fresh("CORES")' <=> Fresh("CORES")
      BY <2>1 DEF Waits, Fresh
    <2>5. Reported' /\ CoreMessage'
      BY <2>1, <2>2, <2>3, <2>4 DEF CoreLists, Reported, CoreMessage
    <2>6. CoresKept' /\ CoresAnswered'
      BY <2>1, <2>2, <2>3, <2>4 DEF CoresKept, CoresAnswered
    <2> QED BY <2>3, <2>5, <2>6 DEF CoreLists
  <1> QED BY <1>1, <1>2

(* The process thread takes a list of cores over.                          *)
LEMMA ListsUpdtActiveCores ==
    ASSUME Quiet, QuadLists, CoreLists, UpdtActiveCores
    PROVE  QuadLists' /\ CoreLists'
  <1>1. /\ process = "CORES" /\ process' # "CTRL_STOP"
        /\ processing' = processing \ {"CORES"}
        /\ UNCHANGED <<args, sgpe, registering, wire, pgpeActive, wofStatus,
              activeCoreUpdtAction, activeQuads, requestedQuads, toSgpe>>
        /\ reply \in Replies
        /\ Fresh("CORES") /\ Waits("CORES") /\ "CORES" \notin wire
    <2>1. /\ process = "CORES" /\ Served("CORES")
          /\ processing' = processing \ {"CORES"}
      BY DEF UpdtActiveCores, Taken
    <2>2. process' # "CTRL_STOP" /\ "CORES" \in RequestSlots
      BY <2>1, ServedGoes, SlotNames
    <2>3. "CORES" \in processing /\ Fresh("CORES") /\ Waits("CORES")
      BY <2>1, <2>2, WaitsAre, LabelFacts, SlotNames
         DEF Quiet, ServeInv, Passes, InPass
    <2>4. "CORES" \notin wire
      BY <2>2, <2>3, WaitsAre
    <2> QED BY <2>1, <2>2, <2>3, <2>4
            DEF UpdtActiveCores, processFrame, statusVars, wofVars, quadVars,
                worldVars, Quiet, TypeInv, RecordTypes
  <1>2. /\ sgpe.coreOp = "SENT" /\ sgpe.updates /\ Known
        /\ activeCores = sgpe.cores
        /\ args.CORES.type \in {"entry", "exit"}
    BY <1>1 DEF CoreLists, Reported, CoreMessage, CoresKept
  <1>3. wofStatus = "ENABLED" => pstatesStatus = "ACTIVE"
    BY DEF Quiet, QuietInv, Calm, WofInv, WofOnlyWhileStarted, NotStarted
  <1>4. activeCores' = CoresAfter
    BY <1>2, <1>3 DEF UpdtActiveCores, Known
  <1>5. activeCores' = After(sgpe.cores, args.CORES)
    BY <1>2, <1>4 DEF CoresAfter, After
  <1>6. \/ /\ Acked("CORES")
           /\ reply' = [reply EXCEPT !.CORES = activeCores']
        \/ UNCHANGED <<outstanding, reply>>
    BY <1>2 DEF UpdtActiveCores, Known, answerVars
  <1>7. /\ outstanding' = outstanding \/ outstanding' = outstanding \ {"CORES"}
        /\ outstanding' # outstanding => reply'.CORES = activeCores'
        /\ reply'.QUADS = reply.QUADS /\ reply'.CTRL = reply.CTRL
    <2>1. CASE /\ Acked("CORES")
               /\ reply' = [reply EXCEPT !.CORES = activeCores']
      BY <1>1, <2>1, ReplyCores DEF Acked, Answer
    <2>2. CASE UNCHANGED <<outstanding, reply>>
      BY <2>2
    <2> QED BY <1>6, <2>1, <2>2
  <1>8. QuadLists'
    <2>1. /\ Waits("QUADS")' <=> Waits("QUADS")
          /\ Fresh("QUADS")' <=> Fresh("QUADS")
      BY <1>1, <1>7 DEF Waits, Fresh
    <2> QED BY <1>1, <1>7, <2>1, QuadListsKeep
  <1>9. ~Fresh("CORES")' /\ Known'
    BY <1>1, <1>2 DEF Fresh, Known
  <1>10. Reported'
    BY <1>1, <1>7, <1>9 DEF CoreLists, Reported
  <1>11. CoreMessage'
    BY <1>1, <1>2, <1>9 DEF CoreMessage
  <1>12. CoresKept'
    BY <1>1, <1>2, <1>5, <1>9 DEF CoresKept, After
  <1>13. CoresAnswered'
    <2>1. ~Waits("CORES")' => outstanding' # outstanding
      BY <1>1 DEF Waits
    <2> QED BY <1>1, <1>5, <1>7, <2>1 DEF CoresAnswered, After
  <1> QED BY <1>8, <1>10, <1>11, <1>12, <1>13 DEF CoreLists

(* The process thread takes a change of the quads over.                    *)
LEMMA ListsUpdtActiveQuads ==
    ASSUME Quiet, QuadLists, CoreLists, UpdtActiveQuads
    PROVE  QuadLists' /\ CoreLists'
  <1> DEFINE op == args.QUADS
             interlock == /\ op.type = "exit" /\ op.stage = "NOTIFY"
                          /\ wofStatus = "ENABLED" /\ pstatesStatus = "ACTIVE"
  <1>1. /\ process = "QUADS" /\ process' # "CTRL_STOP"
        /\ processing' = processing \ {"QUADS"}
        /\ UNCHANGED <<args, sgpe, registering, wire, pgpeActive, wofStatus,
              activeCoreUpdtAction, activeCores, toSgpe>>
        /\ reply \in Replies
        /\ Fresh("QUADS") /\ Waits("QUADS") /\ "QUADS" \notin wire
    <2>1. /\ process = "QUADS" /\ Served("QUADS")
          /\ processing' = processing \ {"QUADS"}
      BY DEF UpdtActiveQuads, Taken
    <2>2. process' # "CTRL_STOP" /\ "QUADS" \in RequestSlots
      BY <2>1, ServedGoes, SlotNames
    <2>3. "QUADS" \in processing /\ Fresh("QUADS") /\ Waits("QUADS")
      BY <2>1, <2>2, WaitsAre, LabelFacts, SlotNames
         DEF Quiet, ServeInv, Passes, InPass
    <2>4. "QUADS" \notin wire
      BY <2>2, <2>3, WaitsAre
    <2> QED BY <2>1, <2>2, <2>3, <2>4
            DEF UpdtActiveQuads, processFrame, statusVars, wofVars, quadVars,
                worldVars, Quiet, TypeInv, RecordTypes
  <1>2. /\ sgpe.quadOp \in {"NOTIFY", "DONE"} /\ op.stage = sgpe.quadOp
        /\ op.type \in {"entry", "exit"}
        /\ op.type = "entry" /\ sgpe.quadOp = "DONE"
             => op.units \intersect sgpe.quads = {}
        /\ op.type = "exit" /\ sgpe.quadOp = "DONE"
             => op.units \subseteq sgpe.quads
    BY <1>1 DEF QuadLists, Transition
  <1>3. /\ activeQuads' = IF op.type = "entry" /\ op.stage = "NOTIFY"
                          THEN activeQuads \ op.units ELSE activeQuads
        /\ requestedQuads' =
              IF op.type = "exit" THEN requestedQuads \union op.units
              ELSE IF op.stage = "NOTIFY" THEN requestedQuads
                   ELSE requestedQuads \ op.units
    BY <1>2 DEF UpdtActiveQuads, GoesOut
  <1>4. /\ interlock => UNCHANGED <<outstanding, reply>>
        /\ ~interlock => /\ outstanding' = outstanding \ {"QUADS"}
                         /\ reply' = [reply EXCEPT !.QUADS = List(op)]
    BY DEF UpdtActiveQuads, Acked, Answer, answerVars
  <1>5. /\ interlock => UNCHANGED reply
        /\ ~interlock =>
              reply'.QUADS = IF op.type = "entry"
                             THEN requestedQuads' \ op.units
                             ELSE requestedQuads'
        /\ reply'.CORES = reply.CORES /\ reply'.CTRL = reply.CTRL
    BY <1>1, <1>4, ReplyQuads DEF List
  <1>6. CoreLists'
    <2>1. /\ Waits("CORES")' <=> Waits("CORES")
          /\ Fresh("CORES")' <=> Fresh("CORES")
      BY <1>1, <1>4 DEF Waits, Fresh
    <2> QED BY <1>1, <1>5, <2>1, CoreListsKeep
  <1>7. /\ ~Fresh("QUADS")' /\ (Waits("QUADS")' <=> interlock)
        /\ Held("QUADS")' => interlock
    BY <1>1, <1>4 DEF Fresh, Waits, Held
  <1>8. Powered' /\ Transition'
    BY <1>1, <1>3, <1>7 DEF QuadLists, Powered, Transition
  <1>9. QuadsHeld' /\ Early' /\ Returned'
    <2>1. QuadsHeld'
      BY <1>1, <1>3, <1>7 DEF QuadsHeld
    <2>2. Early'
      BY <1>1, <1>2, <1>3, <1>7 DEF Early
    <2>3. Returned'
      BY <1>1, <1>2, <1>3, <1>5, <1>7 DEF Returned
    <2> QED BY <2>1, <2>2, <2>3
  <1>10. NoWof'
    <2> SUFFICES ASSUME "WOF_CTRL" \notin Requests
                 PROVE  wofStatus' = "DISABLED" /\ Requested' /\ Answered'
      BY DEF NoWof
    <2>1. wofStatus = "DISABLED" /\ Requested
      BY DEF QuadLists, NoWof
    <2>2. ~interlock /\ ~Waits("QUADS")'
      BY <1>7, <2>1
    <2>3. requestedQuads = IF sgpe.quadOp = "DONE" /\ op.type = "entry"
                           THEN sgpe.quads \union op.units ELSE sgpe.quads
      BY <1>1, <1>2, <2>1 DEF Requested
    <2>4. CASE sgpe.quadOp = "NOTIFY"
      BY <1>1, <1>2, <1>3, <1>5, <2>1, <2>2, <2>3, <2>4
         DEF Requested, Answered, After
    <2>5. CASE sgpe.quadOp = "DONE"
      <3>1. requestedQuads' = sgpe.quads
        BY <1>2, <1>3, <2>3, <2>5
      <3>2. reply'.QUADS = After(sgpe.quads, op)
        BY <1>2, <1>5, <2>2, <2>5, <3>1 DEF After
      <3>3. Requested'
        BY <1>1, <2>2, <2>5, <3>1 DEF Requested
      <3>4. Answered'
        BY <1>1, <3>2 DEF Answered, After
      <3> QED BY <1>1, <2>1, <3>3, <3>4
    <2> QED BY <1>2, <2>4, <2>5
  <1> QED BY <1>6, <1>8, <1>9, <1>10 DEF QuadLists

(* The quads that have registered join those the PGPE sends doorbells to.  *)
LEMMA ListsRegistration ==
    ASSUME Quiet, QuadLists, CoreLists, Registration
    PROVE  QuadLists' /\ CoreLists'
  <1>1. /\ activeQuads' = activeQuads \union pendQuadsRegisterProcess
        /\ registering' = registering \ pendQuadsRegisterProcess
        /\ pendQuadsRegisterProcess \subseteq registering
        /\ UNCHANGED <<pgpeActive, wofStatus, activeCoreUpdtAction, processing,
              requestedQuads, activeCores, wire, outstanding, reply, args,
              sgpe, toSgpe>>
        /\ process # "CTRL_STOP" /\ process' # "CTRL_STOP"
    BY DEF Registration, statusVars, wofVars, tableVars, answerVars, Quiet,
       TypeInv, UnitTypes
  <1>2. /\ Waits("QUADS")' <=> Waits("QUADS")
        /\ Fresh("QUADS")' <=> Fresh("QUADS")
        /\ Held("QUADS")' <=> Held("QUADS")
        /\ Waits("CORES")' <=> Waits("CORES")
        /\ Fresh("CORES")' <=> Fresh("CORES")
    BY <1>1 DEF Waits, Fresh, Held
  <1>3. CoreLists'
    BY <1>1, <1>2, CoreListsKeep
  <1>4. Powered' /\ Transition'
    BY <1>1, <1>2 DEF QuadLists, Powered, Transition
  <1>5. Early'
    BY <1>1, <1>2 DEF QuadLists, Early, Transition
  <1>6. QuadsHeld' /\ Returned'
    BY <1>1, <1>2 DEF QuadLists, QuadsHeld, Returned
  <1>7. NoWof'
    BY <1>1, <1>2 DEF QuadLists, NoWof, Requested, Answered, After
  <1> QED BY <1>3, <1>4, <1>5, <1>6, <1>7 DEF QuadLists

(* A stop takes WOF off first.                                             *)
LEMMA ListsStartStop2 ==
    ASSUME Quiet, QuadLists, CoreLists, StartStop2
    PROVE  QuadLists' /\ CoreLists'
  <1>1. /\ UNCHANGED <<args, sgpe, registering, wire, pgpeActive, activeQuads,
                       activeCores, toSgpe>>
        /\ process = "START_STOP_2"
        /\ "START_STOP" \in RequestSlots \ {"QUADS", "CORES"}
        /\ "START_STOP" \in Slots
    BY SlotNames DEF StartStop2, processFrame, worldVars
  <1>2. \/ /\ process' = "STARTING"
           /\ UNCHANGED <<wofVars, processing, outstanding, reply,
                          requestedQuads>>
        \/ /\ Taken("START_STOP") /\ Served("START_STOP")
           /\ WofOff({"START_STOP"})
        \/ /\ Taken("START_STOP") /\ Served("START_STOP")
           /\ Acked("START_STOP")
           /\ UNCHANGED <<wofVars, reply, requestedQuads>>
    BY DEF StartStop2, PstateStop, tableVars, answerVars
  <1>3. CASE /\ process' = "STARTING"
             /\ UNCHANGED <<wofVars, processing, outstanding, reply,
                            requestedQuads>>
    BY <1>1, <1>3, ListsPass
  <1>4. CASE /\ Taken("START_STOP") /\ Served("START_STOP")
             /\ WofOff({"START_STOP"})
    <2>1. {"START_STOP"} \in SUBSET (RequestSlots \ {"QUADS", "CORES"})
      BY <1>1
    <2>2. process' # "CTRL_STOP" /\ processing' = processing \ {"START_STOP"}
      BY <1>1, <1>4, ServedGoes DEF Taken
    <2> QED BY <1>1, <1>4, <2>1, <2>2, WofOffLists
  <1>5. CASE /\ Taken("START_STOP") /\ Served("START_STOP")
             /\ Acked("START_STOP")
             /\ UNCHANGED <<wofVars, reply, requestedQuads>>
    <2>1. /\ process' # "CTRL_STOP"
          /\ processing' = processing \ {"START_STOP"}
          /\ outstanding' = outstanding \ {"START_STOP"}
      BY <1>1, <1>5, ServedGoes DEF Taken, Acked, Answer
    <2> QED BY <1>1, <1>5, <2>1, ListsPass
  <1> QED BY <1>2, <1>3, <1>4, <1>5

(* The other steps of the pass are about neither list.                     *)
LEMMA ListsProcess ==
    ASSUME Quiet, QuadLists, CoreLists, ProcessThread
    PROVE  QuadLists' /\ CoreLists'
  <1>1. ASSUME UNCHANGED <<pgpeActive, wofVars, quadVars, activeCores, toSgpe,
                           reply, wire, worldVars>>,
               UNCHANGED processing
                 \/ \E slot \in Slots \ {"QUADS", "CORES"} : Taken(slot),
               UNCHANGED outstanding
                 \/ \E slot \in Slots \ {"QUADS", "CORES"} :
                       outstanding' = outstanding \ {slot},
               process # "CTRL_STOP", process' # "CTRL_STOP"
        PROVE  QuadLists' /\ CoreLists'
    BY <1>1, ListsPass DEF quadVars, worldVars, Taken
  <1>2. CASE ProcessPend
    BY <1>1, <1>2 DEF ProcessPend, statusVars, tableVars, answerVars
  <1>3. CASE ProcessWake
    <2>1. process' # "CTRL_STOP"
      BY <1>3, NextWorkIs, SlotNames DEF ProcessWake
    <2> QED BY <1>1, <1>3, <2>1
            DEF ProcessWake, tableOnly, statusVars, tableVars
  <1>4. CASE ProcessDone
    BY <1>1, <1>4
       DEF ProcessDone, Halt, tableOnly, statusVars, tableVars, answerVars,
           processVars
  <1>5. ASSUME NEW slot \in {"WOF_CTRL", "CLIP", "VFRT"},
               NEW next \in {"WOF_CTRL_2", "CLIP_2", "VFRT_2"},
               RefuseSuspended(slot, next)
        PROVE  QuadLists' /\ CoreLists'
    <2>1. /\ process = slot /\ process' = next /\ Taken(slot)
          /\ UNCHANGED <<processFrame, tableOnly, outstanding>>
      BY <1>5 DEF RefuseSuspended, Quiet, QuietInv, Calm, Suspended
    <2> QED BY <1>1, <2>1, SlotNames DEF processFrame, tableOnly, statusVars
  <1>6. CASE StartStop
    <2>1. /\ process = "START_STOP" /\ process' = "START_STOP_2"
          /\ UNCHANGED <<processFrame, tableOnly, outstanding, processing>>
      BY <1>6 DEF StartStop, tableVars, Quiet, QuietInv, Calm, Suspended
    <2> QED BY <1>1, <2>1 DEF processFrame, tableOnly, statusVars
  <1>7. CASE Started
    <2>1. CASE Halt("SEMAPHORE_OVERFLOW")
      BY <1>1, <1>7, <2>1
         DEF Started, Halt, statusVars, tableVars, answerVars, processVars
    <2>2. CASE ~Halt("SEMAPHORE_OVERFLOW")
      <3>1. /\ process = "STARTING" /\ process' # "CTRL_STOP"
            /\ Taken("START_STOP")
            /\ outstanding' = outstanding \ {"START_STOP"}
            /\ UNCHANGED <<processFrame, pgpeActive, wofVars, quadVars,
                           activeCores, reply, toSgpe>>
        BY <1>7, <2>2, ServedGoes, SlotNames DEF Started, Acked, Answer
      <3> QED BY <1>1, <3>1, SlotNames DEF processFrame
    <2> QED BY <2>1, <2>2
  <1>8. CASE ClipUpdt2 \/ WofVfrt2
    <2>1. PICK slot \in {"CLIP", "VFRT"} :
             /\ Served(slot)
             /\ UNCHANGED outstanding \/ outstanding' = outstanding \ {slot}
      BY <1>8 DEF ClipUpdt2, WofVfrt2, Acked, Answer
    <2>2. slot \in Slots \ {"QUADS", "CORES"} /\ process' # "CTRL_STOP"
      BY <2>1, ServedGoes, SlotNames
    <2>3. /\ UNCHANGED <<processFrame, processing, statusVars, wofVars,
                quadVars, activeCores, reply, toSgpe>>
          /\ process # "CTRL_STOP"
      BY <1>8 DEF ClipUpdt2, WofVfrt2
    <2> QED BY <1>1, <2>1, <2>2, <2>3 DEF processFrame, statusVars
  <1>9. CASE SetPmcrReq \/ AckSgpe
    <2>1. PICK slot \in {"SET_PMCR", "ACK_CTRL", "ACK_SUSP"} :
             /\ process = slot /\ Served(slot) /\ Taken(slot)
             /\ UNCHANGED outstanding \/ outstanding' = outstanding \ {slot}
      BY <1>9 DEF SetPmcrReq, AckSgpe, AckSlots, Acked, Answer, answerVars
    <2>2. slot \in Slots \ {"QUADS", "CORES"} /\ process' # "CTRL_STOP"
      BY <2>1, ServedGoes, SlotNames
    <2>3. UNCHANGED <<processFrame, pgpeActive, wofVars, quadVars,
                      activeCores, reply, toSgpe>>
      BY <1>9 DEF SetPmcrReq, AckSgpe, tableOnly, statusVars, answerVars
    <2> QED BY <1>1, <2>1, <2>2, <2>3 DEF processFrame
  <1> QED BY <1>2, <1>3, <1>4, <1>5, <1>6, <1>7, <1>8, <1>9, ListsWofCtrl2,
             ListsCtrlStopWait, ListsUpdtActiveCores, ListsUpdtActiveQuads,
             ListsStartStop2, ListsRegistration
          DEF ProcessThread, WofCtrl, ClipUpdt, WofVfrt

(* The actuate thread answers what is held, with the lists as they are.    *)
LEMMA ListsActuateAcks ==
    ASSUME Quiet, QuadLists, CoreLists, process = "pend", ActuateAcks
    PROVE  QuadLists' /\ CoreLists'
  <1>1. \A slot \in {"QUADS", "CORES"} : slot \notin processing
    BY DEF Quiet, ServeInv, AtRest, Skipped
  <1>2. PICK acked :
           /\ acked \subseteq pendingAck
           /\ outstanding' = outstanding \ acked
           /\ "QUADS" \in acked => requestedQuads = args.VFRT
           /\ reply' = [reply EXCEPT
                 !.QUADS = IF "QUADS" \in acked THEN args.VFRT ELSE @,
                 !.CORES = IF "CORES" \in acked THEN activeCores ELSE @]
    <2> DEFINE due == IF ~InRange THEN {} ELSE
                   pendingAck \intersect
                      ({"CLIP", "VFRT", "CORES"} \union
                       (IF wofStatus = "ENABLED" THEN {"WOF_CTRL"} ELSE {}))
               interlock == /\ {"VFRT", "QUADS"} \subseteq pendingAck
                            /\ InRange /\ MadeForRequested
               acks == due \union (IF interlock THEN {"QUADS"} ELSE {})
    <2>1. /\ acks \subseteq pendingAck
          /\ ("QUADS" \in acks) <=> interlock
          /\ interlock => requestedQuads = args.VFRT
      BY DEF MadeForRequested
    <2>2. /\ outstanding' = outstanding \ acks
          /\ reply' = [reply EXCEPT
                 !.QUADS = IF interlock THEN args.VFRT ELSE @,
                 !.CORES = IF "CORES" \in acks THEN activeCores ELSE @]
      BY DEF ActuateAcks, Answer
    <2> HIDE DEF acks, interlock
    <2>3. reply' = [reply EXCEPT
                 !.QUADS = IF "QUADS" \in acks THEN args.VFRT ELSE @,
                 !.CORES = IF "CORES" \in acks THEN activeCores ELSE @]
      BY <2>1, <2>2
    <2> QED BY <2>1, <2>2, <2>3
  <1>3. /\ reply'.QUADS = IF "QUADS" \in acked THEN args.VFRT ELSE reply.QUADS
        /\ reply'.CORES = IF "CORES" \in acked THEN activeCores
                          ELSE reply.CORES
        /\ reply'.CTRL = reply.CTRL
    <2>1. reply \in Replies
      BY DEF Quiet, TypeInv, RecordTypes
    <2> QED BY <1>2, <2>1, ReplyBoth
  <1>4. /\ UNCHANGED <<pgpeActive, activeQuads, registering, requestedQuads,
              sgpe, args, activeCores, toSgpe, wofStatus, activeCoreUpdtAction,
              processing, wire, process>>
    BY DEF ActuateAcks, actuateFrame, statusVars, wofVars, processVars,
       worldVars
  <1>5. /\ Fresh("QUADS")' <=> Fresh("QUADS")
        /\ Fresh("CORES")' <=> Fresh("CORES")
        /\ Waits("QUADS")' <=> (Waits("QUADS") /\ "QUADS" \notin acked)
        /\ Waits("CORES")' <=> (Waits("CORES") /\ "CORES" \notin acked)
    BY <1>2, <1>4 DEF Fresh, Waits
  <1>6. /\ "QUADS" \in acked => Held("QUADS")
        /\ "CORES" \in acked => Held("CORES")
    <2>1. "QUADS" \in RequestSlots /\ "CORES" \in RequestSlots
      BY SlotNames
    <2> QED BY <1>1, <1>2, <2>1, WaitsAre
  <1>7. QuadLists'
    <2>1. CASE "QUADS" \notin acked
      BY <1>3, <1>4, <1>5, <2>1, QuadListsKeep
    <2>2. CASE "QUADS" \in acked
      <3>1. /\ args.QUADS.type = "exit"
            /\ args.QUADS.units \subseteq reply'.QUADS
            /\ wofStatus = "ENABLED"
            /\ ~Waits("QUADS")' /\ ~Fresh("QUADS") /\ ~Held("QUADS")'
        BY <1>2, <1>3, <1>5, <1>6, <2>2 DEF QuadLists, QuadsHeld, Held
      <3>2. Powered' /\ Transition'
        BY <1>4, <1>5, <3>1 DEF QuadLists, Powered, Transition
      <3>3. QuadsHeld' /\ Early' /\ Returned'
        BY <1>4, <3>1 DEF QuadsHeld, Early, Returned
      <3>4. NoWof'
        BY <3>1 DEF QuadLists, NoWof
      <3> QED BY <3>2, <3>3, <3>4 DEF QuadLists
    <2> QED BY <2>1, <2>2
  <1>8. CoreLists'
    <2>1. CASE "CORES" \notin acked
      BY <1>3, <1>4, <1>5, <2>1, CoreListsKeep
    <2>2. CASE "CORES" \in acked
      <3>1. /\ sgpe.coreOp = "SENT" /\ ~Fresh("CORES") /\ Known
            /\ ~Waits("CORES")' /\ ~Fresh("CORES")'
        BY <1>5, <1>6, <2>2 DEF CoreLists, CoreMessage, Reported, Held
      <3>2. activeCores = After(sgpe.cores, args.CORES)
        BY <3>1 DEF CoreLists, CoresKept
      <3>3. reply'.CORES = After(sgpe.cores, args.CORES)
        BY <1>3, <2>2, <3>2
      <3>4. Reported' /\ CoreMessage'
        BY <1>3, <1>4, <3>1 DEF CoreLists, Reported, CoreMessage, Known
      <3>5. CoresKept'
        BY <1>4, <3>1, <3>2 DEF CoresKept, After
      <3>6. CoresAnswered'
        BY <1>4, <3>3 DEF CoresAnswered, After
      <3> QED BY <3>4, <3>5, <3>6 DEF CoreLists
    <2> QED BY <2>1, <2>2
  <1> QED BY <1>7, <1>8

LEMMA ListsActuate ==
    ASSUME Quiet, QuadLists, CoreLists, ActuateThread
    PROVE  QuadLists' /\ CoreLists'
  <1>1. process = "pend"
    BY DEF ActuateThread, ActuateMay
  <1>2. CASE ActuateTop \/ ActuatePend \/ ActuateLoop \/ DoStep
             \/ ActuateRestore \/ Leave
    <2>1. UNCHANGED <<wofVars, tableVars, quadVars, activeCores, answerVars,
                      statusVars, processVars, wire, worldVars, toSgpe>>
      BY <1>2 DEF ActuateTop, ActuatePend, ActuateLoop, DoStep, ActuateRestore,
         Leave, Halt, actuateFrame, requestVars
    <2> QED BY <2>1, ListsPass
            DEF statusVars, tableVars, quadVars, processVars, answerVars,
                worldVars
  <1>3. CASE Suspend \/ Stop
    <2>1. UNCHANGED <<wofVars, processing, quadVars, activeCores, outstanding,
                      reply, pgpeActive, process, wire, worldVars, toSgpe>>
      BY <1>3 DEF Suspend, Stop, actuateFrame, processVars, statusVars,
         tableVars, quadVars, answerVars, Quiet, QuietInv, Calm
    <2> QED BY <2>1, ListsPass DEF quadVars, worldVars
  <1>4. ~SafeMode
    BY DEF SafeMode, Quiet, QuietInv, Calm
  <1> QED BY <1>1, <1>2, <1>3, <1>4, ListsActuateAcks DEF ActuateThread

(* A message moves from the wire to the table.                             *)
LEMMA ListsInterrupts ==
    ASSUME Quiet, QuadLists, CoreLists, IpcInterrupt \/ Type4Interrupt
    PROVE  QuadLists' /\ CoreLists'
  <1>1. CASE IpcInterrupt
    <2>1. wire \intersect pendingAck = {}
      BY DEF Quiet, QuietInv, Accounts, TableIsOutstanding
    <2>2. /\ processing' = processing \union wire /\ wire' = {}
          /\ UNCHANGED <<outstanding, statusVars, wofVars, quadVars,
                activeCores, reply, worldVars, toSgpe>>
          /\ (process' = "CTRL_STOP") <=> (process = "CTRL_STOP")
      BY <1>1, <2>1 DEF IpcInterrupt, Answer, PostProcess
    <2>3. /\ Waits("QUADS")' <=> Waits("QUADS")
          /\ Fresh("QUADS")' <=> Fresh("QUADS")
          /\ Waits("CORES")' <=> Waits("CORES")
          /\ Fresh("CORES")' <=> Fresh("CORES")
      BY <2>2 DEF Waits, Fresh
    <2> QED BY <2>2, <2>3, QuadListsKeep, CoreListsKeep
            DEF statusVars, wofVars, quadVars, worldVars
  <1>2. CASE Type4Interrupt
    <2>1. /\ UNCHANGED <<statusVars, wofVars, tableVars, quadVars, activeCores,
                wire, answerVars, worldVars, toSgpe>>
          /\ (process' = "CTRL_STOP") <=> (process = "CTRL_STOP")
      BY <1>2 DEF Type4Interrupt, Halt, PostProcess, processVars
    <2> QED BY <2>1, ListsPass
            DEF statusVars, tableVars, quadVars, answerVars, worldVars
  <1> QED BY <1>1, <1>2

(* What the SGPE and the OCC do leaves the PGPE's own state alone.         *)
LEMMA PartnersLeave ==
    ASSUME UNCHANGED pgpeVars
    PROVE  UNCHANGED <<pgpeActive, wofStatus, activeCoreUpdtAction, processing,
              activeQuads, requestedQuads, activeCores, process>>
  BY DEF pgpeVars, statusVars, wofVars, tableVars, quadVars, processVars

(* What a change of the SGPE's record leaves.                              *)
LEMMA SgpeFields ==
    ASSUME sgpe \in SgpeStates
    PROVE  /\ \A o : /\ [sgpe EXCEPT !.quadOp = o].quadOp = o
                     /\ [sgpe EXCEPT !.quadOp = o].quads = sgpe.quads
                     /\ [sgpe EXCEPT !.quadOp = o].cores = sgpe.cores
                     /\ [sgpe EXCEPT !.quadOp = o].coreOp = sgpe.coreOp
                     /\ [sgpe EXCEPT !.quadOp = o].updates = sgpe.updates
           /\ \A o : /\ [sgpe EXCEPT !.coreOp = o].quadOp = sgpe.quadOp
                     /\ [sgpe EXCEPT !.coreOp = o].quads = sgpe.quads
                     /\ [sgpe EXCEPT !.coreOp = o].cores = sgpe.cores
                     /\ [sgpe EXCEPT !.coreOp = o].coreOp = o
                     /\ [sgpe EXCEPT !.coreOp = o].updates = sgpe.updates
           /\ \A o : /\ [sgpe EXCEPT !.updates = o].quadOp = sgpe.quadOp
                     /\ [sgpe EXCEPT !.updates = o].quads = sgpe.quads
                     /\ [sgpe EXCEPT !.updates = o].cores = sgpe.cores
                     /\ [sgpe EXCEPT !.updates = o].coreOp = sgpe.coreOp
                     /\ [sgpe EXCEPT !.updates = o].updates = o
  BY DEF SgpeStates
LEMMA SgpeListFields ==
    ASSUME sgpe \in SgpeStates, NEW o, NEW l
    PROVE  /\ LET s == [sgpe EXCEPT !.quadOp = o, !.quads = l]
              IN  /\ s.quadOp = o /\ s.quads = l /\ s.cores = sgpe.cores
                  /\ s.coreOp = sgpe.coreOp /\ s.updates = sgpe.updates
           /\ LET s == [sgpe EXCEPT !.coreOp = o, !.cores = l]
              IN  /\ s.quadOp = sgpe.quadOp /\ s.quads = sgpe.quads
                  /\ s.cores = l /\ s.coreOp = o /\ s.updates = sgpe.updates
  BY DEF SgpeStates

(* The OCC's messages are about neither list.                              *)
LEMMA ListsOcc ==
    ASSUME Quiet, QuadLists, CoreLists,
           \/ \E slot \in OccSlots : OccSend(slot)
           \/ \E f \in Flags : OccFlag(f)
    PROVE  QuadLists' /\ CoreLists'
  <1>1. CASE \E slot \in OccSlots : OccSend(slot)
    <2>1. PICK slot \in OccSlots : OccSend(slot)
      BY <1>1
    <2>2. slot \notin {"QUADS", "CORES"}
      BY <2>1 DEF OccSlots
    <2>3. /\ outstanding' = outstanding \union {slot}
          /\ wire' = wire \union {slot}
          /\ UNCHANGED <<pgpeVars, reply, registering, sgpe, toSgpe>>
      BY <2>1 DEF OccSend, Send
    <2>4. args'.QUADS = args.QUADS /\ args'.CORES = args.CORES
      <3>1. args \in Messages
        BY DEF Quiet, TypeInv, RecordTypes
      <3>2. \/ UNCHANGED args
            \/ \E a : args' = [args EXCEPT !.START_STOP = a]
            \/ \E a : args' = [args EXCEPT !.WOF_CTRL = a]
            \/ \E a : args' = [args EXCEPT !.VFRT = a]
        BY <2>1 DEF OccSend
      <3> QED BY <3>1, <3>2 DEF Messages
    <2>5. /\ Waits("QUADS")' <=> Waits("QUADS")
          /\ Fresh("QUADS")' <=> Fresh("QUADS")
          /\ Waits("CORES")' <=> Waits("CORES")
          /\ Fresh("CORES")' <=> Fresh("CORES")
      BY <2>2, <2>3, PartnersLeave DEF Waits, Fresh
    <2>6. QuadLists'
      BY <2>3, <2>4, <2>5, PartnersLeave, QuadListsKeep
    <2>7. CoreLists'
      BY <2>3, <2>4, <2>5, PartnersLeave, CoreListsKeep
    <2> QED BY <2>6, <2>7
  <1>2. CASE \E f \in Flags : OccFlag(f)
    <2>1. UNCHANGED <<pgpeVars, wire, answerVars, args, registering, sgpe,
                      toSgpe>>
      BY <1>2 DEF OccFlag
    <2>2. /\ UNCHANGED wofVars /\ UNCHANGED <<outstanding, reply>>
      BY <2>1 DEF pgpeVars, answerVars
    <2> QED BY <2>1, <2>2, PartnersLeave, ListsPass
  <1> QED BY <1>1, <1>2

(* NOTIFY: the quads and their registration are as they were.              *)
LEMMA ListsQuadsNotify ==
    ASSUME Quiet, QuadLists, CoreLists,
           NEW type \in {"entry", "exit"}, NEW q \in SUBSET Quads,
           QuadsNotify(type, q)
    PROVE  QuadLists' /\ CoreLists'
  <1>1. /\ sgpe.quadOp = "idle" /\ q # {} /\ q \intersect registering = {}
        /\ type = "entry" => q \subseteq sgpe.quads
        /\ type = "exit" => q \intersect sgpe.quads = {}
        /\ outstanding' = outstanding \union {"QUADS"}
        /\ wire' = wire \union {"QUADS"}
        /\ args' = [args EXCEPT !.QUADS = [type |-> type, stage |-> "NOTIFY",
                                           units |-> q]]
        /\ sgpe' = [sgpe EXCEPT !.quadOp = "NOTIFY"]
        /\ UNCHANGED <<pgpeVars, reply, registering, toSgpe>>
    BY DEF QuadsNotify, Send
  <1>2. args \in Messages /\ sgpe \in SgpeStates
    BY DEF Quiet, TypeInv, RecordTypes
  <1>3. /\ args'.CORES = args.CORES
        /\ args'.QUADS.type = type /\ args'.QUADS.stage = "NOTIFY"
        /\ args'.QUADS.units = q
    BY <1>1, <1>2 DEF Messages
  <1>4. /\ sgpe'.quadOp = "NOTIFY" /\ sgpe'.quads = sgpe.quads
        /\ sgpe'.cores = sgpe.cores /\ sgpe'.coreOp = sgpe.coreOp
        /\ sgpe'.updates = sgpe.updates
    BY <1>1, <1>2, SgpeFields
  <1>5. /\ Waits("QUADS")' /\ Fresh("QUADS")' /\ ~Held("QUADS")'
        /\ Waits("CORES")' <=> Waits("CORES")
        /\ Fresh("CORES")' <=> Fresh("CORES")
    BY <1>1, PartnersLeave DEF Waits, Fresh, Held
  <1>6. CoreLists'
    BY <1>1, <1>3, <1>4, <1>5, PartnersLeave, CoreListsKeep
  <1>7. Powered' /\ Transition'
    BY <1>1, <1>3, <1>4, <1>5, PartnersLeave DEF QuadLists, Powered, Transition
  <1>8. QuadsHeld' /\ Early' /\ Returned'
    BY <1>5 DEF QuadsHeld, Early, Returned
  <1>9. NoWof'
    BY <1>1, <1>4, <1>5, PartnersLeave DEF QuadLists, NoWof, Requested, Answered
  <1> QED BY <1>6, <1>7, <1>8, <1>9 DEF QuadLists

(* The answer to NOTIFY: what leaves has power, what enters loses it.      *)
LEMMA ListsQuadsPoll ==
    ASSUME Quiet, QuadLists, CoreLists, QuadsPoll
    PROVE  QuadLists' /\ CoreLists'
  <1>1. /\ ~Waits("QUADS") /\ ~Fresh("QUADS")
        /\ UNCHANGED <<pgpeVars, wire, answerVars, args, toSgpe>>
    BY DEF QuadsPoll, Waits, QuadLists, Transition
  <1>2. /\ ~Waits("QUADS")' /\ ~Fresh("QUADS")' /\ ~Held("QUADS")'
        /\ Waits("CORES")' <=> Waits("CORES")
        /\ Fresh("CORES")' <=> Fresh("CORES")
        /\ UNCHANGED <<outstanding, reply>>
    BY <1>1, PartnersLeave DEF Waits, Fresh, Held, answerVars
  <1>3. sgpe \in SgpeStates
    BY DEF Quiet, TypeInv, RecordTypes
  <1>4. CASE sgpe.quadOp = "NOTIFY"
    <2> DEFINE op == args.QUADS
    <2>1. /\ op.type \in {"entry", "exit"}
          /\ op.type = "entry" => /\ op.units \subseteq sgpe.quads
                                  /\ op.units \intersect registering = {}
                                  /\ op.units \intersect activeQuads = {}
          /\ op.type = "exit" => op.units \intersect sgpe.quads = {}
      BY <1>1, <1>4 DEF QuadLists, Transition, Early
    <2>2. /\ sgpe' = [sgpe EXCEPT !.quadOp = "MID",
                                  !.quads = IF op.type = "entry"
                                            THEN @ \ op.units
                                            ELSE @ \union op.units]
          /\ registering' = IF op.type = "entry" THEN registering
                            ELSE registering \union op.units
      BY <1>4 DEF QuadsPoll
    <2>3. /\ sgpe'.quadOp = "MID"
          /\ sgpe'.quads = IF op.type = "entry" THEN sgpe.quads \ op.units
                           ELSE sgpe.quads \union op.units
          /\ sgpe'.cores = sgpe.cores /\ sgpe'.coreOp = sgpe.coreOp
          /\ sgpe'.updates = sgpe.updates
      BY <1>3, <2>2, SgpeListFields
    <2>4. Powered'
      BY <1>1, <2>1, <2>2, <2>3, PartnersLeave DEF QuadLists, Powered
    <2>5. Transition'
      BY <1>1, <1>2, <1>4, <2>1, <2>3 DEF QuadLists, Transition
    <2>6. QuadsHeld' /\ Early' /\ Returned'
      BY <1>2, <2>3 DEF QuadsHeld, Early, Returned
    <2>7. NoWof'
      <3> SUFFICES ASSUME "WOF_CTRL" \notin Requests
                   PROVE  wofStatus' = "DISABLED" /\ Requested' /\ Answered'
        BY DEF NoWof
      <3>1. /\ wofStatus = "DISABLED"
            /\ requestedQuads = IF op.type = "entry" THEN sgpe.quads
                                ELSE sgpe.quads \union op.units
        BY <1>1, <1>4 DEF QuadLists, NoWof, Requested
      <3>2. requestedQuads = sgpe'.quads
                \union (IF op.type = "entry" THEN op.units ELSE {})
        BY <2>1, <2>3, <3>1
      <3> QED BY <1>1, <2>3, <3>1, <3>2, PartnersLeave DEF Requested, Answered
    <2>8. CoreLists'
      BY <1>1, <1>2, <2>3, PartnersLeave, CoreListsKeep
    <2> QED BY <2>4, <2>5, <2>6, <2>7, <2>8 DEF QuadLists
  <1>5. CASE sgpe.quadOp # "NOTIFY"
    <2>1. /\ sgpe.quadOp = "DONE" /\ UNCHANGED registering
          /\ sgpe' = [sgpe EXCEPT !.quadOp = "idle"]
      BY <1>5 DEF QuadsPoll
    <2>2. /\ sgpe'.quadOp = "idle" /\ sgpe'.quads = sgpe.quads
          /\ sgpe'.cores = sgpe.cores /\ sgpe'.coreOp = sgpe.coreOp
          /\ sgpe'.updates = sgpe.updates
      BY <1>3, <2>1, SgpeFields
    <2>3. Powered' /\ Transition'
      BY <1>1, <1>2, <2>1, <2>2, PartnersLeave
         DEF QuadLists, Powered, Transition
    <2>4. QuadsHeld' /\ Early' /\ Returned'
      BY <1>2, <2>2 DEF QuadsHeld, Early, Returned
    <2>5. NoWof'
      BY <1>1, <2>1, <2>2, PartnersLeave
         DEF QuadLists, NoWof, Requested, Answered
    <2>6. CoreLists'
      BY <1>1, <1>2, <2>2, PartnersLeave, CoreListsKeep
    <2> QED BY <2>3, <2>4, <2>5, <2>6 DEF QuadLists
  <1> QED BY <1>4, <1>5

(* DONE, for the same quads.                                               *)
LEMMA ListsQuadsDone ==
    ASSUME Quiet, QuadLists, CoreLists, QuadsDone
    PROVE  QuadLists' /\ CoreLists'
  <1>1. /\ sgpe.quadOp = "MID" /\ pgpeActive
        /\ outstanding' = outstanding \union {"QUADS"}
        /\ wire' = wire \union {"QUADS"}
        /\ args' = [args EXCEPT !.QUADS.stage = "DONE"]
        /\ sgpe' = [sgpe EXCEPT !.quadOp = "DONE"]
        /\ UNCHANGED <<pgpeVars, reply, registering, toSgpe>>
    BY DEF QuadsDone, Send, QuadLists, Powered
  <1>2. args \in Messages /\ sgpe \in SgpeStates
    BY DEF Quiet, TypeInv, RecordTypes
  <1>3. /\ args'.CORES = args.CORES
        /\ args'.QUADS.type = args.QUADS.type /\ args'.QUADS.stage = "DONE"
        /\ args'.QUADS.units = args.QUADS.units
    <2>1. args.QUADS \in Message(Quads)
      BY <1>2, UnitsAre
    <2> QED BY <1>1, <1>2, <2>1 DEF Messages, Message
  <1>4. /\ sgpe'.quadOp = "DONE" /\ sgpe'.quads = sgpe.quads
        /\ sgpe'.cores = sgpe.cores /\ sgpe'.coreOp = sgpe.coreOp
        /\ sgpe'.updates = sgpe.updates
    BY <1>1, <1>2, SgpeFields
  <1>5. /\ Waits("QUADS")' /\ Fresh("QUADS")' /\ ~Held("QUADS")'
        /\ Waits("CORES")' <=> Waits("CORES")
        /\ Fresh("CORES")' <=> Fresh("CORES")
    BY <1>1, PartnersLeave DEF Waits, Fresh, Held
  <1>6. CoreLists'
    BY <1>1, <1>3, <1>4, <1>5, PartnersLeave, CoreListsKeep
  <1>7. Powered' /\ Transition'
    BY <1>1, <1>3, <1>4, <1>5, PartnersLeave DEF QuadLists, Powered, Transition
  <1>8. QuadsHeld' /\ Early' /\ Returned'
    BY <1>5 DEF QuadsHeld, Early, Returned
  <1>9. NoWof'
    BY <1>1, <1>3, <1>4, <1>5, PartnersLeave
       DEF QuadLists, NoWof, Requested, Answered
  <1> QED BY <1>6, <1>7, <1>8, <1>9 DEF QuadLists

(* A step of the SGPE that is about the cores.                             *)
LEMMA QuadListsAside ==
    ASSUME Quiet, QuadLists, UNCHANGED <<pgpeVars, registering>>,
           sgpe'.quads = sgpe.quads, sgpe'.quadOp = sgpe.quadOp,
           args'.QUADS = args.QUADS, reply'.QUADS = reply.QUADS,
           UNCHANGED outstanding \/ outstanding' = outstanding \union {"CORES"},
           \/ UNCHANGED wire
           \/ \E m \in {"CORES", "ACK_CTRL"} : wire' = wire \union {m}
    PROVE  QuadLists'
  <1>1. /\ Waits("QUADS")' <=> Waits("QUADS")
        /\ Fresh("QUADS")' <=> Fresh("QUADS")
    BY PartnersLeave DEF Waits, Fresh
  <1> QED BY <1>1, PartnersLeave, QuadListsKeep

LEMMA ListsCoresSend ==
    ASSUME Quiet, QuadLists, CoreLists,
           NEW type \in {"entry", "exit"}, NEW c \in SUBSET Cores,
           CoresSend(type, c)
    PROVE  QuadLists' /\ CoreLists'
  <1>1. /\ sgpe.updates /\ sgpe.coreOp = "idle"
        /\ outstanding' = outstanding \union {"CORES"}
        /\ wire' = wire \union {"CORES"}
        /\ args' = [args EXCEPT !.CORES = [type |-> type, stage |-> "none",
                                           units |-> c]]
        /\ sgpe' = [sgpe EXCEPT !.coreOp = "SENT"]
        /\ UNCHANGED <<pgpeVars, reply, registering, toSgpe>>
    BY DEF CoresSend, Send
  <1>2. args \in Messages /\ sgpe \in SgpeStates
    BY DEF Quiet, TypeInv, RecordTypes
  <1>3. args'.QUADS = args.QUADS /\ args'.CORES.type = type
    BY <1>1, <1>2 DEF Messages
  <1>4. /\ sgpe'.coreOp = "SENT" /\ sgpe'.quads = sgpe.quads
        /\ sgpe'.cores = sgpe.cores /\ sgpe'.quadOp = sgpe.quadOp
        /\ sgpe'.updates = sgpe.updates
    BY <1>1, <1>2, SgpeFields
  <1>5. Waits("CORES")' /\ Fresh("CORES")'
    BY <1>1 DEF Waits, Fresh
  <1>6. QuadLists'
    BY <1>1, <1>3, <1>4, QuadListsAside
  <1>7. Reported' /\ CoreMessage'
    BY <1>1, <1>3, <1>4, <1>5, PartnersLeave
       DEF CoreLists, Reported, CoreMessage, Known
  <1>8. CoresKept' /\ CoresAnswered'
    BY <1>1, <1>4, <1>5, PartnersLeave
       DEF CoreLists, CoresKept, CoresAnswered, Known
  <1> QED BY <1>6, <1>7, <1>8 DEF CoreLists

LEMMA ListsCoresPoll ==
    ASSUME Quiet, QuadLists, CoreLists, CoresPoll
    PROVE  QuadLists' /\ CoreLists'
  <1>1. /\ sgpe.coreOp = "SENT" /\ ~Waits("CORES") /\ ~Fresh("CORES")
        /\ sgpe' = [sgpe EXCEPT !.coreOp = "idle",
                                !.cores = After(sgpe.cores, args.CORES)]
        /\ UNCHANGED <<pgpeVars, wire, answerVars, args, registering, toSgpe>>
    BY DEF CoresPoll, Waits, CoreLists, CoreMessage, After
  <1>2. sgpe \in SgpeStates
    BY DEF Quiet, TypeInv, RecordTypes
  <1>3. /\ sgpe'.coreOp = "idle" /\ sgpe'.quads = sgpe.quads
        /\ sgpe'.cores = After(sgpe.cores, args.CORES)
        /\ sgpe'.quadOp = sgpe.quadOp /\ sgpe'.updates = sgpe.updates
    BY <1>1, <1>2, SgpeListFields
  <1>4. UNCHANGED <<outstanding, reply>>
    BY <1>1 DEF answerVars
  <1>5. ~Waits("CORES")' /\ ~Fresh("CORES")'
    BY <1>1, <1>4, PartnersLeave DEF Waits, Fresh
  <1>6. QuadLists'
    BY <1>1, <1>3, <1>4, QuadListsAside
  <1>7. process # "CTRL_STOP"
    BY <1>1 DEF CoreLists, CoreMessage
  <1>8. Reported' /\ CoreMessage'
    BY <1>1, <1>3, <1>4, <1>5, <1>7, PartnersLeave
       DEF CoreLists, Reported, CoreMessage, Known
  <1>9. CoresKept' /\ CoresAnswered'
    BY <1>1, <1>3, <1>5, PartnersLeave
       DEF CoreLists, CoresKept, CoresAnswered, Known
  <1> QED BY <1>6, <1>8, <1>9 DEF CoreLists

LEMMA ListsAnswerCtrl ==
    ASSUME Quiet, QuadLists, CoreLists, AnswerCtrl
    PROVE  QuadLists' /\ CoreLists'
  <1>1. /\ "CTRL" \in toSgpe /\ sgpe.coreOp = "idle"
        /\ toSgpe' = toSgpe \ {"CTRL"}
        /\ sgpe' = [sgpe EXCEPT !.updates = TRUE]
        /\ reply' = [reply EXCEPT !.CTRL = sgpe.cores]
        /\ wire' = wire \union {"ACK_CTRL"}
        /\ UNCHANGED <<pgpeVars, outstanding, args, registering>>
    BY DEF AnswerCtrl
  <1>2. reply \in Replies /\ sgpe \in SgpeStates
    BY DEF Quiet, TypeInv, RecordTypes
  <1>3. /\ sgpe'.coreOp = "idle" /\ sgpe'.quads = sgpe.quads
        /\ sgpe'.cores = sgpe.cores /\ sgpe'.quadOp = sgpe.quadOp
        /\ sgpe'.updates
    BY <1>1, <1>2, SgpeFields
  <1>4. /\ reply'.QUADS = reply.QUADS /\ reply'.CORES = reply.CORES
        /\ reply'.CTRL = sgpe.cores
    BY <1>1, <1>2, ReplyCtrl
  <1>5. /\ Waits("CORES")' <=> Waits("CORES")
        /\ Fresh("CORES")' <=> Fresh("CORES")
    BY <1>1, PartnersLeave DEF Waits, Fresh
  <1>6. QuadLists'
    BY <1>1, <1>3, <1>4, QuadListsAside
  <1>7. Reported' /\ CoreMessage'
    BY <1>1, <1>3, <1>4, <1>5, PartnersLeave
       DEF CoreLists, Reported, CoreMessage, Known
  <1>8. CoresKept' /\ CoresAnswered'
    BY <1>1, <1>3, <1>5, PartnersLeave
       DEF CoreLists, CoresKept, CoresAnswered, Known
  <1> QED BY <1>6, <1>7, <1>8 DEF CoreLists

(* Together.                                                               *)
LEMMA ListsNext ==
    ASSUME Quiet, QuadLists, CoreLists, Flags = {}, Faults = {},
           [Next]_<<vars, scenario>>
    PROVE  QuadLists' /\ CoreLists'
  <1>1. CASE UNCHANGED <<vars, scenario>>
    BY <1>1, ListsPass
       DEF vars, statusVars, tableVars, quadVars, processVars, answerVars,
           worldVars
  <1>2. ~HandleOccflgRequests /\ ~AnswerSuspend
        /\ ~(\E f \in Faults : ErrorInterrupt(f))
    BY DEF HandleOccflgRequests, AnswerSuspend, Quiet, QuietInv, Calm
  <1> QED BY <1>1, <1>2, ListsInterrupts, ListsProcess, ListsActuate, ListsOcc,
             ListsQuadsNotify, ListsQuadsPoll, ListsQuadsDone, ListsCoresSend,
             ListsCoresPoll, ListsAnswerCtrl
          DEF Next, SgpeRequests, SgpeThread, SgpeHandlers

LEMMA ListsInit ==
    ASSUME Init PROVE QuadLists /\ CoreLists
  <1>1. /\ ~Waits("QUADS") /\ ~Fresh("QUADS") /\ ~Held("QUADS")
        /\ ~Waits("CORES") /\ ~Fresh("CORES")
    BY DEF Init, Waits, Fresh, Held
  <1>2. sgpe.quadOp = "idle" /\ sgpe.coreOp = "idle" /\ ~sgpe.updates
    BY DEF Init
  <1>3. QuadLists
    BY <1>1, <1>2 DEF Init, QuadLists, Powered, Transition, QuadsHeld, Early,
       Returned, NoWof, Requested, Answered
  <1>4. CoreLists
    BY <1>1, <1>2 DEF Init, CoreLists, Reported, CoreMessage, CoresKept,
       CoresAnswered, Known
  <1> QED BY <1>3, <1>4

Lists == Quiet /\ QuadLists /\ CoreLists

LEMMA ListsInvariant ==
    ASSUME Flags = {}, Faults = {}
    PROVE  Spec => []Lists
  <1>1. Init => Lists
    BY ServeInit, QuietInit, WofInit, TypesInit, ListsInit DEF Lists, Quiet
  <1>2. Lists /\ [Next]_<<vars, scenario>> => Lists'
    BY ServeNext, QuietNext, WofNext, TypesNext, ListsNext DEF Lists, Quiet
  <1> QED BY <1>1, <1>2, PTL DEF Spec

(* The PGPE sends its doorbells only to quads that have power: entering    *)
(* quads leave its list before their NOTIFY is answered, and leaving ones  *)
(* join it when they have registered, also when WOF goes on and off in     *)
(* between (p9_pgpe_process_sgpe_updt_active_quads,                        *)
(* p9_pgpe_pstate_process_quad_entry_notify).                              *)
THEOREM DoorbellsGoToPoweredQuads ==
    ASSUME Flags = {}, Faults = {}
    PROVE  Spec => []ActiveQuadsArePowered
  <1>1. Lists => ActiveQuadsArePowered
    BY DEF Lists, QuadLists, Powered, ActiveQuadsArePowered
  <1> QED BY <1>1, ListsInvariant, PTL

(* What the SGPE finds in each answer is the list it computes itself, and  *)
(* the PGPE's own list has only quads with power, without WOF or with one  *)
(* quad: with WOF and two quads the list in the answer can lack a quad     *)
(* that has yet to register (p9_sgpe_ipc_pgpe_update_active_quads_poll_ack,*)
(* .._cores_poll_ack).                                                     *)
THEOREM ListsOfUnitsAgree ==
    ASSUME Flags = {}, Faults = {},
           "WOF_CTRL" \in Requests => \A p, q \in Quads : p = q
    PROVE  Spec => []ListsAgree
  <1>1. ASSUME Lists PROVE ListsAgree
    <2>1. ActiveQuadsArePowered
      BY <1>1 DEF Lists, QuadLists, Powered, ActiveQuadsArePowered
    <2>2. ASSUME sgpe.coreOp = "SENT", "CORES" \notin outstanding
          PROVE  reply.CORES = After(sgpe.cores, args.CORES)
      BY <1>1, <2>2 DEF Lists, CoreLists, CoresAnswered, Waits
    <2>3. ASSUME sgpe.quadOp \in {"NOTIFY", "DONE"}, "QUADS" \notin outstanding
          PROVE  reply.QUADS = After(sgpe.quads, args.QUADS)
      <3>1. CASE "WOF_CTRL" \notin Requests
        BY <1>1, <2>3, <3>1 DEF Lists, QuadLists, NoWof, Answered, Waits
      <3>2. CASE "WOF_CTRL" \in Requests
        <4> DEFINE units == args.QUADS.units
        <4>1. /\ units \subseteq Quads /\ sgpe.quads \subseteq Quads
              /\ reply.QUADS \subseteq Quads
          <5>1. /\ args \in Messages /\ reply \in Replies
                /\ sgpe \in SgpeStates
            BY <1>1 DEF Lists, Quiet, TypeInv, RecordTypes
          <5> QED BY <5>1, UnitsAre, RepliesAre, SgpeStatesAre
        <4>2. units # {}
          BY <1>1, <2>3 DEF Lists, QuadLists, Transition
        <4>3. units = Quads
          BY <3>2, <4>1, <4>2
        <4>4. IF args.QUADS.type = "entry" THEN reply.QUADS \intersect units = {}
                                           ELSE units \subseteq reply.QUADS
          BY <1>1, <2>3 DEF Lists, QuadLists, Returned, Waits
        <4> QED BY <4>1, <4>3, <4>4 DEF After
      <3> QED BY <3>1, <3>2
    <2> QED BY <2>1, <2>2, <2>3 DEF ListsAgree, SgpeListsAgree, After
  <1>2. Lists => ListsAgree
    BY <1>1
  <1> QED BY <1>2, ListsInvariant, PTL

-----------------------------------------------------------------------------
(* No panic.                                                               *)

(* START_STOP comes when the actuate thread has taken its posts.           *)
Unposted == Patient /\ "START_STOP" \in outstanding => semActuate = 0

(* Only the start posts sem_actuate, and it answers START_STOP.            *)
LEMMA UnpostedNext ==
    ASSUME Lists, Unposted, Flags = {}, Faults = {}, [Next]_<<vars, scenario>>
    PROVE  Unposted'
  <1>1. ASSUME semActuate' \in {semActuate, 0},
               "START_STOP" \in outstanding' => "START_STOP" \in outstanding
        PROVE  Unposted'
    BY <1>1 DEF Unposted
  <1>2. CASE UNCHANGED <<vars, scenario>>
    BY <1>1, <1>2 DEF vars, actuateVars, answerVars
  <1>3. CASE IpcInterrupt \/ Type4Interrupt
    BY <1>1, <1>3 DEF IpcInterrupt, Type4Interrupt, Halt, Answer, actuateVars,
       answerVars
  <1>4. CASE ProcessThread
    <2>1. CASE Started
      <3>1. CASE Halt("SEMAPHORE_OVERFLOW")
        BY <1>1, <3>1 DEF Halt, actuateVars, answerVars
      <3>2. CASE ~Halt("SEMAPHORE_OVERFLOW")
        BY <2>1, <3>2 DEF Started, Acked, Answer, Unposted
      <3> QED BY <3>1, <3>2
    <2>2. CASE ~Started
      <3>1. UNCHANGED semActuate
        BY <1>4, <2>2
           DEF ProcessThread, ProcessPend, ProcessWake, ProcessDone, Halt,
               WofCtrl, ClipUpdt, WofVfrt, RefuseSuspended, WofCtrl2,
               CtrlStopWait, UpdtActiveCores, UpdtActiveQuads, StartStop,
               StartStop2, ClipUpdt2, WofVfrt2, SetPmcrReq, AckSgpe,
               Registration, tableOnly, actuateVars
      <3>2. outstanding' \subseteq outstanding
        <4>1. CASE WofCtrl2 \/ StartStop2
          BY <4>1, WofOffIs
             DEF WofCtrl2, StartStop2, PstateStop, Acked, Answer, answerVars
        <4>2. CASE ~WofCtrl2 /\ ~StartStop2
          BY <1>4, <2>2, <4>2
             DEF ProcessThread, ProcessPend, ProcessWake, ProcessDone, Halt,
                 WofCtrl, ClipUpdt, WofVfrt, RefuseSuspended, Acked, Answer,
                 CtrlStopWait, UpdtActiveCores, UpdtActiveQuads, StartStop,
                 ClipUpdt2, WofVfrt2, SetPmcrReq, AckSgpe, Registration,
                 answerVars
        <4> QED BY <4>1, <4>2
      <3> QED BY <1>1, <3>1, <3>2
    <2> QED BY <2>1, <2>2
  <1>5. CASE ActuateThread
    <2>1. CASE ActuatePend
      BY <1>1, <2>1 DEF ActuatePend, requestVars, answerVars, Lists, Quiet,
         TypeInv, StatusTypes
    <2>2. CASE ActuateAcks
      BY <1>1, <2>2 DEF ActuateAcks, Answer
    <2>3. CASE ~ActuatePend /\ ~ActuateAcks
      <3>1. UNCHANGED <<semActuate, outstanding>>
        BY <1>5, <2>3
           DEF ActuateThread, ActuateTop, ActuateLoop, DoStep, ActuateRestore,
               Leave, SafeMode, Suspend, Stop, Halt, requestVars, answerVars,
               actuateVars, Lists, Quiet, QuietInv, Calm
      <3> QED BY <1>1, <3>1
    <2> QED BY <2>1, <2>2, <2>3
  <1>6. CASE PartnersStep
    <2>1. UNCHANGED semActuate
      BY <1>6, PartnersAre DEF actuateVars
    <2>2. CASE OccSend("START_STOP")
      BY <2>1, <2>2 DEF OccSend, Unposted
    <2>3. CASE ~OccSend("START_STOP")
      <3>1. "START_STOP" \in outstanding' => "START_STOP" \in outstanding
        BY <1>6, <2>3 DEF PartnersStep, OccSend, OccFlag, SgpeRequests,
           QuadsNotify, CoresSend, SgpeThread, QuadsPoll, QuadsDone,
           SgpeHandlers, CoresPoll, AnswerCtrl, AnswerSuspend, Send, answerVars
      <3> QED BY <1>1, <2>1, <3>1
    <2> QED BY <2>2, <2>3
  <1>7. ~HandleOccflgRequests /\ ~(\E f \in Faults : ErrorInterrupt(f))
    BY DEF HandleOccflgRequests, Lists, Quiet, QuietInv, Calm
  <1> QED BY <1>2, <1>3, <1>4, <1>5, <1>6, <1>7 DEF Next, PartnersStep

(* No step of a program that has not panicked makes it panic.              *)
LEMMA NoPanicNext ==
    ASSUME Lists, Unposted, Patient = TRUE, NoPanic, Flags = {}, Faults = {},
           [Next]_<<vars, scenario>>
    PROVE  NoPanic'
  <1>1. halted' # "STACK_UNDERFLOW"
    BY ServeNext DEF Lists, Quiet, ServeInv
  <1>2. CASE UNCHANGED <<vars, scenario>>
    BY <1>2 DEF vars, NoPanic
  <1>3. CASE IpcInterrupt
    BY <1>3 DEF IpcInterrupt, NoPanic
  <1>4. CASE Type4Interrupt
    BY <1>4 DEF Type4Interrupt, NoPanic, Lists, QuadLists, Powered
  <1>5. CASE ProcessThread
    <2>1. CASE ProcessDone
      BY <1>1, <2>1 DEF ProcessDone, Halt, NoPanic
    <2>2. CASE CtrlStopWait
      <3>1. severeFault = {}
        BY DEF Lists, Quiet, TypeInv, StatusTypes
      <3> QED BY <2>2, <3>1 DEF CtrlStopWait, processFrame, NoPanic
    <2>3. CASE Started
      <3>1. "START_STOP" \in outstanding
        <4>1. InPass /\ "START_STOP" \in processing
          BY <2>3 DEF Started, InPass, PassLabels, Lists, Quiet, ServeInv,
             Passes
        <4> QED BY <4>1, SlotNames
                DEF Lists, Quiet, QuietInv, Accounts, TableIsOutstanding,
                    AckSlots
      <3>2. ~PostOverflows
        BY <3>1 DEF PostOverflows, Unposted
      <3> QED BY <2>3, <3>2 DEF Started, processFrame, NoPanic
    <2>4. CASE ~ProcessDone /\ ~CtrlStopWait /\ ~Started
      BY <1>5, <2>4
         DEF ProcessThread, ProcessPend, ProcessWake, WofCtrl, ClipUpdt,
             WofVfrt, RefuseSuspended, WofCtrl2, UpdtActiveCores,
             UpdtActiveQuads, StartStop, StartStop2, ClipUpdt2, WofVfrt2,
             SetPmcrReq, AckSgpe, Registration, processFrame, NoPanic
    <2> QED BY <2>1, <2>2, <2>3, <2>4
  <1>6. CASE ActuateThread
    BY <1>1, <1>6
       DEF ActuateThread, ActuateTop, ActuatePend, ActuateLoop, DoStep,
           ActuateAcks, ActuateRestore, Leave, SafeMode, Suspend, Stop, Halt,
           actuateFrame, NoPanic
  <1>7. CASE PartnersStep
    BY <1>7, PartnersAre DEF NoPanic
  <1>8. ~HandleOccflgRequests /\ ~(\E f \in Faults : ErrorInterrupt(f))
    BY DEF HandleOccflgRequests, Lists, Quiet, QuietInv, Calm
  <1> QED BY <1>2, <1>3, <1>4, <1>5, <1>6, <1>7, <1>8 DEF Next, PartnersStep

(* The PGPE does not panic, as long as nothing fails and the OCC sends     *)
(* START_STOP only when the actuate thread has taken its last post: the    *)
(* SGPE answers CTRL_STOP_UPDT, no quad registers twice, what is popped    *)
(* from the mask stack was pushed, and the second post of sem_actuate      *)
(* comes after the first is taken (the PK_PANICs and the semaphores'       *)
(* maximum of p9_pgpe_pstate.c).                                           *)
THEOREM PgpeDoesNotPanic ==
    ASSUME Flags = {}, Faults = {}, Patient = TRUE
    PROVE  Spec => []NoPanic
  <1>1. Init => Unposted /\ NoPanic
    BY DEF Init, Unposted, NoPanic
  <1>2. Lists /\ Unposted /\ NoPanic /\ [Next]_<<vars, scenario>>
            => Unposted' /\ NoPanic'
    BY UnpostedNext, NoPanicNext
  <1> QED BY <1>1, <1>2, ListsInvariant, PTL DEF Spec

=============================================================================
