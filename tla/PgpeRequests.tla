---------------------------- MODULE PgpeRequests ----------------------------
(***************************************************************************)
(* The Pstate GPE (ppe_closed/pgpe/pstate_gpe): how it takes the requests  *)
(* of the OCC and of the STOP GPE (SGPE), and answers each of them.        *)
(*                                                                         *)
(* The IPC interrupt only notes the requests in the pending table and      *)
(* wakes the process thread.  It leaves itself masked: the process thread  *)
(* opens it again when it has served the table, unless it leaves an answer *)
(* to the actuate thread, which sends it, and opens the interrupt, when    *)
(* the voltage and the frequencies are within the new limits.  The FIT     *)
(* timer looks at the OCC's flags, and the error interrupts, which nothing *)
(* masks, send the answers they find pending.                              *)
(*                                                                         *)
(* The process thread has the higher priority: the actuate thread runs     *)
(* when it waits.  A step is what a thread does between two reads of what  *)
(* an interrupt changes, or a handler from beginning to end.  How far the  *)
(* chip is from its limits is a number of actuation steps; voltages, clips *)
(* and the messages to the CMEs are abstracted.                            *)
(***************************************************************************)
EXTENDS Integers, Sequences, FiniteSetsExt

CONSTANTS
    Quads, Cores,
    Requests,      \* the requests that are sent: a subset of RequestSlots
    Actions,       \* what the OCC asks with START_STOP and WOF_CTRL
    Flags,         \* the bits of OCCFLG the OCC may set
    Faults,        \* the severe faults that may happen, each once
    Scenarios,     \* the requests and flags that come in one behaviour
    WofPhaseTwo,   \* PGPE_FLAG_ENABLE_VRATIO: the SGPE reports its cores
    MaxDistance,   \* bound: actuation steps to reach new limits
    Patient,       \* START_STOP is sent only when the actuate thread has
                   \*   taken its posts and is not on its way to wait
    NULL

OccSlots == {"START_STOP", "CLIP", "WOF_CTRL", "VFRT", "SET_PMCR"}
SgpeSlots == {"CORES", "QUADS"}
RequestSlots == OccSlots \union SgpeSlots
AckSlots == {"ACK_CTRL", "ACK_SUSP"}
Slots == RequestSlots \union AckSlots

ASSUME PgpeAssumption ==
    /\ Requests \subseteq RequestSlots
    /\ Actions \subseteq {"start", "stop", "on", "off"}
    /\ Flags \subseteq {"PM_COMPLEX_SUSPEND", "PGPE_SAFE_MODE",
                        "PGPE_PSTATE_PROTOCOL_STOP"}
    /\ Faults \subseteq {"OCC", "SGPE", "CME", "PVREF"}
    /\ \A scene \in Scenarios : scene \subseteq Requests \union Flags
    /\ WofPhaseTwo \in BOOLEAN
    /\ MaxDistance \in Nat /\ Patient \in BOOLEAN

(* Priority levels of the interrupts: a level masks itself and what is     *)
(* after it.  ERROR is before every level the code masks.                  *)
IPI2HI == 3
TYPE4 == 4
DISABLED == 6

VARIABLES
    pstatesStatus, wofStatus, activeCoreUpdtAction, severeFault, distance,
    processing, pendingAck,   \* pending_processing, pending_ack of the table
    args,                     \* the messages, in shared memory
    activeQuads, activeCores,
    requestedQuads,           \* pReqActQuads->requested_active_quads
    pendingActiveQuadUpdtDone, pendQuadsRegisterProcess,
    semProcessPosted, semProcessSrc,
    semProcess, semActuate,   \* counts of sem_process_req and sem_actuate
    stack, level,             \* g_oimr_stack, g_current_prty_level
    process, restoreProcess,  \* the process thread: label, restore_irq
    actuate, suspend,         \* the actuate thread: label, a local
                              \*   of safe_mode
    pgpeActive,               \* OCCS2[PGPE_ACTIVE]
    halted,                   \* PK_PANIC
    wire,                     \* sent to the PGPE and not yet read by it
    outstanding,              \* sent by the OCC or SGPE and not yet answered
    twice,                    \* history: answered when nobody waited
    reply,                    \* the lists the PGPE last returned to the SGPE
    occflg, faultsLeft,
    registering,              \* quads whose CME has yet to register
    sgpe,                     \* the SGPE: its lists, what it asks
    toSgpe,                   \* the requests the SGPE has to answer
    scenario                  \* the one of the Scenarios that is played

statusVars == <<pstatesStatus, severeFault, pgpeActive>>
wofVars == <<wofStatus, activeCoreUpdtAction>>
tableVars == <<processing, pendingAck>>
quadVars == <<activeQuads, requestedQuads, pendingActiveQuadUpdtDone>>
postVars == <<semProcessPosted, semProcessSrc, semProcess>>
irqVars == <<stack, level>>
processVars == <<process, restoreProcess>>
actuateVars == <<actuate, semActuate, suspend>>
answerVars == <<outstanding, twice, reply>>
worldVars == <<args, occflg, faultsLeft, registering, sgpe>>
vars == <<statusVars, wofVars, distance, tableVars, quadVars, activeCores,
          pendQuadsRegisterProcess, postVars, irqVars, processVars,
          actuateVars, halted, wire, answerVars, worldVars, toSgpe>>

Suspended == {"PM_SUSPENDED", "PM_SUSPEND_PENDING", "SAFE_MODE_PENDING",
              "SAFE_MODE"}
NotStarted == {"INIT", "STOPPED"}
NoUpdate == [type |-> "none", stage |-> "none", units |-> {}]

Init ==
    /\ pstatesStatus = "INIT" /\ wofStatus = "DISABLED"
    /\ activeCoreUpdtAction = "ERROR"
    /\ severeFault = {} /\ distance = 0
    /\ processing = {} /\ pendingAck = {}
    /\ args = [START_STOP |-> "start", WOF_CTRL |-> "on", VFRT |-> {},
               QUADS |-> NoUpdate, CORES |-> NoUpdate]
    /\ activeQuads = Quads /\ activeCores = Cores
    /\ requestedQuads = Quads
    /\ pendingActiveQuadUpdtDone = FALSE /\ pendQuadsRegisterProcess = {}
    /\ semProcessPosted = FALSE /\ semProcessSrc = {}
    /\ semProcess = 0 /\ semActuate = 0
    /\ stack = <<>> /\ level = DISABLED
    /\ process = "pend" /\ restoreProcess = TRUE
    /\ actuate = "top" /\ suspend = FALSE
    /\ pgpeActive = TRUE /\ halted = "no"
    /\ wire = {} /\ outstanding = {} /\ twice = {}
    /\ reply = [QUADS |-> Quads, CORES |-> Cores, CTRL |-> NULL]
    /\ occflg = {} /\ faultsLeft = Faults /\ registering = {}
    /\ sgpe = [quads |-> Quads, cores |-> Cores, quadOp |-> "idle",
               coreOp |-> "idle", updates |-> FALSE, suspended |-> FALSE]
    /\ toSgpe = {} /\ scenario \in Scenarios

-----------------------------------------------------------------------------
(* What the handlers share.                                                *)

Halt(reason) ==
    /\ halted' = reason
    /\ UNCHANGED <<statusVars, wofVars, distance, tableVars, quadVars,
          activeCores, pendQuadsRegisterProcess, postVars, irqVars,
          processVars, actuateVars, wire, answerVars, worldVars, toSgpe>>

(* A response: its sender waits for it no more.                            *)
Answer(slots) ==
    /\ outstanding' = outstanding \ slots
    /\ twice' = twice \union (slots \ outstanding)

(* pk_irq_save_and_set_mask; pk_irq_vec_restore, n times.                  *)
Mask(l) == stack' = Append(stack, level) /\ level' = l
Restore(n) == /\ level' = stack[Len(stack) - n + 1]
              /\ stack' = SubSeq(stack, 1, Len(stack) - n)

(* pk_semaphore_post: a waiting thread takes the count at once.  Both      *)
(* semaphores are created with a maximum of one: a second post that nobody *)
(* has taken panics.                                                       *)
PostProcessAlways ==
    IF process = "pend"
    THEN process' = "woken" /\ UNCHANGED <<semProcessPosted, semProcess>>
    ELSE semProcess' = semProcess + 1 /\ UNCHANGED <<semProcessPosted, process>>
PostProcess ==
    IF semProcessPosted
    THEN UNCHANGED <<semProcessPosted, semProcess, process>>
    ELSE /\ semProcessPosted' = TRUE
         /\ IF process = "pend"
            THEN process' = "woken" /\ UNCHANGED semProcess
            ELSE semProcess' = semProcess + 1 /\ UNCHANGED process
PostOverflows == actuate # "pend" /\ semActuate = 1
PostActuateNever == UNCHANGED <<actuate, semActuate>>
PostActuate ==
    IF actuate = "pend" THEN actuate' = "loop" /\ UNCHANGED semActuate
                        ELSE semActuate' = semActuate + 1 /\ UNCHANGED actuate

(* New limits may be any number of steps away; loosening them brings the   *)
(* chip nearer.                                                            *)
Retarget == distance' \in 0 .. MaxDistance
Nearer == distance' \in 0 .. distance
InRange == distance = 0 \/ activeQuads = {}

CoresAfter == IF args.CORES.type = "entry"
              THEN activeCores \ args.CORES.units
              ELSE activeCores \union args.CORES.units

(* p9_pgpe_pstate_handle_pending_occ_ack_on_fault and ..sgpe_ack_on_fault. *)
AckOnFault(slots) ==
    LET acked == pendingAck \intersect slots
    IN  /\ pendingAck' = pendingAck \ acked
        /\ Answer(acked)
        /\ requestedQuads' = IF "QUADS" \in acked
                             THEN requestedQuads \union args.QUADS.units
                             ELSE requestedQuads
        /\ activeCores' = IF "CORES" \in acked THEN CoresAfter
                                               ELSE activeCores
        /\ reply' = [reply EXCEPT
              !.QUADS = IF "QUADS" \in acked THEN requestedQuads' ELSE @,
              !.CORES = IF "CORES" \in acked THEN activeCores' ELSE @]
OccAcks == {"CLIP", "VFRT"}
SgpeAcks == {"QUADS", "CORES"}

(* p9_pgpe_pstate_wof_ctrl(OFF), when WOF is enabled, and the answer to    *)
(* the requests in done.  No VFRT comes any more: a quad that waits for it *)
(* to leave STOP gets its answer.                                          *)
WofOff(done) ==
    LET on == wofStatus = "ENABLED"
        exit == IF on THEN {"QUADS"} \intersect (pendingAck \ processing)
                      ELSE {}
    IN  /\ wofStatus' = "DISABLED"
        /\ activeCoreUpdtAction' = IF on /\ WofPhaseTwo THEN "ACK_ONLY"
                                   ELSE activeCoreUpdtAction
        /\ pendingAck' = pendingAck \ (done \union exit)
        /\ Answer(done \union exit)
        /\ requestedQuads' = IF exit = {} THEN requestedQuads
                             ELSE requestedQuads \union args.QUADS.units
        /\ pendingActiveQuadUpdtDone' = (exit # {} \/ pendingActiveQuadUpdtDone)
        /\ reply' = [reply EXCEPT !.QUADS = IF exit = {} THEN @
                                            ELSE requestedQuads']

(* p9_pgpe_pstate_stop.                                                    *)
PstateStopKeepsWof(done) ==
    /\ pstatesStatus' = "STOPPED"
    /\ pendingAck' = pendingAck \ done /\ Answer(done)
    /\ UNCHANGED <<wofVars, requestedQuads, pendingActiveQuadUpdtDone, reply>>
PstateStop(done) == WofOff(done) /\ pstatesStatus' = "STOPPED"

-----------------------------------------------------------------------------
(* The IPC interrupt.  The handlers note every request in the table, and   *)
(* the hook after the last one wakes the process thread.                   *)
IpcInterrupt ==
    /\ wire # {} /\ level > IPI2HI
    /\ Mask(IPI2HI)
    /\ LET refused == wire \intersect pendingAck
       IN  /\ processing' = processing \union (wire \ refused)
           /\ pendingAck' = pendingAck \union (wire \intersect RequestSlots)
           /\ Answer(refused)
    /\ wire' = {}
    /\ PostProcess
    /\ semProcessSrc' = semProcessSrc \union {"IPI2"}
    /\ UNCHANGED <<statusVars, wofVars, distance, quadVars, activeCores,
          pendQuadsRegisterProcess, restoreProcess, actuateVars, halted,
          reply, worldVars, toSgpe>>

(* The registration of the CME of a quad that left STOP 11.  This handler  *)
(* opens its interrupt again.                                              *)
Type4Interrupt ==
    \E q \in registering \ pendQuadsRegisterProcess :
        /\ level > TYPE4
        /\ IF q \in activeQuads THEN Halt("UNEXPECTED_REGISTRATION")
           ELSE /\ pendQuadsRegisterProcess' =
                      pendQuadsRegisterProcess \union {q}
                /\ PostProcess
                /\ semProcessSrc' = semProcessSrc \union {"TYPE4"}
                /\ UNCHANGED <<statusVars, wofVars, distance, tableVars,
                      quadVars, activeCores, irqVars, restoreProcess,
                      actuateVars, halted, wire, answerVars, worldVars,
                      toSgpe>>

(* The FIT timer samples the flags of the OCC.                             *)
HandleOccflgRequests ==
    /\ \/ /\ "PM_COMPLEX_SUSPEND" \in occflg
          /\ pstatesStatus \in {"INIT", "SAFE_MODE", "STOPPED"}
          /\ IF PostOverflows THEN Halt("SEMAPHORE_OVERFLOW")
             ELSE /\ pstatesStatus' = "PM_SUSPEND_PENDING"
                  /\ PostActuate
                  /\ UNCHANGED halted
       \/ /\ occflg \intersect {"PM_COMPLEX_SUSPEND", "PGPE_SAFE_MODE"} # {}
          /\ pstatesStatus = "ACTIVE"
          /\ pstatesStatus' = "SAFE_MODE_PENDING"
          /\ UNCHANGED <<actuate, semActuate, halted>>
       \/ /\ occflg = {"PGPE_PSTATE_PROTOCOL_STOP"}
          /\ pstatesStatus = "ACTIVE"
          /\ pstatesStatus' = "STOP_PENDING"
          /\ UNCHANGED <<actuate, semActuate, halted>>
    /\ UNCHANGED <<severeFault, pgpeActive, wofVars, distance, tableVars,
          quadVars, activeCores, pendQuadsRegisterProcess, postVars, irqVars,
          processVars, suspend, wire, answerVars, worldVars, toSgpe>>

(* The error interrupts are masked at no level.  With Pstates active the   *)
(* actuate thread is told; otherwise the handler answers what is pending.  *)
AcksOn(f) == CASE f = "OCC" -> SgpeAcks
               [] f = "SGPE" -> OccAcks
               [] OTHER -> OccAcks \union SgpeAcks

ErrorInterrupt(f) ==
    /\ f \in faultsLeft
    /\ faultsLeft' = faultsLeft \ {f}
    /\ severeFault' = severeFault \union {f}
    /\ IF f = "CME" THEN activeQuads' \in SUBSET activeQuads /\ Nearer
                    ELSE UNCHANGED <<activeQuads, distance>>
    /\ IF pstatesStatus = "ACTIVE"
       THEN /\ pstatesStatus' = "SAFE_MODE_PENDING"
            /\ UNCHANGED <<pgpeActive, pendingAck, answerVars, requestedQuads,
                           activeCores>>
       ELSE /\ AckOnFault(AcksOn(f))
            /\ pgpeActive' = (pgpeActive /\ f # "CME")
            /\ UNCHANGED pstatesStatus
    /\ UNCHANGED <<wofVars, processing, pendingActiveQuadUpdtDone,
          pendQuadsRegisterProcess, postVars, irqVars, processVars,
          actuateVars, halted, wire, args, occflg, registering, sgpe, toSgpe>>

-----------------------------------------------------------------------------
(* The process thread: one pass over the table each time it is woken.      *)

Order == <<"WOF_CTRL", "CORES", "QUADS", "START_STOP", "CLIP", "VFRT",
           "SET_PMCR", "ACK_CTRL", "ACK_SUSP">>
Place(slot) == CHOOSE i \in DOMAIN Order : Order[i] = slot

(* What the pass comes to after the first i slots.  A START_STOP waits for *)
(* the DONE that follows a NOTIFY.                                         *)
DueAnyTime(slot) == slot \in processing'
Due(slot) == /\ slot \in processing'
             /\ slot = "START_STOP" => ~pendingActiveQuadUpdtDone'
NextWorkOnce(i) ==
    IF i = 0 /\ \E slot \in Slots : Due(slot)
    THEN Order[Min({j \in DOMAIN Order : Due(Order[j])})]
    ELSE IF pendQuadsRegisterProcess' # {} THEN "REGISTER" ELSE "done"
NextWork(i) ==
    LET later == {j \in DOMAIN Order : j > i /\ Due(Order[j])}
    IN  IF later # {} THEN Order[Min(later)]
        ELSE IF pendQuadsRegisterProcess' # {} THEN "REGISTER" ELSE "done"

(* A slot is served: the IPC interrupt stays masked if the answer to one   *)
(* of three requests is left to the actuate thread.                        *)
KeepsClosed(slot) == slot \in pendingAck' \intersect {"CORES", "CLIP", "VFRT"}
Served(slot) ==
    /\ restoreProcess' = (restoreProcess /\ ~KeepsClosed(slot))
    /\ process' = NextWork(Place(slot))
Taken(slot) == processing' = processing \ {slot}
AckedStaysPending(slot) == UNCHANGED pendingAck /\ Answer({slot})
Acked(slot) == pendingAck' = pendingAck \ {slot} /\ Answer({slot})

processFrame == <<pendQuadsRegisterProcess, postVars, irqVars, suspend,
                  halted, wire, worldVars>>
tableOnly == <<statusVars, wofVars, distance, quadVars, activeCores, reply,
               actuate, semActuate, toSgpe>>

(* The pend; an interrupt may have come since the pass ended.              *)
ProcessPend ==
    /\ process = "top"
    /\ IF semProcess > 0
       THEN semProcess' = semProcess - 1 /\ process' = "woken"
       ELSE process' = "pend" /\ UNCHANGED semProcess
    /\ UNCHANGED <<statusVars, wofVars, distance, tableVars, quadVars,
          activeCores, pendQuadsRegisterProcess, semProcessPosted,
          semProcessSrc, irqVars, restoreProcess, actuateVars, halted, wire,
          answerVars, worldVars, toSgpe>>

ProcessWake ==
    /\ process = "woken"
    /\ Mask(IPI2HI)
    /\ semProcessPosted' = FALSE
    /\ restoreProcess' = TRUE
    /\ UNCHANGED <<tableOnly, tableVars, pendQuadsRegisterProcess,
          semProcessSrc, semProcess, suspend, halted, wire, outstanding,
          twice, worldVars>>
    /\ process' = NextWork(0)

(* The end of the pass: leave the sub-critical section and, when the IPC   *)
(* interrupt started it and no answer is left over, open that too.         *)
OpensAlways == restoreProcess
Opens == "IPI2" \in semProcessSrc /\ restoreProcess
ProcessDone ==
    /\ process = "done"
    /\ LET n == IF Opens THEN 2 ELSE 1
       IN  IF Len(stack) < n THEN Halt("STACK_UNDERFLOW")
           ELSE /\ Restore(n)
                /\ semProcessSrc' = {} /\ process' = "top"
                /\ UNCHANGED <<tableOnly, tableVars, pendQuadsRegisterProcess,
                      semProcessPosted, semProcess, restoreProcess, suspend,
                      halted, wire, outstanding, twice, worldVars>>

(* The first look at the status: refuse when suspended or in safe mode.    *)
RefuseSuspended(slot, next) ==
    /\ process = slot
    /\ Taken(slot)
    /\ UNCHANGED <<processFrame, tableOnly>>
    /\ IF pstatesStatus \in Suspended
       THEN Acked(slot) /\ Served(slot)
       ELSE /\ process' = next
            /\ UNCHANGED <<pendingAck, outstanding, twice, restoreProcess>>

WofCtrl == RefuseSuspended("WOF_CTRL", "WOF_CTRL_2")
ClipUpdt == RefuseSuspended("CLIP", "CLIP_2")
WofVfrt == RefuseSuspended("VFRT", "VFRT_2")

(* p9_pgpe_pstate_wof_ctrl(ON): the answer is left to the actuate thread.  *)
WofOn(cores) ==
    /\ wofStatus' = "ENABLED"
    /\ activeCoreUpdtAction' = IF WofPhaseTwo THEN "PROCESS_AND_ACK"
                               ELSE activeCoreUpdtAction
    /\ activeCores' = cores
    /\ requestedQuads' = activeQuads
    /\ Retarget

WofCtrl2 ==
    /\ process = "WOF_CTRL_2"
    /\ UNCHANGED <<processFrame, processing, statusVars, actuate, semActuate,
                   activeQuads>>
    /\ CASE \/ pstatesStatus \in NotStarted
            \/ args.WOF_CTRL = "on" /\ wofStatus = "ENABLED"
            \/ args.WOF_CTRL = "off" /\ wofStatus = "DISABLED" ->
            /\ Acked("WOF_CTRL")
            /\ UNCHANGED <<wofVars, distance, requestedQuads, toSgpe,
                           activeCores, reply, pendingActiveQuadUpdtDone>>
            /\ Served("WOF_CTRL")
         [] pstatesStatus \notin NotStarted /\ args.WOF_CTRL = "off"
                 /\ wofStatus = "ENABLED" ->
            /\ WofOff({"WOF_CTRL"})
            /\ Nearer
            /\ UNCHANGED <<activeCores, toSgpe>>
            /\ Served("WOF_CTRL")
         [] OTHER ->
            /\ UNCHANGED <<pendingAck, outstanding, twice,
                           pendingActiveQuadUpdtDone>>
            /\ IF WofPhaseTwo /\ activeCoreUpdtAction = "ERROR"
               THEN /\ toSgpe' = toSgpe \union {"CTRL"}
                    /\ reply' = [reply EXCEPT !.CTRL = NULL]
                    /\ process' = "CTRL_STOP"
                    /\ UNCHANGED <<wofVars, distance, requestedQuads,
                                   activeCores, restoreProcess>>
               ELSE /\ WofOn(activeCores)
                    /\ UNCHANGED <<toSgpe, reply>>
                    /\ Served("WOF_CTRL")

(* The busy wait for the SGPE's answer to CTRL_STOP_UPDT.                  *)
CtrlStopWait ==
    /\ process = "CTRL_STOP"
    /\ reply.CTRL # NULL \/ "SGPE" \in severeFault
    /\ IF reply.CTRL = NULL THEN Halt("CTRL_STOP_UPDT_BAD_ACK")
       ELSE /\ WofOn(reply.CTRL)
            /\ UNCHANGED <<processFrame, tableVars, statusVars, activeQuads,
                  pendingActiveQuadUpdtDone, actuate, semActuate, answerVars,
                  toSgpe>>
            /\ Served("WOF_CTRL")

UpdtActiveCores ==
    /\ process = "CORES"
    /\ Taken("CORES")
    /\ LET known == activeCoreUpdtAction # "ERROR"
           active == wofStatus = "ENABLED" /\ pstatesStatus = "ACTIVE"
           now == \/ wofStatus # "ENABLED"
                  \/ active /\ args.CORES.type = "entry"
       IN  /\ activeCores' = IF active \/ (wofStatus # "ENABLED" /\ known)
                             THEN CoresAfter ELSE activeCores
           /\ IF active THEN Retarget ELSE UNCHANGED distance
           /\ IF now THEN /\ Acked("CORES")
                          /\ reply' = [reply EXCEPT !.CORES =
                                IF known THEN activeCores' ELSE NULL]
                     ELSE UNCHANGED <<pendingAck, answerVars>>
    /\ UNCHANGED <<processFrame, statusVars, wofVars, quadVars, actuate,
                   semActuate, toSgpe>>
    /\ Served("CORES")

(* The list goes without the entering quads from NOTIFY on; the quads are  *)
(* taken out of the requested ones at DONE.                                *)
GoesOut(op) == op.type = "entry" /\ op.stage = "NOTIFY"
ListAsKept(op) == requestedQuads'
List(op) == IF op.type = "entry" THEN requestedQuads' \ op.units
                                 ELSE requestedQuads'
UpdtActiveQuads ==
    /\ process = "QUADS"
    /\ Taken("QUADS")
    /\ LET op == args.QUADS
           interlock == /\ op.type = "exit" /\ op.stage = "NOTIFY"
                        /\ wofStatus = "ENABLED" /\ pstatesStatus = "ACTIVE"
           notify == op.stage = "NOTIFY"
       IN  /\ IF GoesOut(op)
              THEN activeQuads' = activeQuads \ op.units /\ Nearer
              ELSE UNCHANGED <<activeQuads, distance>>
           /\ requestedQuads' =
                CASE op.type = "exit" -> requestedQuads \union op.units
                  [] op.type = "entry" /\ ~notify -> requestedQuads \ op.units
                  [] OTHER -> requestedQuads
           /\ pendingActiveQuadUpdtDone' =
                IF interlock THEN pendingActiveQuadUpdtDone ELSE notify
           /\ IF interlock THEN UNCHANGED <<pendingAck, answerVars>>
              ELSE /\ Acked("QUADS")
                   /\ reply' = [reply EXCEPT !.QUADS = List(op)]
    /\ UNCHANGED <<processFrame, statusVars, wofVars, activeCores, actuate,
                   semActuate, toSgpe>>
    /\ Served("QUADS")

StartStop ==
    /\ process = "START_STOP"
    /\ UNCHANGED <<processFrame, tableOnly>>
    /\ IF pstatesStatus \in Suspended
       THEN Taken("START_STOP") /\ Acked("START_STOP") /\ Served("START_STOP")
       ELSE /\ process' = "START_STOP_2"
            /\ UNCHANGED <<tableVars, outstanding, twice, restoreProcess>>

(* In any state but INIT, STOPPED and ACTIVE the message is just answered. *)
StartStop2 ==
    /\ process = "START_STOP_2"
    /\ UNCHANGED <<processFrame, activeQuads, activeCores, severeFault,
                   pgpeActive, distance, actuate, semActuate, toSgpe>>
    /\ IF args.START_STOP = "start" /\ pstatesStatus \in NotStarted
       THEN /\ process' = "STARTING"
            /\ UNCHANGED <<pstatesStatus, wofVars, tableVars, answerVars,
                  requestedQuads, pendingActiveQuadUpdtDone, restoreProcess>>
       ELSE /\ Taken("START_STOP")
            /\ IF args.START_STOP = "stop" /\ pstatesStatus = "ACTIVE"
               THEN PstateStop({"START_STOP"})
               ELSE /\ Acked("START_STOP")
                    /\ UNCHANGED <<pstatesStatus, wofVars, requestedQuads,
                          pendingActiveQuadUpdtDone, reply>>
            /\ Served("START_STOP")

(* The end of p9_pgpe_pstate_start, which moves the voltage and waits for  *)
(* the CMEs.                                                               *)
Started ==
    /\ process = "STARTING"
    /\ IF PostOverflows THEN Halt("SEMAPHORE_OVERFLOW")
       ELSE /\ pstatesStatus' = "ACTIVE" /\ distance' = 0
            /\ PostActuate
            /\ Taken("START_STOP") /\ Acked("START_STOP")
            /\ UNCHANGED <<processFrame, severeFault, pgpeActive, wofVars,
                           quadVars, activeCores, reply, toSgpe>>
            /\ Served("START_STOP")

ClipUpdt2 ==
    /\ process = "CLIP_2"
    /\ Retarget
    /\ IF pstatesStatus \in NotStarted THEN Acked("CLIP")
       ELSE UNCHANGED <<pendingAck, outstanding, twice>>
    /\ UNCHANGED <<processFrame, processing, statusVars, wofVars, quadVars,
                   activeCores, reply, actuate, semActuate, toSgpe>>
    /\ Served("CLIP")

WofVfrt2 ==
    /\ process = "VFRT_2"
    /\ IF pstatesStatus \notin NotStarted /\ wofStatus = "ENABLED"
       THEN Retarget /\ UNCHANGED <<pendingAck, outstanding, twice>>
       ELSE Acked("VFRT") /\ UNCHANGED distance
    /\ UNCHANGED <<processFrame, processing, statusVars, wofVars, quadVars,
                   activeCores, reply, actuate, semActuate, toSgpe>>
    /\ Served("VFRT")

SetPmcrReq ==
    /\ process = "SET_PMCR"
    /\ Taken("SET_PMCR") /\ Acked("SET_PMCR")
    /\ UNCHANGED <<processFrame, tableOnly>>
    /\ Served("SET_PMCR")

(* The SGPE's answers.                                                     *)
AckSgpe ==
    /\ process \in AckSlots
    /\ Taken(process)
    /\ pstatesStatus' = IF process = "ACK_SUSP" THEN "PM_SUSPENDED"
                                                ELSE pstatesStatus
    /\ UNCHANGED <<processFrame, severeFault, pgpeActive, wofVars, distance,
          quadVars, activeCores, pendingAck, answerVars, actuate, semActuate,
          toSgpe>>
    /\ Served(process)

Registration ==
    /\ process = "REGISTER"
    /\ activeQuads' = activeQuads \union pendQuadsRegisterProcess
    /\ registering' = registering \ pendQuadsRegisterProcess
    /\ pendQuadsRegisterProcess' = {}
    /\ IF pstatesStatus = "ACTIVE" THEN Retarget ELSE UNCHANGED distance
    /\ process' = "done"
    /\ UNCHANGED <<statusVars, wofVars, tableVars, requestedQuads,
          pendingActiveQuadUpdtDone, activeCores, postVars, irqVars,
          restoreProcess, actuateVars, halted, wire, answerVars, args, occflg,
          faultsLeft, sgpe, toSgpe>>

-----------------------------------------------------------------------------
(* The actuate thread.                                                     *)

actuateFrame == <<pendQuadsRegisterProcess, postVars, processVars, halted,
                  wire, worldVars>>
requestVars == <<wofVars, tableVars, quadVars, activeCores, answerVars>>

(* p9_pgpe_thread_actuate_pstates: wait until Pstates are started, or a    *)
(* suspend is asked for without.                                           *)
ActuateTop ==
    /\ actuate = "top"
    /\ actuate' = IF pstatesStatus = "ACTIVE" THEN "loop" ELSE "pend"
    /\ UNCHANGED <<actuateFrame, requestVars, statusVars, distance, irqVars,
                   semActuate, suspend, toSgpe>>

ActuatePend ==
    /\ actuate = "pend" /\ semActuate > 0
    /\ semActuate' = semActuate - 1 /\ actuate' = "loop"
    /\ UNCHANGED <<actuateFrame, requestVars, statusVars, distance, irqVars,
                   suspend, toSgpe>>

(* The loop while Pstates are active: step, answer, open the interrupt.    *)
ActuateLoop ==
    /\ actuate = "loop"
    /\ IF pstatesStatus = "ACTIVE"
       THEN actuate' = "step" /\ UNCHANGED irqVars
       ELSE actuate' = "leave" /\ Mask(IPI2HI)
    /\ UNCHANGED <<actuateFrame, requestVars, statusVars, distance,
                   semActuate, suspend, toSgpe>>

DoStep ==
    /\ actuate = "step"
    /\ distance' = IF distance > 0 /\ pstatesStatus = "ACTIVE"
                   THEN distance - 1 ELSE distance
    /\ actuate' = "acks"
    /\ UNCHANGED <<actuateFrame, requestVars, statusVars, irqVars,
                   semActuate, suspend, toSgpe>>

(* The voltage and the frequencies are within the limits: answer what      *)
(* waits for that.  A quad that leaves STOP waits for the VFRT made for    *)
(* the requested quads.                                                    *)
MadeForRequested == args.VFRT = requestedQuads
AfterAcks(acked) ==
    IF acked \intersect {"CLIP", "VFRT", "CORES"} # {} THEN "restore"
                                                       ELSE "loop"
ActuateAcks ==
    /\ actuate = "acks"
    /\ LET due == IF ~InRange THEN {} ELSE
              pendingAck \intersect
                 ({"CLIP", "VFRT", "CORES"}
                  \union (IF wofStatus = "ENABLED" THEN {"WOF_CTRL"} ELSE {}))
           interlock == /\ {"VFRT", "QUADS"} \subseteq pendingAck
                        /\ InRange /\ MadeForRequested
           acked == due \union (IF interlock THEN {"QUADS"} ELSE {})
       IN  /\ pendingAck' = pendingAck \ acked
           /\ Answer(acked)
           /\ pendingActiveQuadUpdtDone' =
                 (interlock \/ pendingActiveQuadUpdtDone)
           /\ reply' = [reply EXCEPT
                 !.QUADS = IF interlock THEN args.VFRT ELSE @,
                 !.CORES = IF "CORES" \in acked THEN activeCores ELSE @]
           /\ actuate' = AfterAcks(acked)
    /\ UNCHANGED <<actuateFrame, statusVars, wofVars, distance, processing,
          activeQuads, requestedQuads, activeCores, irqVars, semActuate,
          suspend, toSgpe>>

ActuateRestore ==
    /\ actuate = "restore"
    /\ IF stack = <<>> THEN Halt("STACK_UNDERFLOW")
       ELSE /\ Restore(1) /\ actuate' = "loop"
            /\ UNCHANGED <<actuateFrame, requestVars, statusVars, distance,
                           semActuate, suspend, toSgpe>>

(* Pstates are not active any more: safe mode, suspend, or stop.  The      *)
(* flags are sampled when safe mode begins, used when the chip has got to  *)
(* its safe voltage and frequency.                                         *)
EntersIfAsked == pstatesStatus = "SAFE_MODE_PENDING" /\ occflg # {}
EntersSafeMode == pstatesStatus = "SAFE_MODE_PENDING"
Leave ==
    /\ actuate = "leave"
    /\ IF EntersSafeMode
       THEN /\ suspend' = ("PM_COMPLEX_SUSPEND" \in occflg
                            /\ "SGPE" \notin severeFault)
            /\ actuate' = "safe"
       ELSE actuate' = "suspend" /\ UNCHANGED suspend
    /\ UNCHANGED <<actuateFrame, requestVars, statusVars, distance, irqVars,
                   semActuate, toSgpe>>

SafeMode ==
    /\ actuate = "safe"
    /\ pstatesStatus' = IF suspend THEN "PM_SUSPEND_PENDING" ELSE "SAFE_MODE"
    /\ distance' = 0
    /\ AckOnFault(OccAcks \union SgpeAcks)
    /\ wofStatus' = "DISABLED"
    /\ activeCoreUpdtAction' = IF wofStatus = "ENABLED" /\ WofPhaseTwo
                               THEN "ACK_ONLY" ELSE activeCoreUpdtAction
    /\ pgpeActive' = (pgpeActive /\ "CME" \notin severeFault)
    /\ actuate' = "suspend"
    /\ UNCHANGED <<actuateFrame, severeFault, processing, activeQuads,
          pendingActiveQuadUpdtDone, irqVars, semActuate, suspend, toSgpe>>

(* p9_pgpe_pstate_send_suspend_stop: the message is the one CTRL_STOP_UPDT *)
(* was sent in, and an answer that is still on its way finds the callback  *)
(* of the new request.                                                     *)
Suspend ==
    /\ actuate = "suspend"
    /\ actuate' = "stop"
    /\ IF pstatesStatus = "PM_SUSPEND_PENDING"
       THEN /\ toSgpe' = toSgpe \union {"SUSPEND"}
            /\ twice' = twice \union ({"SUSPEND"} \intersect toSgpe)
            /\ wire' = IF "ACK_CTRL" \in wire
                       THEN (wire \ {"ACK_CTRL"}) \union {"ACK_SUSP"}
                       ELSE wire
       ELSE UNCHANGED <<toSgpe, twice, wire>>
    /\ UNCHANGED <<pendQuadsRegisterProcess, postVars, processVars, halted,
          worldVars, wofVars, tableVars, quadVars, activeCores, outstanding,
          reply, statusVars, distance, irqVars, semActuate, suspend>>

Stop ==
    /\ actuate = "stop"
    /\ IF pstatesStatus = "STOP_PENDING"
       THEN PstateStop({})
       ELSE UNCHANGED <<pstatesStatus, wofVars, pendingAck, answerVars,
                        requestedQuads, pendingActiveQuadUpdtDone>>
    /\ Restore(1)
    /\ actuate' = "top"
    /\ UNCHANGED <<actuateFrame, severeFault, pgpeActive, distance,
          processing, activeQuads, activeCores, semActuate, suspend, toSgpe>>

-----------------------------------------------------------------------------
(* The OCC and the SGPE.  Each has one message of a kind, and sends it     *)
(* again when it is answered.  After its own severe fault it does nothing. *)

pgpeVars == <<statusVars, wofVars, distance, tableVars, quadVars, activeCores,
              pendQuadsRegisterProcess, postVars, irqVars, processVars,
              actuateVars, halted>>

Send(slot) ==
    /\ slot \in (Requests \intersect scenario) \ outstanding
    /\ outstanding' = outstanding \union {slot}
    /\ wire' = wire \union {slot}

OccSend(slot) ==
    /\ "OCC" \notin severeFault
    /\ (slot = "START_STOP" /\ Patient) => semActuate = 0 /\ actuate # "top"
    /\ Send(slot)
    /\ CASE slot = "START_STOP" -> \E a \in Actions \intersect {"start", "stop"} :
                                     args' = [args EXCEPT !.START_STOP = a]
         [] slot = "WOF_CTRL" -> \E a \in Actions \intersect {"on", "off"} :
                                     args' = [args EXCEPT !.WOF_CTRL = a]
         [] slot = "VFRT" -> args' = [args EXCEPT !.VFRT = requestedQuads]
         [] OTHER -> UNCHANGED args
    /\ UNCHANGED <<pgpeVars, twice, reply, occflg, faultsLeft, registering,
                   sgpe, toSgpe>>

OccFlag(f) ==
    /\ "OCC" \notin severeFault
    /\ f \in scenario \ occflg /\ occflg' = occflg \union {f}
    /\ UNCHANGED <<pgpeVars, wire, answerVars, args, faultsLeft, registering,
                   sgpe, toSgpe>>

(* p9_sgpe_ipc_pgpe_update_active_quads: NOTIFY, when the PGPE is there.   *)
QuadsNotify(type, units) ==
    /\ "SGPE" \notin severeFault /\ ~sgpe.suspended
    /\ pgpeActive /\ sgpe.quadOp = "idle" /\ sgpe.coreOp = "idle"
    /\ units # {} /\ units \intersect registering = {}
    /\ IF type = "entry" THEN units \subseteq sgpe.quads
                         ELSE units \intersect sgpe.quads = {}
    /\ Send("QUADS")
    /\ args' = [args EXCEPT !.QUADS = [type |-> type, stage |-> "NOTIFY",
                                       units |-> units]]
    /\ sgpe' = [sgpe EXCEPT !.quadOp = "NOTIFY"]
    /\ UNCHANGED <<pgpeVars, twice, reply, occflg, faultsLeft, registering,
                   toSgpe>>

(* The thread has its answer, and powers the quads off or on.              *)
QuadsPoll ==
    /\ "SGPE" \notin severeFault /\ sgpe.coreOp = "idle"
    /\ "QUADS" \notin outstanding
    /\ \/ /\ sgpe.quadOp = "NOTIFY"
          /\ LET op == args.QUADS
             IN  IF op.type = "entry"
                 THEN /\ sgpe' = [sgpe EXCEPT !.quadOp = "MID",
                                              !.quads = @ \ op.units]
                      /\ UNCHANGED registering
                 ELSE /\ sgpe' = [sgpe EXCEPT !.quadOp = "MID",
                                              !.quads = @ \union op.units]
                      /\ registering' = registering \union op.units
       \/ /\ sgpe.quadOp = "DONE"
          /\ sgpe' = [sgpe EXCEPT !.quadOp = "idle"]
          /\ UNCHANGED registering
    /\ UNCHANGED <<pgpeVars, wire, answerVars, args, occflg, faultsLeft,
                   toSgpe>>

(* DONE, when the PGPE is still there.                                     *)
QuadsDone ==
    /\ "SGPE" \notin severeFault /\ sgpe.coreOp = "idle"
    /\ sgpe.quadOp = "MID"
    /\ IF pgpeActive
       THEN /\ Send("QUADS")
            /\ args' = [args EXCEPT !.QUADS.stage = "DONE"]
            /\ sgpe' = [sgpe EXCEPT !.quadOp = "DONE"]
       ELSE /\ sgpe' = [sgpe EXCEPT !.quadOp = "idle"]
            /\ UNCHANGED <<outstanding, wire, args>>
    /\ UNCHANGED <<pgpeVars, twice, reply, occflg, faultsLeft, registering,
                   toSgpe>>

(* The cores are sent from an interrupt handler, which waits for the       *)
(* answer: nothing else runs on the SGPE.                                  *)
CoresSend(type, units) ==
    /\ "SGPE" \notin severeFault /\ ~sgpe.suspended
    /\ sgpe.updates /\ sgpe.coreOp = "idle"
    /\ units # {}
    /\ IF type = "entry" THEN units \subseteq sgpe.cores
                         ELSE units \intersect sgpe.cores = {}
    /\ Send("CORES")
    /\ args' = [args EXCEPT !.CORES = [type |-> type, stage |-> "none",
                                       units |-> units]]
    /\ sgpe' = [sgpe EXCEPT !.coreOp = "SENT"]
    /\ UNCHANGED <<pgpeVars, twice, reply, occflg, faultsLeft, registering,
                   toSgpe>>

CoresPoll ==
    /\ "SGPE" \notin severeFault
    /\ sgpe.coreOp = "SENT" /\ "CORES" \notin outstanding
    /\ sgpe' = [sgpe EXCEPT !.coreOp = "idle", !.cores =
          IF args.CORES.type = "entry" THEN @ \ args.CORES.units
                                       ELSE @ \union args.CORES.units]
    /\ UNCHANGED <<pgpeVars, wire, answerVars, args, occflg, faultsLeft,
                   registering, toSgpe>>

(* The handlers of CTRL_STOP_UPDT and, when STOP is idle, SUSPEND_STOP.    *)
AnswerCtrl ==
    /\ "SGPE" \notin severeFault
    /\ "CTRL" \in toSgpe /\ sgpe.coreOp = "idle"
    /\ toSgpe' = toSgpe \ {"CTRL"}
    /\ sgpe' = [sgpe EXCEPT !.updates = TRUE]
    /\ reply' = [reply EXCEPT !.CTRL = sgpe.cores]
    /\ wire' = wire \union {"ACK_CTRL"}
    /\ UNCHANGED <<pgpeVars, outstanding, twice, args, occflg, faultsLeft,
                   registering>>

AnswerSuspend ==
    /\ "SGPE" \notin severeFault
    /\ "SUSPEND" \in toSgpe
    /\ sgpe.coreOp = "idle" /\ sgpe.quadOp = "idle"
    /\ toSgpe' = toSgpe \ {"SUSPEND"}
    /\ sgpe' = [sgpe EXCEPT !.suspended = TRUE]
    /\ wire' = wire \union {"ACK_SUSP"}
    /\ UNCHANGED <<pgpeVars, answerVars, args, occflg, faultsLeft,
                   registering>>

-----------------------------------------------------------------------------
ProcessThread ==
    \/ ProcessPend \/ ProcessWake \/ ProcessDone
    \/ WofCtrl \/ WofCtrl2 \/ CtrlStopWait \/ UpdtActiveCores
    \/ UpdtActiveQuads \/ StartStop \/ StartStop2 \/ Started
    \/ ClipUpdt \/ ClipUpdt2 \/ WofVfrt \/ WofVfrt2 \/ SetPmcrReq
    \/ AckSgpe \/ Registration

(* Only while the process thread waits.                                    *)
ActuateMayAlways == TRUE
ActuateMay == process = "pend"
ActuateThread ==
    /\ ActuateMay
    /\ \/ ActuateTop \/ ActuatePend \/ ActuateLoop \/ DoStep
       \/ ActuateAcks \/ ActuateRestore \/ Leave \/ SafeMode
       \/ Suspend \/ Stop

SgpeRequests ==
    \/ \E type \in {"entry", "exit"}, q \in SUBSET Quads : QuadsNotify(type, q)
    \/ \E type \in {"entry", "exit"}, c \in SUBSET Cores : CoresSend(type, c)
SgpeThread == QuadsPoll \/ QuadsDone
SgpeHandlers == CoresPoll \/ AnswerCtrl \/ AnswerSuspend

Next ==
    /\ halted = "no" /\ UNCHANGED scenario
    /\ \/ IpcInterrupt \/ Type4Interrupt \/ HandleOccflgRequests
       \/ \E f \in Faults : ErrorInterrupt(f)
       \/ ProcessThread \/ ActuateThread
       \/ \E slot \in OccSlots : OccSend(slot)
       \/ \E f \in Flags : OccFlag(f)
       \/ SgpeRequests \/ SgpeThread \/ SgpeHandlers

Spec == Init /\ [][Next]_<<vars, scenario>>

(* The interrupts are taken when they are open, and the actuate thread     *)
(* runs between the requests, which are few.  The SGPE does not leave a    *)
(* STOP transition half way.  The OCC makes a VFRT for every new list of   *)
(* quads.                                                                  *)
Fairness ==
    /\ WF_vars(halted = "no" /\ ProcessThread)
    /\ SF_vars(halted = "no" /\ semProcess = 0 /\ ProcessPend)
    /\ SF_vars(halted = "no" /\ ActuateThread)
    /\ SF_vars(halted = "no" /\ (IpcInterrupt \/ Type4Interrupt))
    /\ WF_vars(halted = "no" /\ HandleOccflgRequests)
    /\ SF_vars(halted = "no" /\ (SgpeThread \/ CoresPoll \/ AnswerCtrl))
    /\ SF_vars(halted = "no" /\ AnswerSuspend)
    /\ SF_vars(halted = "no" /\ OccSend("VFRT"))

FairSpec == Spec /\ Fairness

-----------------------------------------------------------------------------
Statuses == {"INIT", "ACTIVE", "STOPPED", "STOP_PENDING"} \union Suspended
Updates == [type: {"none", "entry", "exit"}, stage: {"none", "NOTIFY", "DONE"},
            units: SUBSET (Quads \union Cores)]

(* Every variable keeps its type; the mask stack never nests deeper than   *)
(* an interrupt left masked, a pass over the table, and the actuate        *)
(* thread's own section.                                                   *)
TypeOK ==
    /\ pstatesStatus \in Statuses /\ wofStatus \in {"ENABLED", "DISABLED"}
    /\ severeFault \subseteq Faults /\ distance \in 0 .. MaxDistance
    /\ processing \subseteq Slots /\ pendingAck \subseteq RequestSlots
    /\ args.QUADS \in Updates /\ args.CORES \in Updates
    /\ activeQuads \subseteq Quads /\ activeCores \subseteq Cores
    /\ requestedQuads \subseteq Quads
    /\ pendQuadsRegisterProcess \subseteq registering
    /\ semProcess \in {0, 1} /\ semActuate \in {0, 1}
    /\ level \in {IPI2HI, DISABLED} /\ Len(stack) <= 3
    /\ wire \subseteq Requests \union AckSlots
    /\ outstanding \subseteq Requests
    /\ toSgpe \subseteq {"CTRL", "SUSPEND"}

(* No panic: the SGPE answers CTRL_STOP_UPDT, no quad registers twice, the *)
(* interrupt mask is restored as often as it was saved, and sem_actuate is *)
(* not posted again before its count is taken.                             *)
NoPanic == halted = "no"

(* What the PGPE has not answered is noted in its table or still on its    *)
(* way, and only that: ipcPendTbl and the two senders agree.               *)
TableIsOutstanding ==
    /\ outstanding = pendingAck \union (wire \ AckSlots)
    /\ pendingAck \intersect wire = {}

(* No request is answered twice, and SUSPEND_STOP is not sent again before *)
(* it is answered.                                                         *)
AnsweredOnce == twice = {}

(* semProcessPosted keeps the semaphore at one: when the process thread    *)
(* waits, the table is served, but for a START_STOP that waits for the     *)
(* SGPE to be done with its quads.                                         *)
NothingForgotten ==
    process = "pend" =>
        /\ pendQuadsRegisterProcess = {}
        /\ processing \subseteq {"START_STOP"}
        /\ "START_STOP" \in processing => pendingActiveQuadUpdtDone

(* When no thread is in a section of its own, the IPC interrupt is masked  *)
(* only if an answer is due that opens it: nobody else would.              *)
ClosedForAnAnswer ==
    (/\ process = "pend" /\ level = IPI2HI
     /\ actuate \in {"top", "pend", "loop", "step", "acks"})
        => pendingAck \intersect {"CORES", "CLIP", "VFRT"} # {}

(* So every request is noted, served and answered once, and at rest the    *)
(* PGPE is not deaf for good (p9_pgpe_thread_process_requests).            *)
RequestsAccounted ==
    TableIsOutstanding /\ AnsweredOnce /\ NothingForgotten /\ ClosedForAnAnswer

(* WOF is never enabled while Pstates are stopped (p9_pgpe_pstate_stop:    *)
(* "We should never have WOF enabled, but Pstate stopped").                *)
WofOnlyWhileStarted == pstatesStatus \in NotStarted => wofStatus = "DISABLED"

(* What the SGPE finds in the answer is the list it computes itself        *)
(* (p9_sgpe_ipc_pgpe_update_active_quads_poll_ack, .._cores_poll_ack).     *)
SgpeListsAgree ==
    LET changed(list, op) == IF op.type = "entry" THEN list \ op.units
                                                  ELSE list \union op.units
    IN  /\ (sgpe.quadOp \in {"NOTIFY", "DONE"} /\ "QUADS" \notin outstanding)
            => reply.QUADS = changed(sgpe.quads, args.QUADS)
        /\ (sgpe.coreOp = "SENT" /\ "CORES" \notin outstanding)
            => reply.CORES = changed(sgpe.cores, args.CORES)

(* The quads the PGPE sends its doorbells to, and waits for, are powered.  *)
ActiveQuadsArePowered == activeQuads \subseteq sgpe.quads

(* Both lists of quads: what the SGPE finds in the answers, and what the   *)
(* PGPE sends its doorbells to, is what has power.                         *)
ListsAgree == SgpeListsAgree /\ ActiveQuadsArePowered

(* Pstates start only between the STOP transitions of the quads: not when  *)
(* the SGPE has the answer to NOTIFY and the PGPE has not had DONE.        *)
StartsBetweenTransitions ==
    process = "STARTING" =>
        /\ sgpe.quadOp # "MID"
        /\ sgpe.quadOp = "NOTIFY" => "QUADS" \in outstanding

(* A request is answered only after the process thread has served it, and  *)
(* a clip or a VFRT that holds for active Pstates only when the voltage    *)
(* and the frequencies are within it.                                      *)
AnsweredWhenServed ==
    [][\A slot \in pendingAck \ pendingAck' :
          /\ slot \notin processing'
          /\ (/\ slot = "CLIP" \/ (slot = "VFRT" /\ wofStatus = "ENABLED")
              /\ pstatesStatus = "ACTIVE" /\ process = "pend")
             => InRange]_vars

(* Both senders get their answers.                                         *)
EveryRequestAnswered ==
    \A slot \in Requests : slot \in outstanding ~> slot \notin outstanding

(* The SGPE, whose thread waits for it, gets the answer to each NOTIFY and *)
(* DONE, also when the OCC must make a VFRT for the quads first.           *)
QuadsAnswered == "QUADS" \in outstanding ~> "QUADS" \notin outstanding

(* Safe mode, asked for by the OCC or by an error interrupt, is reached.   *)
ReachesSafeMode ==
    pstatesStatus = "SAFE_MODE_PENDING"
        ~> pstatesStatus \in Suspended \ {"SAFE_MODE_PENDING"}

(* PM_COMPLEX_SUSPEND is completed: the SGPE suspends STOP, and the PGPE   *)
(* has its answer.                                                         *)
SuspendCompletes ==
    "PM_COMPLEX_SUSPEND" \in occflg
        ~> (pstatesStatus = "PM_SUSPENDED" /\ sgpe.suspended)

(* PM_COMPLEX_SUSPENDED is only reported when STOP is suspended.           *)
SuspendedMeansSgpe == pstatesStatus = "PM_SUSPENDED" => sgpe.suspended
=============================================================================
