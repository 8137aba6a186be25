------------------------------- MODULE SgpeStop -------------------------------
(***************************************************************************)
(* The STOP function of the SGPE (ppe_closed/sgpe/stop_gpe): its interrupt *)
(* handlers with the stack of masks, the exit and the entry thread, and    *)
(* the partners they work with: the CMEs (ppe_closed/cme/stop_cme), which  *)
(* hand their cores over and take them back, and the PGPE, which keeps     *)
(* lists of the active cores and quads.                                    *)
(*                                                                         *)
(* A core that stops sends a packet (PIG) with its level and leaves its    *)
(* wakeups to the SGPE (wakeup_notify_select, wns).  When all cores of a   *)
(* quad are in STOP11 the SGPE has the quad manager turn the resonant      *)
(* clock off, purges the caches and takes the power away.  A wakeup is     *)
(* another packet: the SGPE powers the quad if it has to, and hands the    *)
(* core back to its CME.                                                   *)
(*                                                                         *)
(* A handler runs with EE off until it restores the mask, or until it has  *)
(* posted a thread, which restores it instead.  While a thread runs only   *)
(* the IPC and type 2 interrupt it.  rec is G_sgpe_stop_record.            *)
(*                                                                         *)
(* Each quad has one good EX with its CME.  DISABLE_STOP8 is set, as in    *)
(* the makefiles; the PGPE is active, and updates of cores are enabled.    *)
(***************************************************************************)
EXTENDS Integers, FiniteSetsExt, Sequences

CONSTANTS
    Quads,          \* numbers, in the order of the loops over the quads
    CoresOf(_),     \* the good cores of a quad
    First(_),       \* the first of them
    Levels,         \* the levels in which cores stop: of 5 and 11
    MaxStops,       \* bound: how many times cores stop
    Special,        \* the quads that get special wakeups,
    MaxSpecial,     \*   and a bound on them
    BlockWhat,      \* what the OCC blocks: of "entry" and "exit"
    BlockQuads,     \*   in these quads (QCCR),
    MaxBlocks,      \*   and a bound on it
    Mixes,          \* what comes together in one behaviour: sets of "pc",
                    \*   "special", "block" and "suspend"
    Windows         \* the short windows between two accesses in which
                    \*   something else may happen: a subset of AllWindows

AllWindows == {
    "doorbell_pc",  \* a CME acts between the write of its doorbell 2 and
                    \*   that of its wakeup_notify_select
    "ack",          \* a core stops, or wakes up in two ways, while the OCC
                    \*   waits for a block to be acknowledged; or its
                    \*   packet replaces such an acknowledgement
    "special_entry",\* special wakeup of a quad in STOP11, or that enters it
    "starved",      \* type 2 is masked for long while the late packet of a
                    \*   core that has entered STOP11 is pending
    "block_stopped",\* the OCC blocks or unblocks quads of which one is in
                    \*   STOP11, or has its resonant clock turned off or on
    "thread_start"} \* a suspension arrives between the post of a thread and
                    \*   its first statement, if EE is on there

Cores == UNION {CoresOf(q) : q \in Quads}
QuadOf(c) == CHOOSE q \in Quads : c \in CoresOf(q)
In(Q) == UNION {CoresOf(q) : q \in Q}

ASSUME SgpeAssumption ==
    /\ Quads \subseteq Nat
    /\ IsFiniteSet(Cores)
    /\ \A q \in Quads : First(q) \in CoresOf(q)
    /\ \A p, q \in Quads : p # q => CoresOf(p) \intersect CoresOf(q) = {}
    /\ Levels \subseteq {5, 11} /\ Special \subseteq Quads
    /\ MaxStops \in Nat /\ MaxSpecial \in Nat /\ MaxBlocks \in Nat
    /\ BlockWhat \subseteq {"entry", "exit"} /\ BlockQuads \subseteq Quads
    /\ \A m \in Mixes : m \subseteq {"pc", "special", "block", "suspend"}
    /\ Windows \subseteq AllWindows

VARIABLES
    running,    \* the cores that run
    wns,        \* the cores whose wakeup_notify_select is the SGPE
    type,       \* the PIG type of each core: CPMMR[10]
    wakeup,     \* the cores with a regular wakeup,
    pcPending,  \*   with an interrupt pending in the PC unit
    blockpc,    \* core_blockpc of the CMEs
    notified,   \* the cores whose CME has read wns in the PCWU handler
    cmeBlock,   \* core_blockey, core_blockwu of the CME of each quad,
    cmeSuspend, \*   the quads with core_suspendey and core_suspendwu
    db1, db2,   \* the doorbells of each CME and of each core
    powered,    \* the quads with power, whose CMEs run
    rclk,       \* the quads whose resonant clock is on (RCLK_OPERABLE)
    special,    \* the special wakeup of each quad, GPMMR its done bit
    pend,       \* OPITnPRA, OPIT6PRB: the packets not yet seen
    payload,    \* OPITnCN, OPIT6QN: the last packet of each
    control,    \* OCCFLG, with the request of the OCC: IPI3_LOW
    suspend,    \* the suspension of the PGPE: IPC
    rec,        \* G_sgpe_stop_record
    override,   \* g_oimr_override
    stack,      \* g_oimr_stack
    prty,       \* g_current_prty_level
    handler,    \* the handler that runs, and the cores it is about
    job,        \* where the threads are
    ee,         \* the EE bit with which each thread will wake up
    pgpe,       \* the lists of the PGPE
    panic,      \* why the SGPE halted
    budget      \* what is left of the bounds

coreVars == <<running, wns, type, wakeup, pcPending, blockpc, notified>>
cmeVars == <<cmeBlock, cmeSuspend, db1, db2, powered, rclk>>
requestVars == <<special, control, suspend>>
pigVars == <<pend, payload>>
irqVars == <<override, stack, prty>>
threadVars == <<job, ee>>
vars == <<coreVars, cmeVars, requestVars, pigVars, irqVars, threadVars, rec,
          handler, pgpe, panic, budget>>

CoreTypes == {"TYPE0", "TYPE2", "TYPE3"}
Irqs == CoreTypes \union {"TYPE6", "IPC", "IPI3_LOW"}
PrtyLvl == [IPC |-> 1, TYPE2 |-> 2, TYPE6 |-> 3, TYPE0 |-> 4, TYPE3 |-> 5,
            IPI3_LOW |-> 6]
DISABLED == 7
StopTypes == {"TYPE0", "TYPE2", "TYPE3", "TYPE6"}   \* bits 45, 47, 48, 51

(* The payloads of a core.  An acknowledgement that blocks or suspends has *)
(* bit 0x400 set, as an exit event has.                                    *)
Acks == {"ack_block", "ack_unblock", "ack_suspend"}
BlockAcks == Acks \ {"ack_suspend"}
ExitEvents == {"hw_wakeup", "dec_wakeup", "exit_rclk"}
ExitEventBit == ExitEvents \union {"ack_block", "ack_suspend"}
Payloads == {"none", "stop5", "stop11", "entry_rclk"}
            \union ExitEvents \union Acks

CoreVectors == {"BLOCKE", "BLOCKX", "SUSPENDE", "SUSPENDX", "EXIT", "ACTIVE",
                "RCLKE", "RCLKX", "PIGE", "PIGX", "PCWU"}
QuadVectors == {"BLOCKE", "BLOCKX", "ENTRY", "EXIT", "ACTIVE", "RCLK_REQ",
                "RCLK_DONE", "IN_STOP11", "RCLKX"}
QswuVectors == {"BLOCKE", "BLOCKX", "SUSPENDE", "SUSPENDX", "ENTRY", "EXIT",
                "ACTIVE"}
Status == {"ENTRY_SUSPENDED", "EXIT_SUSPENDED", "SUSPEND_PENDING",
           "STOP_PROCESSING"}

NoHandler == [irq |-> "none", at |-> "none", set |-> {}]
NoJob == [thread |-> "none", at |-> "idle", left |-> {}, aborted |-> FALSE]

(* When the SGPE starts, the cores of some quads run, and the other quads  *)
(* are in STOP11.                                                          *)
Init ==
    \E up \in SUBSET Quads, mix \in Mixes :
        /\ running = In(up) /\ wns = Cores \ In(up)
        /\ type = [c \in Cores |-> "TYPE3"]
        /\ wakeup = {} /\ pcPending = {} /\ blockpc = {} /\ notified = {}
        /\ cmeBlock = [q \in Quads |-> {}] /\ cmeSuspend = {}
        /\ db1 = [q \in Quads |-> "none"] /\ db2 = [c \in Cores |-> "none"]
        /\ powered = up /\ rclk = up
        /\ special = [q \in Quads |-> "off"]
        /\ pend = [t \in StopTypes |-> {}]
        /\ payload = [t \in StopTypes |-> IF t = "TYPE6"
                         THEN [q \in Quads |-> "none"]
                         ELSE [c \in Cores |-> "none"]]
        /\ control = "none" /\ suspend = "no"
        /\ rec = [level |-> [c \in Cores |-> IF c \in In(up) THEN 0 ELSE 11],
                  act |-> [q \in Quads |-> IF q \in up THEN 0 ELSE 11],
                  core |-> [v \in CoreVectors |->
                               IF v = "ACTIVE" THEN In(up) ELSE {}],
                  quad |-> [v \in QuadVectors |->
                               IF v = "ACTIVE" THEN up ELSE {}],
                  qswu |-> [v \in QswuVectors |-> {}],
                  creq |-> {}, cack |-> {}, status |-> {},
                  entry_pending |-> FALSE]
        /\ override = {} /\ stack = <<>> /\ prty = DISABLED
        /\ handler = NoHandler /\ job = NoJob
        /\ ee = [thread \in {"exit", "entry"} |-> TRUE]
        /\ pgpe = [cores |-> In(up), quads |-> up]
        /\ panic = "none"
        /\ budget = [stops |-> MaxStops,
                     special |-> IF "special" \in mix THEN MaxSpecial ELSE 0,
                     blocks |-> IF "block" \in mix THEN MaxBlocks ELSE 0,
                     pc |-> "pc" \in mix,
                     suspends |-> IF "suspend" \in mix THEN 1 ELSE 0]

-----------------------------------------------------------------------------
(* Cores and CMEs.  A packet replaces one of the same type that the SGPE   *)
(* has not read.                                                           *)

SendKeepsFirst(t, c, what) ==       \* mutant: a pending packet is not replaced
    /\ pend' = [pend EXCEPT ![t] = @ \union {c}]
    /\ payload' = IF c \in pend[t] THEN payload
                  ELSE [payload EXCEPT ![t][c] = what]
Send(t, c, what) ==
    /\ pend' = [pend EXCEPT ![t] = @ \union {c}]
    /\ payload' = [payload EXCEPT ![t][c] = what]
SendQuad(q, what) ==
    /\ pend' = [pend EXCEPT !.TYPE6 = @ \union {q}]
    /\ payload' = [payload EXCEPT !.TYPE6[q] = what]

Suspended(q) == q \in cmeSuspend
Kept(q) ==
    \/ "ack" \in Windows
    \/ /\ db1[q] \notin BlockAcks
       /\ ~(First(q) \in pend.TYPE3 /\ payload.TYPE3[First(q)] \in BlockAcks)
Quiet == "ack" \in Windows \/ control = "none"
PacketOf(level) == IF level = 11 THEN "stop11" ELSE "stop5"

(* No other handler of a CME runs while one does.                          *)
CmeFree(q) == q \in powered /\ CoresOf(q) \intersect notified = {}

(* The end of p9_cme_stop_entry: the packet, then wns.                     *)
CoreStops(q, c, level) ==
    /\ c \in running /\ CmeFree(q) /\ Kept(q) /\ Quiet
    /\ c \notin wakeup /\ c \notin pcPending
    /\ "entry" \notin cmeBlock[q] /\ ~Suspended(q)
    /\ \/ "starved" \in Windows \/ level = 5
       \/ ~(c \in pend.TYPE2 /\ "TYPE2" \in override)
    /\ budget.stops > 0 /\ budget' = [budget EXCEPT !.stops = @ - 1]
    /\ LET t == IF level = 11 THEN "TYPE3" ELSE "TYPE2" IN
           /\ type' = [type EXCEPT ![c] = t]
           /\ Send(t, c, PacketOf(level))
    /\ blockpc' = IF level = 11 THEN blockpc \union {c} ELSE blockpc \ {c}
    /\ running' = running \ {c} /\ wns' = wns \union {c}
    /\ UNCHANGED <<wakeup, pcPending, notified, cmeVars, requestVars, rec,
                   irqVars, threadVars, handler, pgpe, panic>>

(* A regular wakeup: the PPM sends a packet while wns is the SGPE.  A CME  *)
(* that blocks exits has set PM_BLOCK_INTERRUPTS.                          *)
WakeUp(q, c) ==
    /\ c \notin running /\ c \notin wakeup
    /\ Kept(q) /\ (c \in pcPending => Quiet)
    /\ "exit" \notin cmeBlock[q] /\ ~Suspended(q)
    /\ wakeup' = wakeup \union {c}
    /\ IF c \in wns THEN Send(type[c], c, "hw_wakeup") ELSE UNCHANGED pigVars
    /\ UNCHANGED <<running, wns, type, pcPending, blockpc, notified, cmeVars,
                   requestVars, rec, irqVars, threadVars, handler, pgpe,
                   panic, budget>>

(* An interrupt is pending in the PC unit of a core in STOP5.              *)
PcInterrupt(q, c) ==
    /\ budget.pc
    /\ c \notin running /\ type[c] = "TYPE2" /\ c \notin pcPending
    /\ Kept(q) /\ (c \in wakeup => Quiet)
    /\ "exit" \notin cmeBlock[q] /\ ~Suspended(q)
    /\ pcPending' = pcPending \union {c}
    /\ UNCHANGED <<running, wns, type, wakeup, blockpc, notified, cmeVars,
                   requestVars, pigVars, rec, irqVars, threadVars, handler,
                   pgpe, panic, budget>>

MayWake(q) == CmeFree(q) /\ "exit" \notin cmeBlock[q] /\ ~Suspended(q)

(* p9_cme_stop_pcwu_handler: it reads wns, and sends a packet of its own.  *)
PcwuRead(q, c) ==
    /\ MayWake(q) /\ c \in pcPending \ (running \union blockpc)
    /\ c \in wns /\ type[c] = "TYPE2"
    /\ notified' = notified \union {c}
    /\ UNCHANGED <<running, wns, type, wakeup, pcPending, blockpc, cmeVars,
                   requestVars, pigVars, rec, irqVars, threadVars, handler,
                   pgpe, panic, budget>>
PcwuSend(c) ==
    /\ c \in notified /\ notified' = notified \ {c}
    /\ Send("TYPE2", c, "dec_wakeup")
    /\ blockpc' = blockpc \union {c}
    /\ UNCHANGED <<running, wns, type, wakeup, pcPending, cmeVars,
                   requestVars, rec, irqVars, threadVars, handler, pgpe,
                   panic, budget>>

(* p9_cme_stop_exit of a core that was handed back.                        *)
CmeExit(q, c) ==
    /\ MayWake(q) /\ c \notin running /\ c \notin wns
    /\ c \in wakeup \/ c \in pcPending \ blockpc
    /\ running' = running \union {c}
    /\ wakeup' = wakeup \ {c} /\ pcPending' = pcPending \ {c}
    /\ blockpc' = blockpc \ {c}
    /\ UNCHANGED <<wns, type, notified, cmeVars, requestVars, pigVars, rec,
                   irqVars, threadVars, handler, pgpe, panic, budget>>

(* p9_cme_stop_db2_handler.                                                *)
CmeDb2(q, c) ==
    /\ CmeFree(q) /\ db2[c] # "none"
    /\ db2' = [db2 EXCEPT ![c] = "none"]
    /\ CASE db2[c] = "DECREMENTER_WAKEUP" ->
                /\ blockpc' = blockpc \ ({c} \ running)
                /\ UNCHANGED <<rclk, pigVars>>
         [] db2[c] = "RESONANT_CLOCK_DISABLE" ->
                /\ rclk' = rclk \ {q} /\ Send("TYPE0", c, "entry_rclk")
                /\ UNCHANGED blockpc
         [] OTHER ->
                /\ rclk' = rclk \union {q} /\ Send("TYPE0", c, "exit_rclk")
                /\ UNCHANGED blockpc
    /\ UNCHANGED <<running, wns, type, wakeup, pcPending, notified, cmeBlock,
                   cmeSuspend, db1, powered, requestVars, rec, irqVars,
                   threadVars, handler, pgpe, panic, budget>>

(* p9_cme_stop_db1_handler: the first core acknowledges with type 3.       *)
CmeDb1(q) ==
    /\ CmeFree(q) /\ db1[q] # "none"
    /\ db1' = [db1 EXCEPT ![q] = "none"]
    /\ cmeSuspend' = IF db1[q] = "ack_suspend" THEN cmeSuspend \union {q}
                     ELSE cmeSuspend
    /\ cmeBlock' = [cmeBlock EXCEPT ![q] =
                       CASE db1[q] = "ack_block" -> @ \union BlockWhat
                         [] db1[q] = "ack_unblock" -> @ \ BlockWhat
                         [] OTHER -> @]
    /\ Send("TYPE3", First(q), db1[q])
    /\ UNCHANGED <<coreVars, db2, powered, rclk, requestVars, rec, irqVars,
                   threadVars, handler, pgpe, panic, budget>>

-----------------------------------------------------------------------------
(* The requests of others.                                                 *)

(* Special wakeup of a quad: it is released when it was done.              *)
Purged(q) == job.at # "purge" \/ q \notin job.left
SpecialWakeup(q) ==
    /\ q \in Special /\ special[q] = "off"
    /\ \/ "special_entry" \in Windows
       \/ q \in powered /\ ~(q \in rec.quad.ENTRY /\ Purged(q))
    /\ budget.special > 0 /\ budget' = [budget EXCEPT !.special = @ - 1]
    /\ special' = [special EXCEPT ![q] = "asserted"]
    /\ SendQuad(q, "exit")
    /\ UNCHANGED <<coreVars, cmeVars, control, suspend, rec, irqVars,
                   threadVars, handler, pgpe, panic>>
ReleaseSpecial(q) ==
    /\ special[q] = "done"
    /\ special' = [special EXCEPT ![q] = "released"]
    /\ SendQuad(q, "entry")
    /\ UNCHANGED <<coreVars, cmeVars, control, suspend, rec, irqVars,
                   threadVars, handler, pgpe, panic, budget>>

(* The OCC writes OCCFLG and raises IPI3_LOW; the control bit is cleared   *)
(* when it is done.  What it has blocked it unblocks later.                *)
Blocked == rec.quad.BLOCKE \union rec.quad.BLOCKX # {}
OccRequest(action) ==
    /\ BlockWhat # {} /\ control = "none"
    /\ control' = action
    /\ UNCHANGED <<coreVars, cmeVars, special, suspend, pigVars, rec, irqVars,
                   threadVars, handler, pgpe, panic>>
OccBlocks ==
    /\ ~Blocked /\ OccRequest("block")
    /\ budget.blocks > 0 /\ budget' = [budget EXCEPT !.blocks = @ - 1]
OccUnblocks == Blocked /\ OccRequest("unblock") /\ UNCHANGED budget

(* p9_pgpe_suspend_stop: all entries and exits, before the PM complex is   *)
(* reset.                                                                  *)
PgpeSuspends ==
    /\ suspend = "no" /\ suspend' = "sent"
    /\ budget.suspends > 0 /\ budget' = [budget EXCEPT !.suspends = 0]
    /\ UNCHANGED <<coreVars, cmeVars, special, control, pigVars, rec, irqVars,
                   threadVars, handler, pgpe, panic>>

-----------------------------------------------------------------------------
(* Interrupts: the unified handler and pk_irq_vec_restore.                 *)

Asserted == {t \in StopTypes : pend[t] # {}}
            \union {i \in {"IPC"} : suspend = "sent"}
            \union {i \in {"IPI3_LOW"} : control \in {"block", "unblock"}}
Deliverable == {i \in Asserted \ override : PrtyLvl[i] < prty}

(* A thread that was posted runs its first statement with EE as it was     *)
(* when the thread went to sleep; then it turns EE on.                     *)
Interruptible == job.at = "posted" => ee[job.thread]

Halt(why) == panic' = why
Running == panic = "none"
HandlerRuns(at) == Running /\ handler.at = at
ThreadRuns(thread, at) == /\ Running /\ handler = NoHandler
                          /\ job.thread = thread /\ job.at = at

Clocking == UNION {rec.quad.RCLK_REQ, rec.quad.RCLK_DONE, rec.quad.RCLKX}

(* pk_unified_irq_prty_mask_handler, then the handler reads and clears     *)
(* what is pending; it leaves the exits of a quad whose resonant clock is  *)
(* being turned off.                                                       *)
TakeInterrupt(i) ==
    /\ Running /\ handler = NoHandler /\ Interruptible
    /\ i \in Deliverable
    /\ \A j \in Deliverable : PrtyLvl[i] <= PrtyLvl[j]
    /\ i = "IPC" /\ job.at = "posted" => "thread_start" \in Windows
    /\ i = "IPI3_LOW" /\ "block_stopped" \notin Windows =>
           BlockQuads \subseteq rec.quad.ACTIVE \ Clocking
    /\ IF Len(stack) = 8
       THEN Halt("STACK_OVERFLOW") /\ UNCHANGED <<stack, prty, handler, pend>>
       ELSE LET seen == IF i \notin StopTypes THEN {}
                        ELSE IF i = "TYPE3" THEN pend[i] \ rec.core.RCLKE
                        ELSE pend[i]
            IN  /\ stack' = Append(stack, prty) /\ prty' = PrtyLvl[i]
                /\ handler' = [irq |-> i, at |-> i, set |-> seen]
                /\ pend' = IF i \in StopTypes
                           THEN [pend EXCEPT ![i] = @ \ seen] ELSE pend
                /\ UNCHANGED panic
    /\ UNCHANGED <<coreVars, cmeVars, requestVars, payload, rec, override,
                   threadVars, pgpe, budget>>

(* pk_irq_vec_restore.                                                     *)
VecRestore == IF stack = <<>>
              THEN Halt("STACK_UNDERFLOW") /\ UNCHANGED <<stack, prty>>
              ELSE /\ prty' = stack[Len(stack)]
                   /\ stack' = SubSeq(stack, 1, Len(stack) - 1)
                   /\ UNCHANGED panic

(* p9_sgpe_pig_thread_lanucher, with the record r: it posts the threads,   *)
(* which will restore the mask, or restores it itself.  (The shift by 16   *)
(* that shall take the blocked quads out of those whose resonant clock is  *)
(* off takes out none.)                                                    *)
Posted(thread) == [NoJob EXCEPT !.thread = thread, !.at = "posted"]
Launch(r) ==
    LET exits == r.core.PIGX # {} \/ r.qswu.EXIT # {}
        entries == r.qswu.ENTRY # {} \/ r.core.PIGE # {}
                   \/ r.quad.RCLK_DONE # {}
    IN  /\ handler' = NoHandler
        /\ rec' = [r EXCEPT !.core.EXIT = r.core.PIGX,
                            !.core.PIGX = {}, !.core.PIGE = {},
                            !.entry_pending = @ \/ entries]
        /\ IF exits \/ entries
           THEN /\ override' = override \union {"TYPE0", "TYPE3", "TYPE6"}
                /\ job' = Posted(IF exits THEN "exit" ELSE "entry")
                /\ UNCHANGED <<stack, prty, panic>>
           ELSE /\ override' = override \ {"TYPE2"}
                /\ VecRestore /\ UNCHANGED job

-----------------------------------------------------------------------------
(* p9_sgpe_pig_cpayload_parser, for the cores whose packets were pending.  *)

Vector == [entry |-> [block |-> "BLOCKE", suspend |-> "SUSPENDE",
                      core |-> "PIGE", qswu |-> "ENTRY",
                      status |-> "ENTRY_SUSPENDED"],
           exit |-> [block |-> "BLOCKX", suspend |-> "SUSPENDX",
                     core |-> "PIGX", qswu |-> "EXIT",
                     status |-> "EXIT_SUSPENDED"]]

(* What was blocked is requested again, or suspended.                      *)
Released(d, r) ==
    LET v == Vector[d]
        held == v.status \in r.status
        toCore == IF held THEN v.suspend ELSE v.core
        toQuad == IF held THEN v.suspend ELSE v.qswu
    IN  [r EXCEPT !.core[toCore] = @ \union r.core[v.block],
                  !.qswu[toQuad] = @ \union r.qswu[v.block],
                  !.core[v.block] = {}, !.qswu[v.block] = {}]
Unblocked(r) == FoldSet(Released, r, BlockWhat)

AcknowledgedByQuad(r, c, what) ==  \* mutant: the quad instead of the core
    LET s == [r EXCEPT !.cack = @ \union {QuadOf(c)}]
    IN  IF what = "ack_unblock" /\ s.cack = s.creq THEN Unblocked(s) ELSE s

Acknowledged(r, c, what) ==
    LET s == [r EXCEPT !.cack = @ \union {c}]
    IN  IF what = "ack_unblock" /\ s.cack = s.creq THEN Unblocked(s) ELSE s

RequestedAlways(r, q, cs, d) ==    \* mutant: the suspension is not looked at
    LET v == Vector[d]
        blocked == q \in r.quad[v.block]
    IN  [r EXCEPT !.core[v.block] = IF blocked THEN @ \union cs ELSE @,
                  !.core[v.core] = IF blocked THEN @ ELSE @ \union cs]

(* Cores cs of a quad want to enter or to exit: the request is granted, or *)
(* kept while the quad is blocked or all are suspended.                    *)
Requested(r, q, cs, d) ==
    LET v == Vector[d]
        held == v.status \in r.status
        blocked == q \in r.quad[v.block]
        granted == ~held /\ ~blocked
    IN  [r EXCEPT !.core[v.suspend] = IF held THEN @ \union cs ELSE @,
                  !.core[v.block] = IF blocked THEN @ \union cs ELSE @,
                  !.core[v.core] = IF granted THEN @ \union cs ELSE @]

(* When the resonant clock of an aborted entry is on again, the cores that *)
(* waited for it exit.                                                     *)
ExitPacket(r, c, what) ==
    LET q == QuadOf(c)
        clocked == what = "exit_rclk"
        s == [r EXCEPT
                 !.core.PCWU = IF what = "dec_wakeup" THEN @ \union {c} ELSE @,
                 !.quad.RCLKX = IF clocked THEN @ \ {q} ELSE @]
    IN  Requested(s, q, IF clocked THEN s.core.RCLKX \intersect CoresOf(q)
                                   ELSE {c}, "exit")

EntryPacket(r, c, what) ==
    LET q == QuadOf(c)
        s == [r EXCEPT !.level[c] = IF what = "stop5" THEN 5 ELSE 11]
    IN  IF what = "entry_rclk"
        THEN [s EXCEPT !.quad.RCLK_REQ = @ \ {q},
                       !.quad.RCLK_DONE = @ \union {q}]
        ELSE Requested(s, q, {c}, "entry")

(* A wakeup by the CME (dec_wakeup) may be late: the core was handed over  *)
(* because of another, or has even entered again.                          *)
Late(c, what) == what = "dec_wakeup" /\ (c \in wns => c \in pend.TYPE3)
Phantom(c, what) == c \notin wns /\ what \notin Acks \union {"dec_wakeup"}

Packet(t, c, r) ==
    LET what == payload[t][c]
    IN  CASE what = "ack_suspend" -> r
          [] what \in Acks \ {"ack_suspend"} -> Acknowledged(r, c, what)
          [] Late(c, what) -> r
          [] what \in ExitEvents /\ ~Late(c, what) -> ExitPacket(r, c, what)
          [] OTHER -> EntryPacket(r, c, what)

Parsed(t, cs) ==
    FoldSet(LAMBDA c, s : Packet(t, c, s),
            [rec EXCEPT !.core.PIGE = {}, !.core.PIGX = {}], cs)

(* The whole handler.  It tells the PGPE of the cores that exit and then   *)
(* of those that enter, and compares the lists; type 2 exits are handed to *)
(* the CMEs at once, the others by the exit thread.                        *)
HandlePackets(t) ==
    /\ HandlerRuns(t)
    /\ LET parsed == Parsed(t, handler.set)
           exits == parsed.core.PIGX
           entries == parsed.core.PIGE
           active == parsed.core.ACTIVE
           after == pgpe.cores \union exits
           acked == \E c \in handler.set :
                       payload[t][c] \in {"ack_block", "ack_unblock"}
           r == [parsed EXCEPT !.core.ACTIVE = (@ \union exits) \ entries]
           badList == \/ exits # {} /\ after # active \union exits
                      \/ /\ entries # {}
                         /\ after \ entries # (active \ entries) \union exits
           why == IF \E c \in handler.set : Phantom(c, payload[t][c])
                  THEN "PHANTOM"
                  ELSE IF badList THEN "BAD_CORE_LIST" ELSE "none"
       IN  IF why # "none"
           THEN Halt(why) /\ UNCHANGED <<rec, handler, pgpe, control, irqVars,
                                         job>>
           ELSE /\ pgpe' = [pgpe EXCEPT !.cores = after \ entries]
                /\ control' = IF acked /\ r.cack = r.creq THEN "none"
                                                          ELSE control
                /\ IF t = "TYPE2"
                   THEN /\ rec' = [r EXCEPT !.core.PIGE = {},
                                            !.core.PIGX = {}]
                        /\ handler' = [handler EXCEPT !.at = "handoff",
                                                      !.set = exits]
                        /\ UNCHANGED <<irqVars, job, panic>>
                   ELSE Launch(r)
    /\ UNCHANGED <<coreVars, cmeVars, special, suspend, pigVars, ee, budget>>

(* p9_sgpe_stop_exit_handoff_cme, for cores cs.  A core that the PC unit   *)
(* woke gets a doorbell, so that its CME unmasks the interrupt.            *)
HandedOver(r, cs) ==
    [r EXCEPT !.level = [c \in Cores |-> IF c \in cs THEN 0 ELSE @[c]],
              !.core.PCWU = @ \ cs, !.core.EXIT = @ \ cs]
DoorbellPc(cs) ==
    [c \in Cores |-> IF c \in cs \intersect rec.core.PCWU
                     THEN "DECREMENTER_WAKEUP" ELSE db2[c]]
HandOverKeepsPackets(cs) ==        \* mutant: pending packets are not cleared
    wns' = wns \ cs /\ UNCHANGED pend
HandOverForgotten(cs) ==           \* mutant: wakeup_notify_select stays
    UNCHANGED wns /\ pend' = [pend EXCEPT !.TYPE2 = @ \ cs, !.TYPE3 = @ \ cs]
HandOver(cs) ==
    /\ wns' = wns \ cs
    /\ pend' = [pend EXCEPT !.TYPE2 = @ \ cs, !.TYPE3 = @ \ cs]

DoorbellFirst(c) ==
    /\ HandlerRuns("handoff") /\ "doorbell_pc" \in Windows
    /\ c \in handler.set \intersect rec.core.PCWU
    /\ db2' = DoorbellPc({c})
    /\ rec' = [rec EXCEPT !.core.PCWU = @ \ {c}]
    /\ UNCHANGED <<coreVars, cmeBlock, cmeSuspend, db1, powered, rclk,
                   requestVars, pigVars, irqVars, threadVars, handler, pgpe,
                   panic, budget>>
HandOffKeepsMask ==                \* mutant: the mask is not restored
    /\ HandlerRuns("handoff")
    /\ rec' = HandedOver(rec, handler.set)
    /\ HandOver(handler.set) /\ db2' = DoorbellPc(handler.set)
    /\ handler' = NoHandler
    /\ UNCHANGED <<running, type, wakeup, pcPending, blockpc, notified,
                   cmeBlock, cmeSuspend, db1, powered, rclk, requestVars,
                   payload, irqVars, threadVars, pgpe, panic, budget>>
HandOff ==
    /\ HandlerRuns("handoff")
    /\ rec' = HandedOver(rec, handler.set)
    /\ HandOver(handler.set) /\ db2' = DoorbellPc(handler.set)
    /\ handler' = NoHandler /\ VecRestore
    /\ UNCHANGED <<running, type, wakeup, pcPending, blockpc, notified,
                   cmeBlock, cmeSuspend, db1, powered, rclk, requestVars,
                   payload, override, threadVars, pgpe, budget>>

(* p9_sgpe_pig_type6_handler: special wakeups of quads.  exit_ignored and  *)
(* entry_ignored are set for the first quad that has to wait, and stay set *)
(* for the quads behind it.                                                *)
SpecialPackets ==
    /\ HandlerRuns("TYPE6")
    /\ LET Of(what) == {q \in handler.set : payload.TYPE6[q] = what}
           news == Of("exit") \ rec.qswu.ACTIVE
           up == news \intersect rec.quad.ACTIVE
           down == news \ up
           Held(qs, d) == IF Vector[d].status \in rec.status THEN qs ELSE {}
           Barred(qs, d) == qs \intersect rec.quad[Vector[d].block]
           Granted(qs, d) ==
               {q \in qs : \A p \in Held(qs, d) \union Barred(qs, d) : q < p}
       IN  /\ special' = [q \in Quads |->
                             CASE q \in up -> "done"
                               [] q \in Of("entry") -> "off"
                               [] OTHER -> special[q]]
           /\ Launch([rec EXCEPT
                  !.qswu.SUSPENDX = @ \union Held(down, "exit"),
                  !.qswu.BLOCKX = @ \union Barred(down, "exit"),
                  !.qswu.EXIT = Granted(down, "exit"),
                  !.qswu.SUSPENDE = @ \union Held(Of("entry"), "entry"),
                  !.qswu.BLOCKE = @ \union Barred(Of("entry"), "entry"),
                  !.qswu.ENTRY = Granted(Of("entry"), "entry"),
                  !.qswu.ACTIVE = (@ \union up)
                                      \ Granted(Of("entry"), "entry")])
    /\ UNCHANGED <<coreVars, cmeVars, control, suspend, pigVars, ee, pgpe,
                   budget>>

(* p9_sgpe_ipi3_low_handler: the OCC blocks or unblocks quads.  The CMEs   *)
(* of those with an active core have to acknowledge it.                    *)
BlockRequest ==
    /\ HandlerRuns("IPI3_LOW")
    /\ LET block == control = "block"
           asked == BlockQuads \intersect rec.quad.ACTIVE
           Marked(d, qs) == IF d \notin BlockWhat THEN qs
                            ELSE IF block THEN qs \union BlockQuads
                            ELSE qs \ BlockQuads
           r == [rec EXCEPT !.quad.BLOCKE = Marked("entry", @),
                            !.quad.BLOCKX = Marked("exit", @),
                            !.creq = {First(q) : q \in asked},
                            !.cack = {}]
       IN  /\ db1' = [q \in Quads |->
                         IF q \notin asked THEN db1[q]
                         ELSE IF block THEN "ack_block" ELSE "ack_unblock"]
           /\ control' = IF asked = {} THEN "none" ELSE "asked"
           /\ Launch(IF asked = {} /\ ~block THEN Unblocked(r) ELSE r)
    /\ UNCHANGED <<coreVars, cmeBlock, cmeSuspend, db2, powered, rclk,
                   special, suspend, pigVars, ee, pgpe, budget>>

-----------------------------------------------------------------------------
(* Suspension (p9_sgpe_ipc_pgpe_suspend_stop): at once when no thread is   *)
(* working, else the thread does it at its end.                            *)

SuspendAllCmes ==
    db1' = [q \in Quads |-> IF q \in rec.quad.ACTIVE THEN "ack_suspend"
                                                     ELSE db1[q]]
AllSuspended == \A q \in rec.quad.ACTIVE :
                    payload.TYPE3[First(q)] = "ack_suspend"

SuspendRequest ==
    /\ HandlerRuns("IPC")
    /\ override' = override \union StopTypes
    /\ suspend' = "taken"
    /\ IF "STOP_PROCESSING" \in rec.status
       THEN /\ rec' = [rec EXCEPT !.status = @ \union {"SUSPEND_PENDING"}]
            /\ handler' = NoHandler /\ VecRestore /\ UNCHANGED db1
       ELSE /\ SuspendAllCmes /\ handler' = [handler EXCEPT !.at = "suspending"]
            /\ UNCHANGED <<rec, stack, prty, panic>>
    /\ UNCHANGED <<coreVars, cmeBlock, cmeSuspend, db2, powered, rclk, special,
                   control, pigVars, threadVars, pgpe, budget>>

(* The end of p9_sgpe_stop_suspend_all_cmes, which waits in a loop: of the *)
(* handler, or of a thread.                                                *)
SuspendDone ==
    /\ AllSuspended /\ suspend' = "acked"
    /\ rec' = [rec EXCEPT !.status = (@ \ {"SUSPEND_PENDING"}) \union
                              {"ENTRY_SUSPENDED", "EXIT_SUSPENDED"}]
    /\ UNCHANGED <<coreVars, cmeVars, special, control, pigVars, override, ee,
                   pgpe, budget>>
HandlerSuspends ==
    /\ HandlerRuns("suspending") /\ SuspendDone
    /\ handler' = NoHandler /\ VecRestore /\ UNCHANGED job
ThreadSuspends(thread) ==
    /\ ThreadRuns(thread, "suspending") /\ SuspendDone
    /\ job' = [job EXCEPT !.at = "closing"]
    /\ UNCHANGED <<stack, prty, handler, panic>>

(* p9_sgpe_fit_handler: when packets of types 0, 3 and 6 are not taken for *)
(* long, type 2 is masked until they are.                                  *)
Fit ==
    /\ Running /\ handler = NoHandler /\ Interruptible
    /\ "STOP_PROCESSING" \notin rec.status
    /\ pend.TYPE0 \union pend.TYPE3 \union pend.TYPE6 # {}
    /\ "TYPE2" \notin override
    /\ "starved" \in Windows \/ \A c \in pend.TYPE2 : type[c] = "TYPE2"
    /\ override' = override \union {"TYPE2"}
    /\ UNCHANGED <<coreVars, cmeVars, requestVars, pigVars, stack, prty, rec,
                   threadVars, handler, pgpe, panic, budget>>

-----------------------------------------------------------------------------
(* The threads: p9_sgpe_stop_exit_thread and p9_sgpe_stop_enter_thread.    *)

Lowest(qs) == CHOOSE q \in qs : \A p \in qs : q <= p
To(at) == job' = [job EXCEPT !.at = at]
ToQuads(at, qs) == job' = [job EXCEPT !.at = at, !.left = qs]

ThreadStarts(thread) ==
    /\ ThreadRuns(thread, "posted")
    /\ rec' = [rec EXCEPT !.status = @ \union {"STOP_PROCESSING"}]
    /\ To("select")
    /\ UNCHANGED <<coreVars, cmeVars, requestVars, pigVars, irqVars, ee,
                   handler, pgpe, panic, budget>>

(* The PGPE is told which quads exit or enter, before (NOTIFY) and after   *)
(* (DONE); it answers with its list of the active quads.                   *)
TellsExit(r, at) ==
    IF r.quad.EXIT = {}
    THEN rec' = r /\ ToQuads(at, {}) /\ UNCHANGED <<pgpe, panic>>
    ELSE LET quads == pgpe.quads \union r.quad.EXIT
         IN  IF quads # r.quad.EXIT \union r.quad.ACTIVE
             THEN Halt("BAD_QUAD_LIST") /\ UNCHANGED <<rec, job, pgpe>>
             ELSE /\ pgpe' = [pgpe EXCEPT !.quads = quads]
                  /\ rec' = r /\ ToQuads(at, r.quad.EXIT)
                  /\ UNCHANGED panic
TellsEntry(stage, at) ==
    IF rec.quad.ENTRY = {}
    THEN ToQuads(at, {}) /\ UNCHANGED <<pgpe, panic>>
    ELSE LET quads == pgpe.quads \ rec.quad.ENTRY
         IN  IF quads # rec.quad.ACTIVE \ rec.quad.ENTRY
             THEN Halt("BAD_QUAD_LIST") /\ UNCHANGED <<job, pgpe>>
             ELSE /\ pgpe' = IF stage = "DONE"
                             THEN [pgpe EXCEPT !.quads = quads] ELSE pgpe
                  /\ ToQuads(at, rec.quad.ENTRY)
                  /\ UNCHANGED panic

(* p9_sgpe_stop_exit: the quads to exit from STOP11, and NOTIFY.           *)
ExitSelects ==
    /\ ThreadRuns("exit", "select")
    /\ LET Wanted(q) == \/ CoresOf(q) \intersect rec.core.EXIT # {}
                        \/ q \in rec.qswu.EXIT
           quads == {q \in Quads : Wanted(q) /\ rec.act[q] = 11}
       IN  TellsExit([rec EXCEPT !.quad.EXIT = quads], "express")
    /\ UNCHANGED <<coreVars, cmeVars, requestVars, pigVars, irqVars, ee,
                   handler, budget>>

ExitEndUnclocked(r, qs) ==         \* mutant: the resonant clock is not awaited
    LET ready == r.core.EXIT \intersect In(qs)
        exits == {QuadOf(c) : c \in ready}
        woken == qs \intersect r.qswu.EXIT
    IN  /\ rec' = [HandedOver(r, ready) EXCEPT
                      !.qswu.ACTIVE = @ \union woken,
                      !.qswu.EXIT = @ \ woken,
                      !.quad.IN_STOP11 = @ \ exits,
                      !.quad.ACTIVE = @ \union exits]
        /\ special' = [q \in Quads |-> IF q \in woken THEN "done"
                                                      ELSE special[q]]
        /\ HandOver(ready)

(* p9_sgpe_stop_exit_end for quads qs: the cores are handed over, or wait  *)
(* for the resonant clock.                                                 *)
ExitEnd(r, qs) ==
    LET cores == r.core.EXIT \intersect In(qs)
        ready == cores \ In(r.quad.RCLKX)
        exits == {QuadOf(c) : c \in ready}
        woken == qs \intersect r.qswu.EXIT
    IN  /\ rec' = [HandedOver(r, ready) EXCEPT
                      !.qswu.ACTIVE = @ \union woken,
                      !.qswu.EXIT = @ \ woken,
                      !.core.RCLKX = (@ \union cores) \ ready,
                      !.quad.IN_STOP11 = @ \ exits,
                      !.quad.ACTIVE = @ \union exits]
        /\ special' = [q \in Quads |-> IF q \in woken THEN "done"
                                                      ELSE special[q]]
        /\ HandOver(ready)

ExitExpress ==
    /\ ThreadRuns("exit", "express")
    /\ LET qs == Quads \ rec.quad.EXIT
       IN  /\ ExitEnd(rec, qs)
           /\ db2' = DoorbellPc((rec.core.EXIT \intersect In(qs))
                                    \ In(rec.quad.RCLKX))
    /\ To("quads")
    /\ UNCHANGED <<running, type, wakeup, pcPending, blockpc, notified,
                   cmeBlock, cmeSuspend, db1, powered, rclk, control, suspend,
                   payload, irqVars, ee, handler, pgpe, panic, budget>>

(* A quad in STOP11 is powered and clocked, and its CME boots, with its    *)
(* entries blocked if they are.                                            *)
ExitQuad(q) ==
    /\ ThreadRuns("exit", "quads") /\ job.left # {} /\ q = Lowest(job.left)
    /\ powered' = powered \union {q} /\ rclk' = rclk \union {q}
    /\ cmeBlock' = [cmeBlock EXCEPT ![q] = IF q \in rec.quad.BLOCKE
                                           THEN {"entry"} ELSE {}]
    /\ cmeSuspend' = cmeSuspend \ {q}
    /\ blockpc' = blockpc \ CoresOf(q)
    /\ db1' = [db1 EXCEPT ![q] = "none"]
    /\ db2' = [c \in Cores |-> IF c \in CoresOf(q) THEN "none" ELSE db2[c]]
    /\ ExitEnd([rec EXCEPT !.act[q] = 0], {q})
    /\ ToQuads("quads", job.left \ {q})
    /\ UNCHANGED <<running, type, wakeup, pcPending, notified, control,
                   suspend, payload, irqVars, ee, handler, pgpe, panic, budget>>

ExitTellsDone ==
    /\ ThreadRuns("exit", "quads") /\ job.left = {}
    /\ TellsExit(rec, "end")
    /\ UNCHANGED <<coreVars, cmeVars, requestVars, pigVars, irqVars, ee,
                   handler, budget>>

(* When the entry thread was posted too, it goes on with the mask as it is.*)
ExitThreadEnds ==
    /\ ThreadRuns("exit", "end")
    /\ IF rec.entry_pending
       THEN job' = Posted("entry") /\ UNCHANGED rec /\ ee' = [ee EXCEPT !.exit = TRUE]
       ELSE /\ rec' = [rec EXCEPT !.status = @ \ {"STOP_PROCESSING"}]
            /\ To("closing") /\ UNCHANGED ee
    /\ UNCHANGED <<coreVars, cmeVars, requestVars, pigVars, irqVars, handler,
                   pgpe, panic, budget>>

(* p9_sgpe_stop_entry: a quad all of whose cores are in STOP11 has its     *)
(* resonant clock turned off first; when that is done it enters.           *)
EntrySelects ==
    /\ ThreadRuns("entry", "select")
    /\ LET kept == UNION {rec.qswu.ACTIVE, rec.quad.BLOCKE, rec.quad.RCLK_REQ,
                          rec.quad.RCLKX}
           asleep == {q \in Quads \ kept :
                         rec.act[q] < 11
                         /\ \A c \in CoresOf(q) : rec.level[c] >= 11}
           enter == asleep \intersect rec.quad.RCLK_DONE
           disable == asleep \ (rec.quad.RCLK_DONE \union rec.quad.IN_STOP11)
       IN  /\ rec' = [rec EXCEPT
                         !.quad.ENTRY = enter,
                         !.quad.RCLK_DONE = @ \ enter,
                         !.quad.IN_STOP11 = @ \union enter,
                         !.quad.RCLK_REQ = @ \union disable,
                         !.core.RCLKE = (@ \ In(enter)) \union In(disable)]
           /\ db2' = [c \in Cores |->
                         IF c \in {First(q) : q \in disable}
                         THEN "RESONANT_CLOCK_DISABLE" ELSE db2[c]]
           /\ ToQuads("purge", enter)
    /\ UNCHANGED <<coreVars, cmeBlock, cmeSuspend, db1, powered, rclk,
                   requestVars, pigVars, irqVars, ee, handler, pgpe, panic,
                   budget>>

(* The purge of the L3 cache is aborted when a wakeup arrives: a packet of *)
(* the quad is pending, and a core's last packet is an exit event.  From   *)
(* then on it is aborted for the other quads too.                          *)
ExitArrived(q) ==
    \/ /\ CoresOf(q) \intersect (pend.TYPE2 \union pend.TYPE3) # {}
       /\ \E c \in CoresOf(q) : \/ payload.TYPE2[c] \in ExitEventBit
                                \/ payload.TYPE3[c] \in ExitEventBit
    \/ q \in pend.TYPE6 /\ payload.TYPE6[q] = "exit"
Purge(q) ==
    /\ ThreadRuns("entry", "purge") /\ job.left # {} /\ q = Lowest(job.left)
    /\ LET abort == \/ job.aborted
                    \/ q \notin rec.quad.BLOCKX /\ ExitArrived(q)
       IN  /\ job' = [job EXCEPT !.left = @ \ {q}, !.aborted = abort]
           /\ rec' = IF abort THEN [rec EXCEPT !.quad.RCLKX = @ \union {q},
                                               !.quad.ENTRY = @ \ {q}]
                     ELSE rec
           /\ db2' = IF abort THEN [db2 EXCEPT ![First(q)] =
                                       "RESONANT_CLOCK_ENABLE"]
                     ELSE db2
    /\ UNCHANGED <<coreVars, cmeBlock, cmeSuspend, db1, powered, rclk,
                   requestVars, pigVars, irqVars, ee, handler, pgpe, panic,
                   budget>>

EntryNotifies ==
    /\ ThreadRuns("entry", "purge") /\ job.left = {}
    /\ TellsEntry("NOTIFY", "quads")
    /\ UNCHANGED <<coreVars, cmeVars, requestVars, pigVars, irqVars, ee, rec,
                   handler, budget>>

(* The clocks are stopped and the power is turned off, if the resonant     *)
(* clock is: QPPM_QACCR must be clean once the CMEs are halted.            *)
EntryQuad(q) ==
    /\ ThreadRuns("entry", "quads") /\ job.left # {} /\ q = Lowest(job.left)
    /\ panic' = IF q \in rclk THEN "RESCLK_ON" ELSE panic
    /\ powered' = powered \ {q}
    /\ db1' = [db1 EXCEPT ![q] = "none"]
    /\ db2' = [c \in Cores |-> IF c \in CoresOf(q) THEN "none" ELSE db2[c]]
    /\ notified' = notified \ CoresOf(q)
    /\ rec' = [rec EXCEPT !.act[q] = 11, !.quad.ACTIVE = @ \ {q},
                          !.qswu.ENTRY = @ \ {q}]
    /\ ToQuads("quads", job.left \ {q})
    /\ UNCHANGED <<running, wns, type, wakeup, pcPending, blockpc, cmeBlock,
                   cmeSuspend, rclk, requestVars, pigVars, irqVars, ee,
                   handler, pgpe, budget>>

EntryTellsDone ==
    /\ ThreadRuns("entry", "quads") /\ job.left = {}
    /\ TellsEntry("DONE", "end")
    /\ UNCHANGED <<coreVars, cmeVars, requestVars, pigVars, irqVars, ee, rec,
                   handler, budget>>

EntryThreadEnds ==
    /\ ThreadRuns("entry", "end")
    /\ rec' = [rec EXCEPT !.status = @ \ {"STOP_PROCESSING"},
                          !.entry_pending = FALSE]
    /\ To("closing")
    /\ UNCHANGED <<coreVars, cmeVars, requestVars, pigVars, irqVars, ee,
                   handler, pgpe, panic, budget>>

(* A suspension that came meanwhile, or the mask is restored; the thread   *)
(* goes back to sleep with EE off.                                         *)
ThreadCloses(thread) ==
    /\ ThreadRuns(thread, "closing")
    /\ IF "SUSPEND_PENDING" \in rec.status
       THEN /\ SuspendAllCmes /\ To("suspending")
            /\ UNCHANGED <<override, stack, prty, panic, ee>>
       ELSE /\ override' = override \ StopTypes /\ VecRestore
            /\ job' = NoJob /\ ee' = [ee EXCEPT ![thread] = FALSE]
            /\ UNCHANGED db1
    /\ UNCHANGED <<coreVars, cmeBlock, cmeSuspend, db2, powered, rclk,
                   requestVars, pigVars, rec, handler, pgpe, budget>>

-----------------------------------------------------------------------------
Cme(q) ==
    \/ \E c \in CoresOf(q) : \/ PcwuRead(q, c) \/ PcwuSend(c)
                             \/ CmeExit(q, c) \/ CmeDb2(q, c)
    \/ CmeDb1(q)
Threads ==
    \/ \E thread \in {"exit", "entry"} :
           \/ ThreadStarts(thread) \/ ThreadSuspends(thread)
           \/ ThreadCloses(thread)
    \/ ExitSelects \/ ExitExpress \/ ExitTellsDone \/ ExitThreadEnds
    \/ EntrySelects \/ EntryNotifies \/ EntryTellsDone \/ EntryThreadEnds
    \/ \E q \in Quads : ExitQuad(q) \/ Purge(q) \/ EntryQuad(q)
Handlers ==
    \/ \E i \in Irqs : TakeInterrupt(i)
    \/ \E t \in CoreTypes : HandlePackets(t)
    \/ HandOff \/ \E c \in Cores : DoorbellFirst(c)
    \/ SpecialPackets \/ BlockRequest \/ SuspendRequest \/ HandlerSuspends
Sgpe == Handlers \/ Threads
Next ==
    \/ \E q \in Quads, c \in Cores, level \in Levels :
           c \in CoresOf(q) /\ CoreStops(q, c, level)
    \/ \E q \in Quads : \E c \in CoresOf(q) :
           WakeUp(q, c) \/ PcInterrupt(q, c)
    \/ \E q \in Quads : SpecialWakeup(q) \/ ReleaseSpecial(q) \/ Cme(q)
    \/ OccBlocks \/ OccUnblocks \/ PgpeSuspends
    \/ Fit \/ Sgpe

Spec == Init /\ [][Next]_vars

(* The SGPE and the CMEs work; special wakeups are released, and what the  *)
(* OCC has blocked is unblocked.                                           *)
FairSpec ==
    /\ Spec /\ WF_vars(Sgpe)
    /\ \A q \in Quads :
           /\ WF_vars(CmeDb1(q)) /\ WF_vars(ReleaseSpecial(q))
           /\ \A c \in CoresOf(q) :
                  /\ WF_vars(CmeDb2(q, c)) /\ WF_vars(CmeExit(q, c))
                  /\ WF_vars(PcwuRead(q, c)) /\ WF_vars(PcwuSend(c))
    /\ WF_vars(OccUnblocks)

-----------------------------------------------------------------------------
TypeOK ==
    /\ running \subseteq Cores /\ wns \subseteq Cores
    /\ type \in [Cores -> {"TYPE2", "TYPE3"}]
    /\ wakeup \union pcPending \union blockpc \union notified \subseteq Cores
    /\ cmeBlock \in [Quads -> SUBSET BlockWhat] /\ cmeSuspend \subseteq Quads
    /\ db1 \in [Quads -> {"none"} \union Acks]
    /\ db2 \in [Cores -> {"none", "DECREMENTER_WAKEUP",
                          "RESONANT_CLOCK_DISABLE", "RESONANT_CLOCK_ENABLE"}]
    /\ powered \subseteq Quads /\ rclk \subseteq Quads
    /\ special \in [Quads -> {"off", "asserted", "done", "released"}]
    /\ \A t \in CoreTypes : /\ pend[t] \subseteq Cores
                            /\ payload[t] \in [Cores -> Payloads]
    /\ pend.TYPE6 \subseteq Quads
    /\ payload.TYPE6 \in [Quads -> {"none", "exit", "entry"}]
    /\ control \in {"none", "block", "unblock", "asked"}
    /\ suspend \in {"no", "sent", "taken", "acked"}
    /\ rec.level \in [Cores -> {0, 5, 11}] /\ rec.act \in [Quads -> {0, 11}]
    /\ rec.core \in [CoreVectors -> SUBSET Cores]
    /\ rec.quad \in [QuadVectors -> SUBSET Quads]
    /\ rec.qswu \in [QswuVectors -> SUBSET Quads]
    /\ rec.creq \subseteq Cores /\ rec.cack \subseteq Cores
    /\ rec.status \subseteq Status /\ rec.entry_pending \in BOOLEAN
    /\ override \subseteq StopTypes /\ prty \in 1..DISABLED
    /\ \A i \in 1..Len(stack) : stack[i] \in 1..DISABLED
    /\ handler.irq \in Irqs \union {"none"}
    /\ job.thread \in {"none", "exit", "entry"} /\ job.left \subseteq Quads
    /\ ee \in [{"exit", "entry"} -> BOOLEAN]
    /\ pgpe.cores \subseteq Cores /\ pgpe.quads \subseteq Quads
    /\ panic \in {"none", "PHANTOM", "BAD_CORE_LIST", "BAD_QUAD_LIST",
                  "STACK_OVERFLOW", "STACK_UNDERFLOW", "RESCLK_ON"}

Idle == handler = NoHandler /\ job = NoJob

(* The SGPE never halts: the lists of the PGPE and its own agree at every  *)
(* answer, no packet comes for a core that is not its, and each interrupt  *)
(* mask that was pushed is restored once, by the handler or by the thread  *)
(* it posted (p9_sgpe_irq.c, p9_sgpe_ipc_handlers.c, the parser).          *)
NoPanic == panic = "none"

(* While nothing runs, the mask is the one the SGPE started with, but for  *)
(* type 2 while others starve; so no interrupt stays masked, whichever     *)
(* thread restored it (p9_sgpe_stop_threads.c:47 and 92).                  *)
MasksRestored == Idle /\ suspend = "no" =>
                     /\ stack = <<>> /\ prty = DISABLED
                     /\ override \subseteq {"TYPE2"}

(* A core is handed over to a CME that has power and a clock               *)
(* (p9_sgpe_stop_exit_end).                                                *)
ReadyWhenHandedOff == \A q \in Quads :
    CoresOf(q) \subseteq wns \/ (q \in powered /\ q \in rclk)

(* Between the jobs of the threads, the quads the SGPE holds for active    *)
(* are those with power.                                                   *)
ActiveQuadsAgree == Idle => rec.quad.ACTIVE = powered

(* A core that runs is in the list from which the PGPE computes voltages   *)
(* (the message before the handoff, p9_sgpe_stop_irq_handlers.c:650).      *)
PgpeKnowsActive == running \subseteq pgpe.cores

(* So the partners of the SGPE and its own lists agree about who is up.    *)
PartnersAgree == ReadyWhenHandedOff /\ ActiveQuadsAgree /\ PgpeKnowsActive

(* After the answer to a suspension no core changes hands, none wakes or    *)
(* stops, and no quad gets power, whatever was pending or half done when   *)
(* it came (p9_sgpe_stop_suspend_all_cmes, status_stop in the parser).     *)
SuspendedStays == [][suspend = "acked" =>
    UNCHANGED <<running, wns>> /\ powered' \subseteq powered]_vars

(* Nor does a thread work.                                                 *)
SuspendedQuiet == suspend = "acked" => job.at \in {"idle", "closing"}

(* A core with a regular wakeup wakes up, unless STOP is suspended,        *)
(* whichever handler, thread or block holds its request meanwhile          *)
(* (VECTOR_BLOCKX, VECTOR_RCLKX, the masks of type 0, 3 and 6).            *)
EveryWakeupServed == \A c \in Cores :
    c \in wakeup ~> c \notin wakeup \/ suspend # "no"

(* A core that the PC unit wakes wakes up too (p9_cme_stop_pcwu_handler,   *)
(* and the doorbell of p9_sgpe_stop_exit_handoff_cme).                     *)
EveryPcWakeupServed == \A c \in Cores :
    c \in pcPending ~> c \notin pcPending \/ suspend # "no"

(* A suspension is answered: the loop for the acknowledgements ends.       *)
SuspendAnswered == suspend = "sent" ~> suspend = "acked"
=============================================================================
