------------------------------ MODULE CmePstate ------------------------------
(***************************************************************************)
(* The two CMEs of a quad and the doorbells of the PGPE                    *)
(* (ppe_closed/cme/pstate_cme, the interrupt handling of ppe/iota, and     *)
(* p9_pgpe_send_db0, send_db3, wait_cme_db_ack, handle_nacks of            *)
(* ppe_closed/pgpe/pstate_gpe/p9_pgpe_pstate.c).                           *)
(*                                                                         *)
(* The quad manager "qm" takes doorbell 0; both CMEs take doorbell 3.      *)
(* Only the quad manager moves the clock of the quad, and only it answers  *)
(* the PGPE: it first stops its sibling "sib" with an inter-CME message or *)
(* an inter-CME interrupt, and lets it go with another.  Each of them      *)
(* waits for the other in loops with its interrupts off.                   *)
(*                                                                         *)
(* todo[p] is what p has still to do before it is idle, as a sequence of   *)
(* steps: a handler puts its steps there, and an action executes the head. *)
(* A step is what p does between two accesses to what another one changes. *)
(* The handlers of doorbells, inter-CME signals and heartbeat loss run     *)
(* with EE off; a STOP handler runs with EE on (busy), and only doorbell 3 *)
(* and the loss of the heartbeat interrupt it.  Both CMEs are functional.  *)
(***************************************************************************)
EXTENDS Integers, Sequences

CONSTANTS
    Pstates,        \* the Pstates the PGPE chooses for the quad,
    Pmins, Pmaxs,   \*   and the clips it chooses
    Operations,     \* what the PGPE does on its own: a subset of AllOperations
    WhileBooting,   \* those it does while this quad boots
    MaxDroops,      \* bound: how often a change of frequency finds a droop
    DroopsWhile,    \* when: a subset of {"registering", "running",
                    \*   "entering_safe"}
    HeartbeatLoss,  \* when the PGPE may die: a subset of {"active",
                    \*   "stopped", "waiting" (for the answer of this quad)}
    LateRetry,      \* the quad manager repeats its boot signal also when
                    \*   the sibling has just seen it
    WritesApart,    \* a CME may act between the PGPE's writes of doorbell 0
                    \*   to the one CME and to the other
    SignalsOverlap  \* a CME may repeat a signal between the two stores with
                    \*   which the other one answers and clears the first

AllOperations == {"start", "freq", "high", "clip", "stop", "safe", "handoff"}

ASSUME CmeAssumption ==
    /\ Operations \subseteq AllOperations
    /\ WhileBooting \subseteq {"freq", "stop"}
    /\ MaxDroops \in Nat
    /\ DroopsWhile \subseteq {"registering", "running", "entering_safe"}
    /\ HeartbeatLoss \subseteq {"active", "stopped", "waiting"}
    /\ LateRetry \in BOOLEAN /\ WritesApart \in BOOLEAN
    /\ SignalsOverlap \in BOOLEAN

Targets == [quadPstate : Pstates, pmin : Pmins, pmax : Pmaxs]
Cmes == {"qm", "sib"}
Other(c) == IF c = "qm" THEN "sib" ELSE "qm"
Signals == {"IN0", "IN1", "IN2"}

DB0_FIT_TICK_THRESHOLD == 1   \* that of the three counters

VARIABLES
    todo,       \* of "pgpe", "qm", "sib"
    busy,       \* the CMEs in a STOP handler
    eisr,       \* EISR of each CME: DB0, DB3, HB, the signals, and of the
                \*   messages RECVD (29) and ACK (30)
    masked,     \* g_eimr_override: HB (bit 4), PMCR (34, 35)
    ticks,      \* the starvation counters of DB0, RECVD and IN0
    db0, db3,   \* the doorbell registers of each CME
    icrr,       \* the message last sent to the sibling
    record,     \* G_cme_pstate_record: quadPstate, pmin, pmax
    pmsr,       \* what the cores of each CME read in PMSR
    flags,      \* CME_FLAGS, registerInProgress and disableSGPEHandoff
    vdmDroop,   \* the CMEs whose core_vdm_droop is set
    skipLock,   \* the CMEs whose skipSiblingLock is set
    analogError,\* updateAnalogError of the quad manager
    frequency,  \* the Pstate whose frequency the DPLL was given
    type4,      \* the answer of the quad manager in OPIT4
    mode,       \* pstatesStatus of the PGPE
    registered, \* this quad is in activeQuads
    wanted,     \* what the PGPE last told this quad, or will when it registers
    alive,      \* the PGPE
    droops,     \* how many droops are still to come
    panic       \* who has called PK_PANIC

irqVars == <<busy, eisr, masked, ticks>>
doorbellVars == <<db0, db3, icrr, type4>>
cmeVars == <<record, pmsr, flags, vdmDroop, skipLock, analogError, frequency>>
pgpeVars == <<mode, registered, wanted, alive>>
sysVars == <<pgpeVars, droops, panic>>
vars == <<todo, irqVars, doorbellVars, cmeVars, sysVars>>

-----------------------------------------------------------------------------
(* What the steps are made of: a step is <<kind, argument>>.               *)

Idle(p) == todo[p] = <<>>
At(p, kind) == todo[p] # <<>> /\ todo[p][1][1] = kind
Argument(p) == todo[p][1][2]
Running(c, kind) == At(c, kind) /\ c \notin panic

(* p is done with its step, and does `more` next.                          *)
Then(p, more) == todo' = [todo EXCEPT ![p] = more \o Tail(@)]
Continue(p) == Then(p, <<>>)
Panics(p) == panic' = panic \union {p} /\ UNCHANGED todo

Step(kind) == <<<<kind, "">>>>
Raising(c, bit, e) == [e EXCEPT ![c] = @ \union {bit}]
Clearing(c, bits, e) == [e EXCEPT ![c] = @ \ bits]

(* intercme_direct with NOTIFY: the other CME answers with the same signal *)
Notify(in) == <<<<"Raise", in>>, <<"AwaitAnswer", in>>>>
(* A loop that waits for the signal, then intercme_direct with ACK.        *)
Serve(in) == <<<<"AwaitSignal", in>>, <<"Answer", in>>>>
MsgSend(type) == <<<<"Send", type>>, <<"AwaitMsgAck", type>>>>
MsgRecv(type) == <<<<"Receive", type>>>>
SendAck(kind) == <<<<"SendAck", kind>>>>
LockAndIntercme == Step("Spin") \o Step("CheckIn0")
SiblingLock == MsgRecv("LOCK") \o LockAndIntercme

(* Messages of the PGPE in doorbell 0.                                     *)
Message(msg, field, value) == [msg |-> msg, field |-> field, value |-> value]
NoMessage == Message("NONE", "none", 0)

(* What p9_cme_pstate_pmsr_updt writes.                                    *)
PmsrOf(r, f) == [quadPstate |-> r.quadPstate, pmin |-> r.pmin,
                 pmax |-> r.pmax, suspended |-> "SUSPENDED" \in f]
PmsrUpdt(c) == pmsr' = [pmsr EXCEPT ![c] = PmsrOf(record'[c], flags'[c])]

-----------------------------------------------------------------------------
(* Initially this quad is about to be booted by the SGPE, with the         *)
(* registration interlock if Pstates are active.  Its clock runs at some   *)
(* frequency, Pstate 0 here.                                               *)

BootQuadManager ==
    <<<<"Raise", "IN1">>, <<"AwaitAnswerOrRetry", "IN1">>>> \o MsgSend("INIT")
    \o Step("Register") \o MsgSend("SYNC") \o Step("Ready")
BootSibling ==
    Step("PowerOn") \o Serve("IN1") \o MsgRecv("INIT") \o Step("Register")
    \o MsgRecv("SYNC") \o Step("Ready")

Init ==
    /\ mode \in {"stopped", "active"}
    /\ todo = [pgpe |-> <<>>, qm |-> BootQuadManager, sib |-> BootSibling]
    /\ busy = {} /\ panic = {}
    /\ eisr = [c \in Cmes |-> {}]
    /\ masked = [c \in Cmes |-> {"HB", "PMCR"}]
    /\ ticks = [i \in {"DB0", "RECVD", "IN0"} |-> 0]
    /\ db0 = [c \in Cmes |-> NoMessage]
    /\ db3 = [c \in Cmes |-> "NONE"]
    /\ icrr = <<"NONE", 0>> /\ type4 = "none"
    /\ record = [c \in Cmes |-> [quadPstate |-> IF c = "qm" THEN 0 ELSE -1,
                                 pmin |-> 0, pmax |-> 0]]
    /\ flags = [c \in Cmes |-> IF mode = "active" THEN {"INTERLOCK"} ELSE {}]
    /\ pmsr = [c \in Cmes |-> PmsrOf(record[c], flags[c])]
    /\ vdmDroop = {} /\ skipLock = {} /\ analogError = FALSE
    /\ frequency = 0 /\ droops = MaxDroops
    /\ registered = FALSE /\ alive = TRUE
    /\ wanted \in Targets

-----------------------------------------------------------------------------
(* Inter-CME signals and messages.                                         *)

AboutTo(c, kind) == At(c, "ClearBit") /\ todo[c][2][1] = kind
MayRaise(c, bit) ==
    SignalsOverlap \/ ~(At(Other(c), "ClearBit") /\ Argument(Other(c)) = bit)

RaiseSignal(c) ==
    /\ Running(c, "Raise")
    /\ MayRaise(c, Argument(c))
    /\ eisr' = Raising(Other(c), Argument(c), eisr)
    /\ Continue(c)
    /\ UNCHANGED <<busy, masked, ticks, doorbellVars, cmeVars, sysVars>>

AwaitAnswer(c) ==
    /\ Running(c, "AwaitAnswer") \/ Running(c, "AwaitAnswerOrRetry")
    /\ Argument(c) \in eisr[c]
    /\ eisr' = Clearing(c, {Argument(c)}, eisr)
    /\ Continue(c)
    /\ UNCHANGED <<busy, masked, ticks, doorbellVars, cmeVars, sysVars>>

(* Every 512 polls the boot signal is raised again: the sibling that was   *)
(* not yet powered on has not seen it.                                     *)
Retry ==
    /\ Running("qm", "AwaitAnswerOrRetry")
    /\ MayRaise("qm", "IN1")
    /\ \/ /\ At("sib", "AwaitSignal")
          /\ "IN1" \notin eisr["qm"] \union eisr["sib"]
       \/ LateRetry
    /\ eisr' = Raising("sib", "IN1", eisr)
    /\ UNCHANGED <<todo, busy, masked, ticks, doorbellVars, cmeVars, sysVars>>

AwaitSignal(c) ==
    /\ Running(c, "AwaitSignal")
    /\ Argument(c) \in eisr[c]
    /\ Continue(c)
    /\ UNCHANGED <<irqVars, doorbellVars, cmeVars, sysVars>>

Answer(c) ==
    /\ Running(c, "Answer")
    /\ eisr' = Raising(Other(c), Argument(c), eisr)
    /\ Then(c, <<<<"ClearBit", Argument(c)>>>>)
    /\ UNCHANGED <<busy, masked, ticks, doorbellVars, cmeVars, sysVars>>

ClearBit(c) ==
    /\ Running(c, "ClearBit")
    /\ eisr' = Clearing(c, {Argument(c)}, eisr)
    /\ Continue(c)
    /\ UNCHANGED <<busy, masked, ticks, doorbellVars, cmeVars, sysVars>>

Send ==
    /\ Running("qm", "Send")
    /\ MayRaise("qm", "RECVD")
    /\ icrr' = <<Argument("qm"), record["qm"].quadPstate>>
    /\ eisr' = Raising("sib", "RECVD", eisr)
    /\ Continue("qm")
    /\ UNCHANGED <<busy, masked, ticks, db0, db3, type4, cmeVars, sysVars>>

AwaitMsgAck ==
    /\ Running("qm", "AwaitMsgAck")
    /\ "ACK" \in eisr["qm"]
    /\ eisr' = Clearing("qm", {"ACK"}, eisr)
    /\ Continue("qm")
    /\ UNCHANGED <<busy, masked, ticks, doorbellVars, cmeVars, sysVars>>

(* The bits of the types: the receiver checks `msg & type`.                *)
TypeBits == [NONE |-> {}, INIT |-> {0}, LOCK |-> {1}, SYNC |-> {0, 1}]

Receive ==
    /\ Running("sib", "Receive")
    /\ "RECVD" \in eisr["sib"]
    /\ IF TypeBits[icrr[1]] \intersect TypeBits[Argument("sib")] = {}
       THEN Panics("sib") /\ UNCHANGED <<eisr, record>>
       ELSE /\ eisr' = Raising("qm", "ACK", eisr)
            /\ Then("sib", <<<<"ClearBit", "RECVD">>>>)
            /\ record' = IF Argument("sib") = "INIT"
                         THEN [record EXCEPT !["sib"].quadPstate = icrr[2]]
                         ELSE record
            /\ UNCHANGED panic
    /\ UNCHANGED <<busy, masked, ticks, doorbellVars, pmsr, flags, vdmDroop,
                   skipLock, analogError, frequency, pgpeVars, droops>>

-----------------------------------------------------------------------------
(* Steps of both CMEs.                                                     *)

StoreField(c) ==    \* pmin or pmax
    /\ Running(c, "Store")
    /\ record' = [record EXCEPT ![c][Argument(c).field] = Argument(c).value]
    /\ Continue(c)
    /\ UNCHANGED <<irqVars, doorbellVars, pmsr, flags, vdmDroop, skipLock,
                   analogError, frequency, sysVars>>

UpdatePmsr(c) ==
    /\ Running(c, "Pmsr")
    /\ UNCHANGED <<record, flags>>
    /\ PmsrUpdt(c)
    /\ Continue(c)
    /\ UNCHANGED <<irqVars, doorbellVars, vdmDroop, skipLock, analogError,
                   frequency, sysVars>>

(* MSGID_DB0_PMSR_UPDT: the quad manager, and the sibling in SiblingDb0.   *)
SuspendedFlagStays(command, f) ==     \* mutant
    IF command = "set" THEN f \union {"SUSPENDED"} ELSE f
SuspendedFlag(command, f) ==
    CASE command = "set" -> f \union {"SUSPENDED"}
      [] command = "clear" -> f \ {"SUSPENDED"}

SuspendPstates(c) ==    \* and update PMSR
    /\ Running(c, "Suspended")
    /\ flags' = [flags EXCEPT ![c] = SuspendedFlag(Argument(c), @)]
    /\ UNCHANGED record
    /\ PmsrUpdt(c)
    /\ Continue(c)
    /\ UNCHANGED <<irqVars, doorbellVars, vdmDroop, skipLock, analogError,
                   frequency, sysVars>>

Ready(c) ==
    /\ Running(c, "Ready")
    /\ flags' = [flags EXCEPT ![c] = @ \union {"READY"}]
    /\ Continue(c)
    /\ UNCHANGED <<irqVars, doorbellVars, record, pmsr, vdmDroop, skipLock,
                   analogError, frequency, sysVars>>

-----------------------------------------------------------------------------
(* The sibling.                                                            *)

PowerOn ==
    /\ Running("sib", "PowerOn")
    /\ eisr' = [eisr EXCEPT !["sib"] = {}]
    /\ Continue("sib")
    /\ UNCHANGED <<busy, masked, ticks, doorbellVars, cmeVars, sysVars>>

(* Locked: it does nothing until the quad manager lets it go.              *)
Spin ==
    /\ Running("sib", "Spin")
    /\ eisr["sib"] \intersect {"IN0", "IN1"} # {}
    /\ Then("sib", IF "IN1" \in eisr["sib"]
                   THEN <<<<"Suspended", "set">>, <<"Answer", "IN1">>>>
                   ELSE <<>>)
    /\ UNCHANGED <<irqVars, doorbellVars, cmeVars, sysVars>>

ProcessDb0Sibling == Step("SiblingDb0") \o <<<<"Answer", "IN0">>>>

CheckIn0 ==
    /\ Running("sib", "CheckIn0")
    /\ Then("sib", IF "IN0" \in eisr["sib"] THEN ProcessDb0Sibling ELSE <<>>)
    /\ UNCHANGED <<irqVars, doorbellVars, cmeVars, sysVars>>

SiblingDb0 ==
    LET d == db0["sib"] IN
    /\ Running("sib", "SiblingDb0")
    /\ eisr' = Clearing("sib", {"DB0"}, eisr)
    /\ \/ /\ d.msg = "START"
          /\ record' = [record EXCEPT !["sib"].quadPstate = d.value]
          /\ masked' = [masked EXCEPT !["sib"] = @ \ {"HB", "PMCR"}]
          /\ flags' = [flags EXCEPT !["sib"] = @ \union {"STARVE"}]
       \/ /\ d.msg \in {"GLB", "PAYLOAD"}
          /\ record' = [record EXCEPT !["sib"].quadPstate = d.value]
          /\ UNCHANGED <<masked, flags>>
       \/ /\ d.msg = "CLIP"
          /\ record' = [record EXCEPT !["sib"][d.field] = d.value]
          /\ UNCHANGED <<masked, flags>>
       \/ /\ d.msg = "STOP"
          /\ masked' = [masked EXCEPT !["sib"] = @ \union {"HB", "PMCR"}]
          /\ UNCHANGED <<record, flags>>
       \/ /\ d.msg = "PMSR"
          /\ flags' = [flags EXCEPT !["sib"] = SuspendedFlag(d.field, @)]
          /\ UNCHANGED <<record, masked>>
       \/ /\ d.msg \in {"NONE", "REGISTER_DONE"}
          /\ UNCHANGED <<record, masked, flags>>
    /\ PmsrUpdt("sib")
    /\ IF d.msg \in {"NONE", "REGISTER_DONE"}
       THEN Panics("sib") ELSE Continue("sib") /\ UNCHANGED panic
    /\ UNCHANGED <<busy, ticks, doorbellVars, vdmDroop, skipLock, analogError,
                   frequency, pgpeVars, droops>>
-----------------------------------------------------------------------------
(* The quad manager.                                                       *)

(* p9_cme_pstate_process_db0, from its beginning.                          *)
ProcessDb0 == Step("ClearDb0") \o Step("ReadDb0")

ClearDb0KeepsTicks ==       \* mutant: the counter is not reset
    /\ Running("qm", "ClearDb0")
    /\ analogError' = FALSE
    /\ eisr' = Clearing("qm", {"DB0"}, eisr)
    /\ Continue("qm")
    /\ UNCHANGED <<busy, masked, ticks, doorbellVars, record, pmsr, flags,
                   vdmDroop, skipLock, frequency, sysVars>>

ClearDb0 ==
    /\ Running("qm", "ClearDb0")
    /\ analogError' = FALSE
    /\ ticks' = [ticks EXCEPT !["DB0"] = 0]
    /\ eisr' = Clearing("qm", {"DB0"}, eisr)
    /\ Continue("qm")
    /\ UNCHANGED <<busy, masked, doorbellVars, record, pmsr, flags, vdmDroop,
                   skipLock, frequency, sysVars>>

UpdateUnlocked(d) ==        \* mutant: the sibling is not locked
    (IF d.value # record["qm"].quadPstate \/ "REGISTERING" \in flags["qm"]
     THEN <<<<"UpdateAnalog", d.value>>>> ELSE <<>>)
    \o <<<<"Pmsr", "">>, <<"NotifySibling", "">>>>

(* p9_cme_pstate_update: the sibling is locked for a change of frequency,  *)
(* unless doorbell 3 has stopped it already.                               *)
Update(d) ==
    (IF d.value # record["qm"].quadPstate \/ "REGISTERING" \in flags["qm"]
     THEN (IF "qm" \in skipLock THEN <<>> ELSE MsgSend("LOCK"))
          \o <<<<"UpdateAnalog", d.value>>>>
     ELSE <<>>)
    \o <<<<"Pmsr", "">>, <<"NotifySibling", "">>>>

Db0Start(d) == Update(d) \o Step("Db0Started")
Db0GlbBcast(d) == Update(d) \o Step("AckUpdate")
Db0ClipBcast(d) ==
    <<<<"Store", d>>>> \o MsgSend("LOCK") \o Step("Pmsr") \o Notify("IN0")
    \o SendAck("ok")
Db0StopAcksOk ==            \* mutant: the wrong acknowledgement
    Step("Db0Stop") \o Step("Pmsr") \o Notify("IN0") \o SendAck("ok")
Db0Stop == Step("Db0Stop") \o Step("Pmsr") \o Notify("IN0") \o SendAck("suspended")
Db0PmsrUpdt(d) == <<<<"Suspended", d.field>>>> \o Notify("IN0") \o SendAck("ok")

ReadDb0 ==
    LET d == db0["qm"]
        enabled == "ENABLED" \in flags["qm"]
        handler ==
            CASE "SAFE" \in flags["qm"] -> <<>>
              [] "SAFE" \notin flags["qm"] ->
            CASE d.msg = "START" /\ ~enabled -> Db0Start(d)
              [] d.msg \in {"GLB", "PAYLOAD"} ->
                     IF enabled THEN Db0GlbBcast(d) ELSE <<>>
              [] d.msg = "STOP" /\ enabled -> Db0Stop
              [] d.msg = "CLIP" -> IF enabled THEN Db0ClipBcast(d) ELSE <<>>
              [] d.msg = "PMSR" -> Db0PmsrUpdt(d)
              [] d.msg = "REGISTER_DONE" -> SendAck("ok")
              [] OTHER -> SendAck("error")
    IN /\ Running("qm", "ReadDb0")
       /\ Then("qm", handler)
       /\ UNCHANGED <<irqVars, doorbellVars, cmeVars, sysVars>>

(* p9_cme_pstate_update_analog: the DPLL and what depends on it.  In a     *)
(* droop the DPLL does not follow, or the VDM is not set, before or after  *)
(* the DPLL is written.                                                    *)
UpdateAnalog ==
    LET v == Argument("qm") IN
    /\ Running("qm", "UpdateAnalog")
    /\ \/ /\ frequency' = v
          /\ record' = [record EXCEPT !["qm"].quadPstate = v]
          /\ UNCHANGED <<analogError, flags, droops>>
       \/ /\ droops > 0
          /\ (IF "REGISTERING" \in flags["qm"] THEN "registering"
              ELSE IF db3["qm"] = "ENTER_SAFE" THEN "entering_safe"
              ELSE "running") \in DroopsWhile
          /\ droops' = droops - 1
          /\ analogError' = TRUE
          /\ flags' = [flags EXCEPT !["qm"] = @ \union {"SUSPENDED"}]
          /\ frequency' \in {frequency, v}
          /\ UNCHANGED record
    /\ Continue("qm")
    /\ UNCHANGED <<irqVars, doorbellVars, pmsr, vdmDroop, skipLock, pgpeVars,
                   panic>>

NotifySibling ==
    /\ Running("qm", "NotifySibling")
    /\ Then("qm", Notify(IF analogError THEN "IN1" ELSE "IN0"))
    /\ UNCHANGED <<irqVars, doorbellVars, cmeVars, sysVars>>

UpdateAck == IF analogError THEN "nack" ELSE "ok"

(* p9_cme_pstate_db0_start, after the update.                              *)
Db0Started ==
    /\ Running("qm", "Db0Started")
    /\ eisr' = Clearing("qm", {"DB0"}, eisr)
    /\ masked' = [masked EXCEPT !["qm"] =
                      @ \ (IF analogError THEN {"HB"} ELSE {"HB", "PMCR"})]
    /\ flags' = [flags EXCEPT !["qm"] =
                     @ \union IF analogError THEN {} ELSE {"ENABLED", "STARVE"}]
    /\ type4' = UpdateAck
    /\ analogError' = FALSE
    /\ Continue("qm")
    /\ UNCHANGED <<busy, ticks, db0, db3, icrr, record, pmsr, vdmDroop,
                   skipLock, frequency, sysVars>>

AckUpdate ==
    /\ Running("qm", "AckUpdate")
    /\ type4' = UpdateAck
    /\ Continue("qm")
    /\ UNCHANGED <<irqVars, db0, db3, icrr, cmeVars, sysVars>>

Db0StopFlags ==
    /\ Running("qm", "Db0Stop")
    /\ flags' = [flags EXCEPT !["qm"] = @ \ {"ENABLED"}]
    /\ masked' = [masked EXCEPT !["qm"] = @ \union {"HB", "PMCR"}]
    /\ Continue("qm")
    /\ UNCHANGED <<busy, eisr, ticks, doorbellVars, record, pmsr, vdmDroop,
                   skipLock, analogError, frequency, sysVars>>

SendAckToPgpe ==
    /\ Running("qm", "SendAck")
    /\ type4' = Argument("qm")
    /\ Continue("qm")
    /\ UNCHANGED <<irqVars, db0, db3, icrr, cmeVars, sysVars>>

(* p9_cme_pstate_register: n messages of the PGPE are still to come.       *)
Registration(n) ==
    IF n = 0 THEN Step("Registered") ELSE <<<<"AwaitDb0", n>>, <<"RegisterDb0", n>>>>

Register(c) ==
    LET interlock == "INTERLOCK" \in flags[c] IN
    /\ Running(c, "Register")
    /\ IF c = "qm"
       THEN /\ eisr' = Clearing("qm", {"DB0"}, eisr)
            /\ type4' = "available"
            /\ flags' = [flags EXCEPT !["qm"] = @ \union {"REGISTERING"}]
            /\ Then("qm", Registration(IF interlock THEN 3 ELSE 0))
       ELSE /\ Then("sib", IF interlock
                           THEN SiblingLock \o SiblingLock \o SiblingLock
                           ELSE <<>>)
            /\ UNCHANGED <<eisr, type4, flags>>
    /\ UNCHANGED <<busy, masked, ticks, db0, db3, icrr, record, pmsr, vdmDroop,
                   skipLock, analogError, frequency, sysVars>>

AwaitDb0 ==
    /\ Running("qm", "AwaitDb0")
    /\ "DB0" \in eisr["qm"]
    /\ eisr' = Clearing("qm", {"DB0"}, eisr)
    /\ Continue("qm")
    /\ UNCHANGED <<busy, masked, ticks, doorbellVars, cmeVars, sysVars>>

RegisterDb0 ==
    LET n == Argument("qm")
        d == db0["qm"]
    IN
    /\ Running("qm", "RegisterDb0")
    /\ Then("qm",
            CASE d.msg = "START" -> Db0Start(d) \o Registration(n - 1)
              [] d.msg = "CLIP" /\ "ENABLED" \in flags["qm"] ->
                     Db0ClipBcast(d) \o Registration(n - 1)
              [] d.msg = "REGISTER_DONE" -> SendAck("ok") \o Registration(0)
              [] OTHER -> Registration(n))
    /\ UNCHANGED <<irqVars, doorbellVars, cmeVars, sysVars>>

Registered ==
    /\ Running("qm", "Registered")
    /\ flags' = [flags EXCEPT !["qm"] = @ \ {"REGISTERING"}]
    /\ Continue("qm")
    /\ UNCHANGED <<irqVars, doorbellVars, record, pmsr, vdmDroop, skipLock,
                   analogError, frequency, sysVars>>

-----------------------------------------------------------------------------
(* Interrupts.                                                             *)

Starved(i) == ticks[i] > DB0_FIT_TICK_THRESHOLD

CountedNever(c) == {}       \* mutant: nothing is counted
Counted(c) == IF c = "qm" THEN {"DB0"} ELSE {"RECVD", "IN0"}

(* What of EISTR is not masked, in the order of priority.                  *)
Pending(c) ==
    (IF "DB3" \in eisr[c] THEN <<"DB3">> ELSE <<>>)
    \o (IF "HB" \in eisr[c] \ masked[c] THEN <<"HB">> ELSE <<>>)
    \o (IF c = "qm" /\ "DB0" \in eisr[c] /\ c \notin busy THEN <<"DB0">> ELSE <<>>)
    \o (IF c = "sib" /\ "IN0" \in eisr[c] /\ c \notin busy THEN <<"IN0">> ELSE <<>>)
    \o (IF c = "sib" /\ "RECVD" \in eisr[c] /\ c \notin busy THEN <<"RECVD">> ELSE <<>>)

(* iota_uih: what has starved goes first, whatever has interrupted.        *)
Taken(c) ==
    IF Pending(c) = <<>> THEN "none"
    ELSE IF c = "qm" /\ Starved("DB0") THEN "DB0"
    ELSE IF c = "sib" /\ Starved("RECVD") THEN "RECVD"
    ELSE IF c = "sib" /\ Starved("IN0") THEN "IN0"
    ELSE Head(Pending(c))

Takes(c, i) == Idle(c) /\ c \notin panic /\ Taken(c) = i

EndDb3(m) == <<<<"EndDb3", m>>>>

(* p9_cme_pstate_db3_handler.                                              *)
Db3Steps(c, m) ==
    CASE m \in {"HIGH", "REPLAY", "ENTER_SAFE"} ->
             IF c = "qm" THEN Notify("IN2") \o ProcessDb0 \o EndDb3(m)
                         ELSE Serve("IN2") \o LockAndIntercme \o EndDb3(m)
      [] m = "HANDOFF" ->
             IF c = "qm" THEN Notify("IN2") \o SendAck("ok") ELSE Serve("IN2")
      [] m = "SUSPEND" -> <<>>
      [] m = "UNSUSPEND" ->
             IF c = "qm" THEN Notify("IN2") \o SendAck("unsuspended")
                         ELSE Serve("IN2")
      [] m = "CLIP" ->
             LET store == <<<<"Store", db0[c]>>, <<"Pmsr", "">>>> IN
             IF c = "qm"
             THEN Notify("IN2") \o store \o Notify("IN2") \o SendAck("ok")
             ELSE Serve("IN2") \o store \o Serve("IN2")

(* p9_cme_stop_eval_eimr_override                                          *)
DroopFlag(c) ==
    flags' = [flags EXCEPT ![c] = IF c \in vdmDroop' THEN @ \union {"DROOP"}
                                                     ELSE @ \ {"DROOP"}]

TakeDb3(c) ==
    LET m == db3[c] IN
    /\ Takes(c, "DB3")
    /\ eisr' = Clearing(c, {"DB3"}, eisr)
    /\ todo' = [todo EXCEPT ![c] = Db3Steps(c, m)]
    /\ IF m \in {"HIGH", "REPLAY", "ENTER_SAFE"}
       THEN /\ skipLock' = skipLock \union {c}
            /\ analogError' = (analogError /\ c # "qm")
       ELSE UNCHANGED <<skipLock, analogError>>
    /\ IF m \in {"SUSPEND", "UNSUSPEND"}
       THEN /\ vdmDroop' = (vdmDroop \ {c}) \union (IF m = "SUSPEND" THEN {c} ELSE {})
            /\ IF c \in busy THEN UNCHANGED flags ELSE DroopFlag(c)
       ELSE /\ UNCHANGED vdmDroop
            /\ flags' = [flags EXCEPT ![c] = @ \union
                             IF m = "HANDOFF" THEN {"NO_HANDOFF"} ELSE {}]
    /\ UNCHANGED <<busy, masked, ticks, doorbellVars, record, pmsr, frequency,
                   sysVars>>

(* The sibling's updateAnalogError is never set.                           *)
FinishDb3(c) ==
    /\ Running(c, "EndDb3")
    /\ skipLock' = skipLock \ {c}
    /\ flags' = [flags EXCEPT ![c] = @ \union
                     IF Argument(c) = "ENTER_SAFE" /\ ~(c = "qm" /\ analogError)
                     THEN {"SAFE"} ELSE {}]
    /\ Continue(c)
    /\ UNCHANGED <<irqVars, doorbellVars, record, pmsr, vdmDroop, analogError,
                   frequency, sysVars>>

(* p9_cme_pstate_db0_handler                                               *)
TakeDb0 ==
    /\ Takes("qm", "DB0")
    /\ masked' = [masked EXCEPT !["qm"] = @ \union {"HB"}]
    /\ todo' = [todo EXCEPT !["qm"] = ProcessDb0 \o Step("EndDb0")]
    /\ UNCHANGED <<busy, eisr, ticks, doorbellVars, cmeVars, sysVars>>

FinishDb0 ==
    /\ Running("qm", "EndDb0")
    /\ masked' = [masked EXCEPT !["qm"] = @ \ {"HB"}]
    /\ Continue("qm")
    /\ UNCHANGED <<busy, eisr, ticks, doorbellVars, cmeVars, sysVars>>

TakeIn0 ==
    /\ Takes("sib", "IN0")
    /\ ticks' = [ticks EXCEPT !["IN0"] = 0]
    /\ todo' = [todo EXCEPT !["sib"] = ProcessDb0Sibling]
    /\ UNCHANGED <<busy, eisr, masked, doorbellVars, cmeVars, sysVars>>

TakeMsg ==
    /\ Takes("sib", "RECVD")
    /\ ticks' = [ticks EXCEPT !["RECVD"] = 0]
    /\ todo' = [todo EXCEPT !["sib"] = SiblingLock]
    /\ UNCHANGED <<busy, eisr, masked, doorbellVars, cmeVars, sysVars>>

TakeHeartbeatLossOnce(c) == \* mutant: the sibling is not let go
    /\ Takes(c, "HB")
    /\ eisr' = Clearing(c, {"HB"}, eisr)
    /\ todo' = [todo EXCEPT ![c] =
                   IF c = "qm" THEN Notify("IN2") \o Step("ToFsafe")
                   ELSE Serve("IN2") \o Step("ToFsafe") \o Serve("IN2")]
    /\ UNCHANGED <<busy, masked, ticks, doorbellVars, cmeVars, sysVars>>

(* p9_cme_pgpe_hb_loss_handler                                             *)
TakeHeartbeatLoss(c) ==
    /\ Takes(c, "HB")
    /\ eisr' = Clearing(c, {"HB"}, eisr)
    /\ todo' = [todo EXCEPT ![c] =
                   IF c = "qm"
                   THEN Notify("IN2") \o Step("ToFsafe") \o Notify("IN2")
                   ELSE Serve("IN2") \o Step("ToFsafe") \o Serve("IN2")]
    /\ UNCHANGED <<busy, masked, ticks, doorbellVars, cmeVars, sysVars>>

(* The quad manager also moves the DPLL to the safe frequency of QPPMR; it *)
(* leaves quadPstate as it is.                                             *)
Fsafe == 0

ToFsafe(c) ==
    /\ Running(c, "ToFsafe")
    /\ flags' = [flags EXCEPT ![c] = (@ \ {"ENABLED"}) \union {"SAFE", "HB_SAFE"}]
    /\ frequency' = IF c = "qm" THEN Fsafe ELSE frequency
    /\ Continue(c)
    /\ UNCHANGED <<irqVars, doorbellVars, record, pmsr, vdmDroop, skipLock,
                   analogError, sysVars>>

FitTickUncapped(c) ==       \* mutant
    /\ Idle(c) /\ c \notin panic
    /\ "STARVE" \in flags[c] /\ Counted(c) \intersect eisr[c] # {}
    /\ ticks' = [i \in DOMAIN ticks |->
                    IF i \in Counted(c) \intersect eisr[c] THEN ticks[i] + 1
                    ELSE ticks[i]]
    /\ UNCHANGED <<todo, busy, eisr, masked, doorbellVars, cmeVars, sysVars>>

(* The FIT interrupt, also inside a STOP handler.  Bound: a counter stays  *)
(* at the first value above its threshold.                                 *)
FitTick(c) ==
    LET waiting == {i \in Counted(c) \intersect eisr[c] : ~Starved(i)} IN
    /\ Idle(c) /\ c \notin panic
    /\ "STARVE" \in flags[c] /\ waiting # {}
    /\ ticks' = [i \in DOMAIN ticks |->
                    IF i \in waiting THEN ticks[i] + 1 ELSE ticks[i]]
    /\ UNCHANGED <<todo, busy, eisr, masked, doorbellVars, cmeVars, sysVars>>

(* A STOP entry or exit: it goes before doorbell 0 and the sibling's       *)
(* signals.                                                                *)
BeginStop(c) ==
    /\ Idle(c) /\ c \notin panic
    /\ c \notin busy /\ "READY" \in flags[c]
    /\ Taken(c) \notin {"DB3", "HB"}
    /\ \A i \in Counted(c) : ~Starved(i)
    /\ busy' = busy \union {c}
    /\ UNCHANGED <<todo, eisr, masked, ticks, doorbellVars, cmeVars, sysVars>>

EndStop(c) ==
    /\ Idle(c) /\ c \in busy /\ c \notin panic
    /\ busy' = busy \ {c}
    /\ UNCHANGED vdmDroop
    /\ DroopFlag(c)
    /\ UNCHANGED <<todo, eisr, masked, ticks, doorbellVars, record, pmsr,
                   skipLock, analogError, frequency, sysVars>>
-----------------------------------------------------------------------------
(* The PGPE.                                                               *)

(* p9_pgpe_send_db0: core by core, the quad manager's first, or at once.   *)
Write0(targets, d) == <<<<"Write0", <<targets, d>>>>>>
Unicast(d) == IF WritesApart THEN Write0({"qm"}, d) \o Write0({"sib"}, d)
              ELSE Write0(Cmes, d)
Multicast(d) == Write0(Cmes, d)

(* p9_pgpe_wait_cme_db_ack; `replay` is the doorbell 3 sent after a NACK,  *)
(* "none" if a NACK is not looked at.                                      *)
Await(expected, replay, nacked) ==
    <<<<"AwaitAck", [expected |-> expected, replay |-> replay, nacked |-> nacked]>>>>
Doorbell0(d) == Unicast(d) \o Await("ok", "REPLAY", FALSE)

(* p9_pgpe_send_db3, with and without a message in doorbell 0.             *)
Write3(m) == <<<<"Write3", <<"qm", m>>>>, <<"Write3", <<"sib", m>>>>>>
Doorbell3(m, d, replay) ==
    Write0({"qm"}, d) \o <<<<"Write3", <<"qm", m>>>>>>
    \o Write0({"sib"}, d) \o <<<<"Write3", <<"sib", m>>>>>>
    \o Await("ok", replay, FALSE)

(* p9_pgpe_droop_throttle, p9_pgpe_droop_unthrottle                        *)
Throttle == Write3("SUSPEND") \o Step("PollDroop")
Unthrottle == Write3("UNSUSPEND") \o Await("unsuspended", "none", FALSE)
              \o Doorbell0(Message("PMSR", "clear", 0))

Payload(field, v) == Message("PAYLOAD", field, v)
Clips(w) == Doorbell0(Message("CLIP", "pmin", w.pmin))
            \o Doorbell0(Message("CLIP", "pmax", w.pmax))
StartPstates(w) == Doorbell0(Message("START", "quadPstate", w.quadPstate)) \o Clips(w)
Becomes(m) == <<<<"Become", m>>>>

(* What the PGPE does to an active quad, in the mode it does it in.        *)
InMode == [start |-> "stopped", freq |-> "active", high |-> "active",
           clip |-> "active", stop |-> "active", safe |-> "active",
           handoff |-> "safe"]

Protocol(op, field, w) ==
    CASE op = "start" -> StartPstates(w) \o Becomes("active")
      [] op = "freq" -> Multicast(Message("GLB", "quadPstate", w.quadPstate))
                        \o Await("ok", "REPLAY", FALSE)
      [] op = "high" -> Doorbell3("HIGH", Payload("quadPstate", w.quadPstate), "REPLAY")
      [] op = "clip" -> Doorbell3("CLIP", Payload(field, w[field]), "none")
      [] op = "stop" -> Unicast(Message("STOP", "none", 0))
                        \o Await("suspended", "REPLAY", FALSE) \o Becomes("stopped")
      [] op = "safe" -> Doorbell3("ENTER_SAFE", Payload("quadPstate", w.quadPstate),
                                  "ENTER_SAFE") \o Becomes("safe")
      [] op = "handoff" -> Write3("HANDOFF") \o Await("ok", "REPLAY", FALSE)

(* The field of what is wanted that an operation changes.                  *)
Fields(op) == CASE op \in {"freq", "high", "safe"} -> {"quadPstate"}
                [] op = "clip" -> {"pmin", "pmax"}
                [] op = "start" -> {"quadPstate", "pmin", "pmax"}
                [] op \in {"stop", "handoff"} -> {"none"}

PgpeFree == alive /\ Idle("pgpe") /\ "pgpe" \notin panic

Operate(op) ==
    /\ PgpeFree /\ registered /\ type4 = "none"
    /\ mode = InMode[op]
    /\ \E field \in Fields(op), target \in Targets :
          /\ \A f \in DOMAIN target \ {field} : target[f] = wanted[f]
          /\ wanted' = target
          /\ todo' = [todo EXCEPT !["pgpe"] = Protocol(op, field, wanted')]
    /\ UNCHANGED <<irqVars, doorbellVars, cmeVars, mode, registered, alive,
                   droops, panic>>

(* The same while this quad is not active: a global broadcast goes to      *)
(* every core, the other doorbells do not.                                 *)
OperateElsewhere(op) ==
    /\ PgpeFree /\ ~registered /\ type4 = "none" /\ mode = "active"
    /\ op = "freq" => \A c \in Cmes : "DB0" \notin eisr[c]
    /\ mode' = IF op = "stop" THEN "stopped" ELSE mode
    /\ todo' = [todo EXCEPT !["pgpe"] =
                   IF op = "freq"
                   THEN Multicast(Message("GLB", "quadPstate", wanted.quadPstate))
                   ELSE <<>>]
    /\ UNCHANGED <<irqVars, doorbellVars, cmeVars, registered, wanted, alive,
                   droops, panic>>

(* p9_pgpe_process_registration                                            *)
ProcessRegistration ==
    /\ PgpeFree /\ type4 = "available"
    /\ IF registered
       THEN Panics("pgpe") /\ UNCHANGED <<type4, registered>>
       ELSE /\ type4' = "none"
            /\ registered' = TRUE
            /\ todo' = [todo EXCEPT !["pgpe"] =
                           IF mode = "active" THEN StartPstates(wanted)
                           ELSE Doorbell0(Message("REGISTER_DONE", "none", 0))]
            /\ UNCHANGED panic
    /\ UNCHANGED <<irqVars, db0, db3, icrr, cmeVars, mode, wanted, alive, droops>>

PgpeAt(kind) == alive /\ Running("pgpe", kind)

(* The top byte of a payload is zero: it raises no interrupt.              *)
WriteDb0 ==
    LET targets == Argument("pgpe")[1]
        d == Argument("pgpe")[2]
    IN /\ PgpeAt("Write0")
       /\ db0' = [c \in Cmes |-> IF c \in targets THEN d ELSE db0[c]]
       /\ eisr' = [c \in Cmes |-> eisr[c] \union
                      IF c \in targets /\ d.msg # "PAYLOAD" THEN {"DB0"} ELSE {}]
       /\ Continue("pgpe")
       /\ UNCHANGED <<busy, masked, ticks, db3, icrr, type4, cmeVars, sysVars>>

WriteDb3 ==
    LET c == Argument("pgpe")[1] IN
    /\ PgpeAt("Write3")
    /\ db3' = [db3 EXCEPT ![c] = Argument("pgpe")[2]]
    /\ eisr' = Raising(c, "DB3", eisr)
    /\ Continue("pgpe")
    /\ UNCHANGED <<busy, masked, ticks, db0, icrr, type4, cmeVars, sysVars>>

AwaitAck ==
    LET a == Argument("pgpe") IN
    /\ PgpeAt("AwaitAck")
    /\ type4 # "none"
    /\ type4' = "none"
    /\ \/ /\ type4 = a.expected
          /\ Then("pgpe", IF a.nacked THEN Unthrottle ELSE <<>>)
          /\ UNCHANGED panic
       \/ /\ type4 = "nack"
          /\ Then("pgpe",
                  IF a.replay = "none" THEN <<>>
                  ELSE (IF a.nacked THEN <<>> ELSE Throttle) \o Write3(a.replay)
                       \o Await(a.expected, a.replay, TRUE))
          /\ UNCHANGED panic
       \/ /\ type4 \notin {a.expected, "nack"}
          /\ Panics("pgpe")
    /\ UNCHANGED <<irqVars, db0, db3, icrr, cmeVars, pgpeVars, droops>>

PollDroop ==
    /\ PgpeAt("PollDroop")
    /\ \A c \in Cmes : "DROOP" \in flags[c]
    /\ Continue("pgpe")
    /\ UNCHANGED <<irqVars, doorbellVars, cmeVars, sysVars>>

Become ==
    /\ PgpeAt("Become")
    /\ mode' = Argument("pgpe")
    /\ Continue("pgpe")
    /\ UNCHANGED <<irqVars, doorbellVars, cmeVars, registered, wanted, alive,
                   droops, panic>>

(* The PGPE dies and its heartbeat with it.                                *)
PgpeDies(when) ==
    /\ alive /\ registered
    /\ CASE when = "active" -> Idle("pgpe") /\ mode # "stopped"
         [] when = "stopped" -> Idle("pgpe") /\ mode = "stopped"
         [] when = "waiting" -> At("pgpe", "AwaitAck")
    /\ alive' = FALSE
    /\ eisr' = [c \in Cmes |-> eisr[c] \union {"HB"}]
    /\ UNCHANGED <<todo, busy, masked, ticks, doorbellVars, cmeVars, mode,
                   registered, wanted, droops, panic>>

-----------------------------------------------------------------------------
Handle(c) ==
    \/ RaiseSignal(c) \/ AwaitAnswer(c) \/ AwaitSignal(c) \/ Answer(c)
    \/ ClearBit(c) \/ StoreField(c) \/ UpdatePmsr(c) \/ SuspendPstates(c)
    \/ Ready(c) \/ Register(c) \/ FinishDb3(c) \/ ToFsafe(c)
Manage ==
    \/ Send \/ AwaitMsgAck \/ ClearDb0 \/ ReadDb0 \/ UpdateAnalog
    \/ NotifySibling \/ Db0Started \/ AckUpdate \/ Db0StopFlags
    \/ SendAckToPgpe \/ AwaitDb0 \/ RegisterDb0 \/ Registered \/ FinishDb0
Follow == PowerOn \/ Receive \/ Spin \/ CheckIn0 \/ SiblingDb0
Interrupts ==
    \/ \E c \in Cmes : TakeDb3(c) \/ TakeHeartbeatLoss(c)
    \/ TakeDb0 \/ TakeIn0 \/ TakeMsg
Pgpe == ProcessRegistration \/ WriteDb0 \/ WriteDb3 \/ AwaitAck \/ PollDroop \/ Become

Next ==
    \/ \E c \in Cmes : Handle(c) \/ FitTick(c) \/ BeginStop(c) \/ EndStop(c)
    \/ Manage \/ Follow \/ Interrupts \/ Retry \/ Pgpe
    \/ \E op \in Operations : Operate(op)
    \/ \E op \in WhileBooting : OperateElsewhere(op)
    \/ \E when \in HeartbeatLoss : PgpeDies(when)

Spec == Init /\ [][Next]_vars

(* Each processor runs; a STOP handler ends; FIT ticks come.  STOP         *)
(* requests may come for ever.                                             *)
QuadManager == Manage \/ Handle("qm") \/ TakeDb3("qm") \/ TakeHeartbeatLoss("qm") \/ TakeDb0
Sibling == Follow \/ Handle("sib") \/ TakeDb3("sib") \/ TakeHeartbeatLoss("sib") \/ TakeIn0 \/ TakeMsg
FairSpec ==
    /\ Spec
    /\ WF_vars(QuadManager) /\ WF_vars(Sibling) /\ WF_vars(Pgpe) /\ WF_vars(Retry)
    /\ \A c \in Cmes : WF_vars(FitTick(c)) /\ WF_vars(EndStop(c))
-----------------------------------------------------------------------------
(* Properties.                                                             *)

Bits == {"DB0", "DB3", "HB", "RECVD", "ACK"} \union Signals
Flags == {"INTERLOCK", "REGISTERING", "ENABLED", "STARVE", "SUSPENDED", "SAFE",
          "HB_SAFE", "DROOP", "NO_HANDOFF", "READY"}
Values == Pstates \union Pmins \union Pmaxs \union {-1, 0}

(* The variables keep to their types.                                      *)
TypeOK ==
    /\ busy \subseteq Cmes /\ vdmDroop \subseteq Cmes /\ skipLock \subseteq Cmes
    /\ eisr \in [Cmes -> SUBSET Bits]
    /\ masked \in [Cmes -> SUBSET {"HB", "PMCR"}]
    /\ ticks \in [{"DB0", "RECVD", "IN0"} -> 0 .. DB0_FIT_TICK_THRESHOLD + 1]
    /\ record \in [Cmes -> [quadPstate : Values, pmin : Values, pmax : Values]]
    /\ pmsr \in [Cmes -> [quadPstate : Values, pmin : Values, pmax : Values,
                          suspended : BOOLEAN]]
    /\ flags \in [Cmes -> SUBSET Flags]
    /\ analogError \in BOOLEAN /\ frequency \in Values
    /\ icrr \in {"NONE", "INIT", "LOCK", "SYNC"} \X Values
    /\ type4 \in {"none", "available", "ok", "suspended", "unsuspended", "nack",
                  "error"}
    /\ mode \in {"stopped", "active", "safe"}
    /\ registered \in BOOLEAN /\ alive \in BOOLEAN
    /\ wanted \in Targets
    /\ droops \in 0 .. MaxDroops
    /\ panic \subseteq Cmes \union {"pgpe"}

(* While the quad manager moves the clock of the quad the sibling stands   *)
(* still in one of its loops ("a pumpkin", p9_cme_pstate_update), and what *)
(* ends that loop has not been sent yet.                                   *)
Locked ==
    /\ At("sib", "Spin") \/ AboutTo("sib", "Spin")
    /\ eisr["sib"] \intersect {"IN0", "IN1"} = {}

LockedDuringAnalog ==
    /\ At("qm", "UpdateAnalog") => Locked
    /\ At("qm", "ToFsafe") =>
           \/ At("sib", "ToFsafe") \/ AboutTo("sib", "ToFsafe")
           \/ At("sib", "AwaitSignal") /\ "IN2" \notin eisr["sib"]

(* When the PGPE has its answers, both CMEs of the quad hold, and their    *)
(* cores read, the Pstate and the clips it asked for, the clock runs at    *)
(* that Pstate, and nothing is left suspended.                             *)
QuadFollows ==
    alive /\ registered /\ Idle("pgpe") /\ mode # "stopped" =>
        /\ frequency = wanted.quadPstate
        /\ \A c \in Cmes :
              /\ record[c] = wanted
              /\ pmsr[c] = PmsrOf(wanted, flags[c]) /\ ~pmsr[c].suspended
              /\ c \notin vdmDroop

(* Nobody panics: no unexpected message, no answer of the wrong kind.      *)
NoPanic == panic = {}

(* The quad manager answers only when the PGPE waits for its answer; and   *)
(* when everybody is done there is no signal, message or answer left over  *)
(* that a later exchange would take for its own, and no starvation counter *)
(* that would send the CME into a handler with nothing to do.              *)
NothingLeftOver ==
    /\ type4 \notin {"none", "available"} /\ alive => At("pgpe", "AwaitAck")
    /\ alive /\ (\A p \in {"pgpe", "qm", "sib"} : Idle(p)) /\ panic = {} =>
           /\ \A c \in Cmes : eisr[c] \intersect (Signals \union {"ACK", "RECVD"}) = {}
           /\ "DB0" \notin eisr["qm"]
           /\ \A i \in DOMAIN ticks : ticks[i] = 0
           /\ type4 = "none" \/ ~registered

(* As Pstates are started and stopped the cores' requests for Pstates      *)
(* (PMCR) are seen by both CMEs or by neither, and while Pstates are       *)
(* started both see the loss of the heartbeat.                             *)
MasksFollowPstates ==
    alive /\ registered /\ Idle("pgpe") =>
        /\ \A c \in Cmes : ("PMCR" \in masked[c]) = (mode = "stopped")
        /\ mode # "stopped" =>
               "HB" \notin masked["sib"] /\ (Idle("qm") => "HB" \notin masked["qm"])

(* So after every answer of a quad its CMEs are where the PGPE believes     *)
(* them: Pstate, clips, clock, and the interrupts they listen to.          *)
FollowsPgpe == QuadFollows /\ MasksFollowPstates

(* "CME unmasks Heartbeat Loss interrupt upon receiving Pstate Start, and  *)
(* masks it upon receiving Pstate Stop" (p9_pgpe_pstate_stop).             *)
HeartbeatMaskedByStop ==
    alive /\ registered /\ mode = "stopped"
    /\ (\A p \in {"pgpe", "qm", "sib"} : Idle(p)) =>
        \A c \in Cmes : "HB" \in masked[c]

(* A quad that boots gets ready, for the SGPE waits for its CMEs, and      *)
(* every exchange of the PGPE with a quad that counts starvation ends,     *)
(* whatever STOP requests come.                                            *)
BootedAll == \A c \in Cmes : "READY" \in flags[c]
Answered ==
    BootedAll /\ (Idle("pgpe") \/ \E c \in Cmes : "STARVE" \notin flags[c])

DoorbellsAnswered == []<>(~alive \/ Answered)

(* When the heartbeat is lost both CMEs end in safe mode, with the clock   *)
(* at the safe frequency and free for STOP.                                *)
SafeWithoutPgpe ==
    ~alive ~> /\ \A c \in Cmes : "HB_SAFE" \in flags[c] /\ Idle(c)
              /\ frequency = Fsafe
=============================================================================
