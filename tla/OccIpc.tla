------------------------------- MODULE OccIpc -------------------------------
(***************************************************************************)
(* The interprocessor communication library of the OCC complex             *)
(* (common/pmlib/occlib): command messages and their responses travel as   *)
(* pointers in circular buffers in shared SRAM, one buffer per receiver    *)
(* and sender, and an inter-processor interrupt tells the receiver.        *)
(*                                                                         *)
(* Each processor has a thread and the IPC interrupt handler.  The handler *)
(* preempts the thread except in a critical section, and the processors    *)
(* run concurrently: a step is what one of them does between two accesses  *)
(* to what another one writes.  The semaphore of a message queue is that   *)
(* of PkKernel, reduced to one waiter.                                     *)
(***************************************************************************)
EXTENDS Integers, Sequences, FiniteSets

CONSTANTS
    Procs,         \* instance ids 0 .. OCCHW_INST_ID_MAX
    Messages,      \* the ipc_msg_t objects
    Owner,         \* the processor that sends m as a command
    Target,        \* the processor its function id names
    Handling,      \* what Target does with it: respond at once (the default
                   \*   and the ping handler) or queue it (ipc_msgq_handler)
    Callback,      \* resp_callback of m: "none" or "queue"
    Answers,       \* the return codes a target may answer with
    Closers,       \* the processors whose thread may call ipc_disable on
                   \*   itself after initialization
    IPC_CBUF_SIZE,
    CountMod,      \* 2^8: the width of the read and write counts
    SemMod,        \* 2^32: the width of a semaphore's count
    NULL

Codes == {"IPC_RC_SUCCESS", "IPC_RC_CMD_FAILED", "IPC_RC_BUFFER_FULL",
          "IPC_RC_TARGET_BLOCKED"}
Contexts == {"thread", "handler"}

(* A count is a multiple of the buffer size wide, and wide enough to tell  *)
(* a blocked buffer, and the one message a sender may still add to it,     *)
(* from one that has room.                                                 *)
ASSUME IpcAssumption ==
    /\ Procs \subseteq Nat
    /\ Owner \in [Messages -> Procs]
    /\ Target \in [Messages -> Procs]
    /\ Handling \in [Messages -> {"respond", "queue"}]
    /\ Callback \in [Messages -> {"none", "queue"}]
    /\ Answers \subseteq Codes /\ Closers \subseteq Procs
    /\ IPC_CBUF_SIZE \in Nat \ {0}
    /\ CountMod \in Nat
    /\ CountMod % IPC_CBUF_SIZE = 0
    /\ CountMod > 3 * IPC_CBUF_SIZE
    /\ SemMod \in Nat \ {0}
    /\ NULL \notin Messages

VARIABLES
    reads, writes,     \* counts.reads, counts.writes [receiver][sender]
    cbufs,             \* targets[receiver].cbufs[sender]
    status,            \* the processors whose IPI bit is set in the OISR
    masked,            \* the processors whose IPI is masked in the OIMR
    ipc_enabled,       \* G_ipc_enabled, per processor
    active, response,  \* flags of a message's func_id
    ipc_rc,            \* its return code
    pc,                \* [processor][context]: where it is
    frame,             \* ... and the message it works on: cmd, rsp, cur_msg,
                       \*   the arguments and the caller of ipc_send_msg
    pending,           \* the handler's xored_counts: senders still to serve
    sender,            \* the sender it serves
    msgq, msg_sem,     \* the processor's message queue and its semaphore
    answer             \* history: the code the target last answered m with

bufVars == <<reads, writes, cbufs>>
irqVars == <<status, masked>>
msgVars == <<active, response, ipc_rc, answer>>
queueVars == <<msgq, msg_sem>>
handlerVars == <<pending, sender>>
vars == <<bufVars, irqVars, ipc_enabled, msgVars, pc, frame, handlerVars,
          queueVars>>

-----------------------------------------------------------------------------
Entries(d, s) == (writes[d][s] - reads[d][s]) % CountMod

Calls == {"command", "response", "none"}
Frame(m, d, k) == [msg |-> m, target |-> d, call |-> k]
Holds(p, c, m) == frame' = [frame EXCEPT ![p][c] = Frame(m, p, "none")]
Sends(p, c, m, d, k) == frame' = [frame EXCEPT ![p][c] = Frame(m, d, k)]

(* The thread runs when the handler does not; the handler starts when the  *)
(* thread is not in a critical section.                                    *)
InCriticalSection(p) == pc[p]["thread"] \in {"sample", "store", "raise"}
CanRun(p, c) == c = "handler" \/ pc[p]["handler"] = "idle"
At(p, c, label) == pc[p][c] = label /\ CanRun(p, c)
Goto(p, c, label) == pc' = [pc EXCEPT ![p][c] = label]

(* After ipc_init the thread of p reaches "run", where it may call         *)
(* anything.                                                               *)
Init ==
    /\ reads = [d \in Procs |-> [s \in Procs |-> 0]]
    /\ writes = reads
    /\ cbufs = [d \in Procs |-> [s \in Procs |->
                  [i \in 0 .. IPC_CBUF_SIZE - 1 |-> NULL]]]
    /\ status = {} /\ masked = Procs /\ ipc_enabled = {}
    /\ active = [m \in Messages |-> FALSE]
    /\ response = active
    /\ ipc_rc = [m \in Messages |-> "IPC_RC_SUCCESS"]
    /\ answer = ipc_rc
    /\ pc = [p \in Procs |-> [c \in Contexts |->
               IF c = "thread" THEN "boot" ELSE "idle"]]
    /\ frame = [p \in Procs |-> [c \in Contexts |-> Frame(NULL, p, "none")]]
    /\ pending = [p \in Procs |-> {}]
    /\ sender = [p \in Procs |-> p]
    /\ msgq = [p \in Procs |-> <<>>]
    /\ msg_sem = [p \in Procs |-> 0]

-----------------------------------------------------------------------------
(* ipc_disable(OCCHW_INST_ID_SELF), called by ipc_init: every buffer of p  *)
(* appears more than full.                                                 *)
Disable(p) ==
    /\ \/ At(p, "thread", "boot")
       \/ At(p, "thread", "run") /\ p \in Closers
    /\ ipc_enabled' = ipc_enabled \ {p}
    /\ masked' = masked \union {p}
    /\ reads' = [reads EXCEPT ![p] = [s \in Procs |->
                   (writes[p][s] - 2 * IPC_CBUF_SIZE) % CountMod]]
    /\ Goto(p, "thread", "disabled")
    /\ UNCHANGED <<writes, cbufs, status, msgVars, frame, handlerVars,
                   queueVars>>

(* ipc_enable clears the interrupt ...                                     *)
EnableClear(p) ==
    /\ At(p, "thread", "disabled")
    /\ status' = status \ {p}
    /\ Goto(p, "thread", "cleared")
    /\ UNCHANGED <<bufVars, masked, ipc_enabled, msgVars, frame, handlerVars,
                   queueVars>>

(* ... and opens the buffers, dropping what is in them.                    *)
EnableOpen(p) ==
    /\ At(p, "thread", "cleared")
    /\ reads' = [reads EXCEPT ![p] = writes[p]]
    /\ masked' = masked \ {p}
    /\ ipc_enabled' = ipc_enabled \union {p}
    /\ Goto(p, "thread", "run")
    /\ UNCHANGED <<writes, cbufs, status, msgVars, frame, handlerVars,
                   queueVars>>

-----------------------------------------------------------------------------
(* Mutant of SendCmd: a message that is still under way is sent again.     *)
SendCmdActive(p, m) ==
    /\ At(p, "thread", "run")
    /\ p = Owner[m] /\ p \in ipc_enabled
    /\ response' = [response EXCEPT ![m] = FALSE]
    /\ ipc_rc' = [ipc_rc EXCEPT ![m] = "IPC_RC_SUCCESS"]
    /\ Sends(p, "thread", m, Target[m], "command")
    /\ Goto(p, "thread", "sample")
    /\ UNCHANGED <<bufVars, irqVars, ipc_enabled, active, answer, handlerVars,
                   queueVars>>

(* ipc_send_cmd, up to ipc_send_msg.                                       *)
SendCmd(p, m) ==
    /\ At(p, "thread", "run")
    /\ p = Owner[m] /\ p \in ipc_enabled /\ ~active[m]
    /\ response' = [response EXCEPT ![m] = FALSE]
    /\ ipc_rc' = [ipc_rc EXCEPT ![m] = "IPC_RC_SUCCESS"]
    /\ Sends(p, "thread", m, Target[m], "command")
    /\ Goto(p, "thread", "sample")
    /\ UNCHANGED <<bufVars, irqVars, ipc_enabled, active, answer, handlerVars,
                   queueVars>>

(* ipc_send_msg: num_entries from the two counts.  The return code of a    *)
(* response is ignored by everyone who sends one.                          *)
AfterSend(p, c, code) ==
    CASE c = "handler" -> "drain"
      [] c = "thread" /\ frame[p][c].call = "response" -> "run"
      [] OTHER -> code

(* Mutant of Sample: a full buffer has room.                               *)
SampleWhenFull(p, c) ==
    /\ At(p, c, "sample")
    /\ Goto(p, c, IF Entries(frame[p][c].target, p) <= IPC_CBUF_SIZE
                  THEN "store" ELSE AfterSend(p, c, "IPC_RC_TARGET_BLOCKED"))
    /\ UNCHANGED <<bufVars, irqVars, ipc_enabled, msgVars, frame, handlerVars,
                   queueVars>>

Sample(p, c) ==
    LET n == Entries(frame[p][c].target, p)
    IN /\ At(p, c, "sample")
       /\ Goto(p, c, IF n < IPC_CBUF_SIZE THEN "store"
                     ELSE AfterSend(p, c, IF n = IPC_CBUF_SIZE
                                          THEN "IPC_RC_BUFFER_FULL"
                                          ELSE "IPC_RC_TARGET_BLOCKED"))
       /\ UNCHANGED <<bufVars, irqVars, ipc_enabled, msgVars, frame,
                      handlerVars,
                      queueVars>>

(* Mutant of Store: the slot is that of the next message.                  *)
StoreAfterCount(p, c) ==
    LET m == frame[p][c].msg
        d == frame[p][c].target
        w == (writes[d][p] + 1) % CountMod
    IN /\ At(p, c, "store")
       /\ active' = [active EXCEPT ![m] = TRUE]
       /\ cbufs' = [cbufs EXCEPT ![d][p][w % IPC_CBUF_SIZE] = m]
       /\ writes' = [writes EXCEPT ![d][p] = w]
       /\ Goto(p, c, "raise")
       /\ UNCHANGED <<reads, irqVars, ipc_enabled, response, ipc_rc, answer,
                      frame, handlerVars, queueVars>>

Store(p, c) ==
    LET m == frame[p][c].msg
        d == frame[p][c].target
        w == writes[d][p]
    IN /\ At(p, c, "store")
       /\ active' = [active EXCEPT ![m] = TRUE]
       /\ cbufs' = [cbufs EXCEPT ![d][p][w % IPC_CBUF_SIZE] = m]
       /\ writes' = [writes EXCEPT ![d][p] = (w + 1) % CountMod]
       /\ Goto(p, c, "raise")
       /\ UNCHANGED <<reads, irqVars, ipc_enabled, response, ipc_rc, answer,
                      frame, handlerVars, queueVars>>

Raise(p, c) ==
    /\ At(p, c, "raise")
    /\ status' = status \union {frame[p][c].target}
    /\ Goto(p, c, AfterSend(p, c, "IPC_RC_SUCCESS"))
    /\ UNCHANGED <<bufVars, masked, ipc_enabled, msgVars, frame, handlerVars,
                   queueVars>>

(* The rest of ipc_send_cmd: cmd->ipc_rc = rc, outside of the critical     *)
(* section.                                                                *)
SendCmdReturn(p) ==
    /\ \E code \in Codes :
         /\ At(p, "thread", code)
         /\ ipc_rc' = [ipc_rc EXCEPT ![frame[p]["thread"].msg] = code]
    /\ Goto(p, "thread", "run")
    /\ UNCHANGED <<bufVars, irqVars, ipc_enabled, active, response, answer,
                   frame,
                   handlerVars, queueVars>>

(* Mutant of SendRsp: the message keeps the look of a command.             *)
SendRspAsCommand(p, c, m, code) ==
    /\ ipc_rc' = [ipc_rc EXCEPT ![m] = code]
    /\ answer' = [answer EXCEPT ![m] = code]
    /\ Sends(p, c, m, Owner[m], "response")
    /\ Goto(p, c, "sample")
    /\ UNCHANGED <<active, response>>

(* ipc_send_rsp, up to ipc_send_msg, from the context c.                   *)
SendRsp(p, c, m, code) ==
    /\ response' = [response EXCEPT ![m] = TRUE]
    /\ ipc_rc' = [ipc_rc EXCEPT ![m] = code]
    /\ answer' = [answer EXCEPT ![m] = code]
    /\ Sends(p, c, m, Owner[m], "response")
    /\ Goto(p, c, "sample")
    /\ UNCHANGED active

-----------------------------------------------------------------------------
(* ipc_irq_handler: mask and clear the interrupt, then look at the counts. *)
HandlerEnter(p) ==
    /\ p \in status \ masked
    /\ pc[p]["handler"] = "idle" /\ ~InCriticalSection(p)
    /\ masked' = masked \union {p}
    /\ status' = status \ {p}
    /\ Goto(p, "handler", "snapshot")
    /\ UNCHANGED <<bufVars, ipc_enabled, msgVars, frame, handlerVars,
                   queueVars>>

HandlerSnapshot(p) ==
    /\ At(p, "handler", "snapshot")
    /\ pending' = [pending EXCEPT
                     ![p] = {s \in Procs : reads[p][s] # writes[p][s]}]
    /\ Goto(p, "handler", "scan")
    /\ UNCHANGED <<bufVars, irqVars, ipc_enabled, msgVars, frame, sender,
                   queueVars>>

(* cntlz64 finds the first buffer of the snapshot that is not empty.       *)
HandlerScan(p) ==
    /\ At(p, "handler", "scan")
    /\ \E s \in pending[p] :
         /\ \A r \in pending[p] : s <= r
         /\ sender' = [sender EXCEPT ![p] = s]
         /\ pending' = [pending EXCEPT ![p] = @ \ {s}]
    /\ Goto(p, "handler", "drain")
    /\ UNCHANGED <<bufVars, irqVars, ipc_enabled, msgVars, frame, queueVars>>

(* Mutant of HandlerExit: the interrupt is cleared after the counts have   *)
(* been read.                                                              *)
HandlerExitClears(p) ==
    /\ At(p, "handler", "scan") /\ pending[p] = {}
    /\ status' = status \ {p}
    /\ masked' = masked \ {p}
    /\ Goto(p, "handler", "idle")
    /\ UNCHANGED <<bufVars, ipc_enabled, msgVars, frame, handlerVars,
                   queueVars>>

HandlerExit(p) ==
    /\ At(p, "handler", "scan") /\ pending[p] = {}
    /\ masked' = masked \ {p}
    /\ Goto(p, "handler", "idle")
    /\ UNCHANGED <<bufVars, status, ipc_enabled, msgVars, frame, handlerVars,
                   queueVars>>

BufferDone(p) ==
    /\ At(p, "handler", "drain")
    /\ reads[p][sender[p]] = writes[p][sender[p]]
    /\ Goto(p, "handler", "scan")
    /\ UNCHANGED <<bufVars, irqVars, ipc_enabled, msgVars, frame, handlerVars,
                   queueVars>>

(* ipc_process_cbuf takes a message: the count is advanced first.          *)
Take(p, m) ==
    LET s == sender[p]
    IN /\ At(p, "handler", "drain")
       /\ reads[p][s] # writes[p][s]
       /\ m = cbufs[p][s][reads[p][s] % IPC_CBUF_SIZE]
       /\ reads' = [reads EXCEPT ![p][s] = (@ + 1) % CountMod]
       /\ UNCHANGED <<writes, cbufs, irqVars, ipc_enabled, handlerVars>>

(* Mutant of Enqueue: the post only counts.                                *)
EnqueueCountsOnly(p, m) ==
    /\ msgq' = [msgq EXCEPT ![p] = Append(@, m)]
    /\ msg_sem' = [msg_sem EXCEPT ![p] = @ + 1]
    /\ UNCHANGED pc

(* ipc_msgq_handler; the post wakes the thread if it waits.                *)
Enqueue(p, m) ==
    LET waits == pc[p]["thread"] = "pend"
    IN /\ msgq' = [msgq EXCEPT ![p] = Append(@, m)]
       /\ msg_sem' = [msg_sem EXCEPT
                        ![p] = IF waits THEN @ ELSE (@ + 1) % SemMod]
       /\ pc' = [pc EXCEPT ![p]["thread"] = IF waits THEN "woken" ELSE @]

(* ipc_process_msg on a response: ipc_free_msg, or its callback.           *)
TakeResponse(p, m) ==
    /\ Take(p, m) /\ response[m]
    /\ \/ /\ Callback[m] = "none"
          /\ active' = [active EXCEPT ![m] = FALSE]
          /\ UNCHANGED <<pc, queueVars>>
       \/ /\ Callback[m] = "queue"
          /\ Enqueue(p, m)
          /\ UNCHANGED active
    /\ UNCHANGED <<response, ipc_rc, answer, frame>>

(* ... on a command: the handler of its function id.  ipc_send_rsp does    *)
(* nothing for a message that is not active.                               *)
TakeCommand(p, m) ==
    /\ Take(p, m) /\ ~response[m]
    /\ \/ /\ Handling[m] = "respond"
          /\ IF active[m]
             THEN \E code \in Answers : SendRsp(p, "handler", m, code)
             ELSE UNCHANGED <<msgVars, frame, pc>>
          /\ UNCHANGED queueVars
       \/ /\ Handling[m] = "queue"
          /\ Enqueue(p, m)
          /\ UNCHANGED <<msgVars, frame>>

-----------------------------------------------------------------------------
(* ipc_msgq_recv: a message that is there is taken without touching the    *)
(* semaphore.                                                              *)
Recv(p) ==
    /\ At(p, "thread", "run")
    /\ \/ /\ msgq[p] # <<>>
          /\ Holds(p, "thread", Head(msgq[p]))
          /\ msgq' = [msgq EXCEPT ![p] = Tail(@)]
          /\ Goto(p, "thread", "received")
          /\ UNCHANGED msg_sem
       \/ /\ msgq[p] = <<>> /\ msg_sem[p] > 0
          /\ msg_sem' = [msg_sem EXCEPT ![p] = @ - 1]
          /\ Goto(p, "thread", "woken")
          /\ UNCHANGED <<frame, msgq>>
       \/ /\ msgq[p] = <<>> /\ msg_sem[p] = 0
          /\ Goto(p, "thread", "pend")
          /\ UNCHANGED <<frame, queueVars>>
    /\ UNCHANGED <<bufVars, irqVars, ipc_enabled, msgVars, handlerVars>>

RecvTimeout(p) ==
    /\ At(p, "thread", "pend")
    /\ Goto(p, "thread", "run")
    /\ UNCHANGED <<bufVars, irqVars, ipc_enabled, msgVars, frame, handlerVars,
                   queueVars>>

(* The pend has returned 0: take a message, or IPC_RC_NO_MSG.              *)
RecvWoken(p) ==
    /\ At(p, "thread", "woken")
    /\ IF msgq[p] = <<>>
       THEN Goto(p, "thread", "run") /\ UNCHANGED <<frame, msgq>>
       ELSE /\ Holds(p, "thread", Head(msgq[p]))
            /\ msgq' = [msgq EXCEPT ![p] = Tail(@)]
            /\ Goto(p, "thread", "received")
    /\ UNCHANGED <<bufVars, irqVars, ipc_enabled, msgVars, handlerVars,
                   msg_sem>>

(* The thread is done with a response it received: ipc_free_msg ...        *)
Release(p) ==
    LET m == frame[p]["thread"].msg
    IN /\ At(p, "thread", "received") /\ response[m]
       /\ active' = [active EXCEPT ![m] = FALSE]
       /\ Goto(p, "thread", "run")
       /\ UNCHANGED <<bufVars, irqVars, ipc_enabled, response, ipc_rc, answer,
                      frame, handlerVars, queueVars>>

(* ... or with a command: ipc_send_rsp.                                    *)
Respond(p) ==
    LET m == frame[p]["thread"].msg
    IN /\ At(p, "thread", "received") /\ ~response[m]
       /\ IF active[m]
          THEN \E code \in Answers : SendRsp(p, "thread", m, code)
          ELSE Goto(p, "thread", "run") /\ UNCHANGED <<msgVars, frame>>
       /\ UNCHANGED <<bufVars, irqVars, ipc_enabled, handlerVars, queueVars>>

-----------------------------------------------------------------------------
HandlerStep(p) ==
    \/ HandlerEnter(p) \/ HandlerSnapshot(p) \/ HandlerScan(p)
    \/ HandlerExit(p) \/ BufferDone(p)
    \/ \E m \in Messages : TakeResponse(p, m) \/ TakeCommand(p, m)
    \/ Sample(p, "handler") \/ Store(p, "handler") \/ Raise(p, "handler")

(* What a thread does once it is in a call, as opposed to what it may call *)
CallStep(p) ==
    \/ p \notin ipc_enabled /\ Disable(p)
    \/ EnableClear(p) \/ EnableOpen(p)
    \/ Sample(p, "thread") \/ Store(p, "thread") \/ Raise(p, "thread")
    \/ SendCmdReturn(p) \/ RecvWoken(p) \/ Release(p) \/ Respond(p)

Next == \E p \in Procs :
    \/ HandlerStep(p) \/ CallStep(p)
    \/ Disable(p) \/ Recv(p) \/ RecvTimeout(p)
    \/ \E m \in Messages : SendCmd(p, m)

Spec == Init /\ [][Next]_vars

(* The processors run: a thread finishes the call it is in, a handler runs *)
(* to its end, and an interrupt that is up is taken when the thread leaves *)
(* its critical section, however often it enters another one.              *)
FairSpec ==
    /\ Spec
    /\ \A p \in Procs : /\ WF_vars(HandlerStep(p)) /\ WF_vars(CallStep(p))
                        /\ SF_vars(HandlerEnter(p))

-----------------------------------------------------------------------------
ThreadLabels == {"boot", "disabled", "cleared", "run", "sample", "store",
                 "raise", "pend", "woken", "received"} \union Codes
HandlerLabels == {"idle", "snapshot", "scan", "drain", "sample", "store",
                  "raise"}

(* Every variable keeps its type: the counts stay within their byte.       *)
TypeOK ==
    /\ reads \in [Procs -> [Procs -> 0 .. CountMod - 1]]
    /\ writes \in [Procs -> [Procs -> 0 .. CountMod - 1]]
    /\ cbufs \in [Procs -> [Procs ->
                 [0 .. IPC_CBUF_SIZE - 1 -> Messages \union {NULL}]]]
    /\ status \subseteq Procs /\ masked \subseteq Procs
    /\ ipc_enabled \subseteq Procs
    /\ active \in [Messages -> BOOLEAN] /\ response \in [Messages -> BOOLEAN]
    /\ ipc_rc \in [Messages -> Codes] /\ answer \in [Messages -> Codes]
    /\ pc \in [Procs -> [Contexts -> ThreadLabels \union HandlerLabels]]
    /\ \A p \in Procs : /\ pc[p]["thread"] \in ThreadLabels
                         /\ pc[p]["handler"] \in HandlerLabels
    /\ frame \in [Procs -> [Contexts ->
                 [msg : Messages \union {NULL}, target : Procs, call : Calls]]]
    /\ pending \in [Procs -> SUBSET Procs] /\ sender \in [Procs -> Procs]
    /\ msgq \in [Procs -> Seq(Messages)]
    /\ msg_sem \in [Procs -> 0 .. SemMod - 1]

(* No buffer is overrun, whoever disables and enables while a sender is    *)
(* between its look at the counts and its store: an open buffer holds at   *)
(* most IPC_CBUF_SIZE messages, and every sender sees a closed one as      *)
(* blocked, never as merely full or free (ipc_send_msg, ipc_disable).      *)
Blocked(d, s) == Entries(d, s) > IPC_CBUF_SIZE
BuffersBounded ==
    \A d, s \in Procs :
        IF pc[d]["thread"] \in {"disabled", "cleared"}
        THEN Entries(d, s) \in 2 * IPC_CBUF_SIZE .. 2 * IPC_CBUF_SIZE + 1
        ELSE Entries(d, s) \in 0 .. IPC_CBUF_SIZE

(* No interrupt is lost: a processor that takes interrupts and is outside  *)
(* its handler has nothing in its buffers that no interrupt, up or about   *)
(* to be raised, announces (ipc_irq_handler clears before it looks).       *)
Announced(d, s) ==
    \/ d \in status
    \/ \E c \in Contexts : pc[s][c] = "raise" /\ frame[s][c].target = d
NoStrandedMessage ==
    \A d, s \in Procs :
        /\ d \notin masked /\ pc[d]["handler"] = "idle"
        /\ reads[d][s] # writes[d][s]
        => Announced(d, s)

(* Where the message m is: the slots between the two counts of an open     *)
(* buffer, the places of a message queue, the contexts that work on it.    *)
InBuffer(m) ==
    {slot \in Procs \X Procs \X (0 .. IPC_CBUF_SIZE - 1) :
        LET d == slot[1]
            s == slot[2]
        IN /\ ~Blocked(d, s) /\ cbufs[d][s][slot[3]] = m
           /\ \E n \in 0 .. Entries(d, s) - 1 :
                 (reads[d][s] + n) % IPC_CBUF_SIZE = slot[3]}
InQueue(m) ==
    {place \in Procs \X (1 .. Cardinality(Messages)) :
        place[2] \in DOMAIN msgq[place[1]] /\ msgq[place[1]][place[2]] = m}
InHand(m) ==
    {context \in Procs \X Contexts :
        LET p == context[1]
            c == context[2]
        IN pc[p][c] \in {"sample", "store", "received"} /\ frame[p][c].msg = m}

(* A message object is linked in one place at a time, and in none while it *)
(* is free: a pointer in two buffers, or a node twice in a deque, would    *)
(* corrupt the queues of two processors (ipc_send_cmd on an active         *)
(* message).                                                               *)
OnePlace ==
    \A m \in Messages :
        LET places == Cardinality(InBuffer(m)) + Cardinality(InQueue(m))
                      + Cardinality(InHand(m))
        IN places <= 1 /\ (~active[m] /\ InHand(m) = {} => places = 0)

(* A thread that waits for a message has none: the pend decides under the  *)
(* same critical section as the look at the queue (ipc_msgq_recv).         *)
NoWaitWithMessage ==
    \A p \in Procs : pc[p]["thread"] = "pend" => msgq[p] = <<>>

(* The circular buffers are the bounded FIFO channels of IpcChannel; a     *)
(* buffer that is closed holds nothing, since opening it drops what is in  *)
(* it.                                                                     *)
Contents(d, s) ==
    IF Blocked(d, s) THEN <<>>
    ELSE [i \in 1 .. Entries(d, s) |->
            cbufs[d][s][(reads[d][s] + i - 1) % IPC_CBUF_SIZE]]
Channel == INSTANCE IpcChannel WITH
    chan <- [d \in Procs |-> [s \in Procs |-> Contents(d, s)]],
    Capacity <- IPC_CBUF_SIZE
FifoChannel == Channel!Spec

(* Every command that reaches an enabled target, which answers it in its   *)
(* handler, comes back to a sender who asked for no callback, and is free  *)
(* again, as long as the buffers have room for all the messages there are. *)
EveryCommandAnswered ==
    \A m \in Messages :
        InBuffer(m) # {} /\ Target[m] \in ipc_enabled
        /\ Handling[m] = "respond" /\ Callback[m] = "none"
        ~> ~active[m]

(* ipc_api.h, ipc_get_rc: the return code embedded in a response is how    *)
(* the remote processor reports success or failure.                        *)
RcDelivered ==
    \A p \in Procs :
        LET m == frame[p]["thread"].msg
        IN pc[p]["thread"] = "received" /\ response[m] => ipc_rc[m] = answer[m]

(* ipc_api.h, ipc_msgq_recv: IPC_RC_NO_MSG should never happen.            *)
MessageIsThere ==
    \A p \in Procs : pc[p]["thread"] = "woken" => msgq[p] # <<>>
=============================================================================
