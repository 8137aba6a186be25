# Verification of the P9 hcode

The POWER9 hcode is the firmware of the small PPE42 engines that manage power
in the chip while the host runs: one STOP engine (SGPE), one Pstate engine
(PGPE) and twelve core-management engines (CMEs), together with the library
that links them to the OCC's 405 processor and the PK kernel on which they all
run. This directory holds TLA+ models of its concurrent parts, the TLC
configurations that check them, and TLAPS proofs about the kernel, its time
queue, the message library, the masks, quads and cores of the SGPE, the requests
of the PGPE and the exchanges of the two CMEs of a quad.
All paths below are under `src/import/chips/p9/`, and those that begin with
`ppe` under its `procedures/`.

| Module | What it is |
| --- | --- |
| `PkKernel` | PK threads, semaphores, deferred context switches |
| `PkKernelProofs` | its inductive invariants, eight theorems |
| `PkTimer` | the PK time queue, its bottom half and the decrementer |
| `PkTimerProofs` | its inductive invariant: the time queue is sound |
| `IpcChannel` | what the OCC IPC library promises: bounded FIFO channels |
| `OccIpc` | the IPC library: circular buffers, interrupts, message queues |
| `OccIpcProofs` | its inductive invariants, eight theorems: it implements `IpcChannel` |
| `PgpeRequests` | the PGPE between the OCC and the SGPE: requests, WOF, suspend, faults |
| `PgpeRequestsProofs` | its inductive invariants, ten theorems |
| `SgpeStop` | the SGPE's STOP function with its masks, between the CMEs, the PGPE and the OCC |
| `SgpeStopProofs` | its inductive invariants: types, masks, quads, cores, suspension; ten theorems |
| `CmePstate` | the two CMEs of a quad and the doorbells of the PGPE |
| `CmePstateProofs` | its types; the inductive invariant of the exchanges, which every step of the quad manager keeps |
| `CmePstateQuadProofs` | so do the sibling, the PGPE and the boot; two theorems |
| `CmePstateReplyProofs` | what the PGPE hears is what it expects: nobody panics |
| `MCPkKernel`, `MCPkTimer`, `MCOccIpc`, `MCPgpeRequests`, `MCSgpeStop` | small instances for TLC; `CmePstate` needs no definitions of its own, its instances are the `MCCmePstate*.cfg` |

`PROJECT.json` maps each definition to the source lines it translates and
lists runs, mutants, hazards and theorems.

## 1. Inventory

### How the parts fit together

The engines share nothing but SRAM, interrupts and hardware registers.

```
   OCC 405  --commands-->  PGPE  <--quads, cores, suspend-->  SGPE
      |  OCCFLG flags       |                                   |
      |                     | DB0/DB3 doorbells                 | DB1, wake-ups
      |                     v                                   v
      +---- IPC buffers    CME pstate threads  <-inter-CME->   CME STOP threads
```

* **Calls and interrupts.** On one engine, threads call PK; external
  interrupts preempt them, post semaphores, and leave a context switch to
  interrupt exit. The timer interrupt queues a bottom half that runs with
  interrupts enabled.
* **Messages.** OCC, PGPE and SGPE exchange `ipc_msg_t` objects by pointer. The
  responder writes the return code into the sender's object and puts its
  pointer into the buffer of the sender.
* **Flags.** The OCC also asks by bits of OCCFLG (suspend, safe mode, stop),
  which the PGPE polls in its FIT timer.
* **Doorbells.** The PGPE and SGPE reach the CMEs by doorbell registers;
  CMEs answer by message registers and by direct inter-CME signals.

### The components

| Component | State | Operations | What makes it correct |
| --- | --- | --- | --- |
| PK threads and semaphores (`ppe/pk/kernel`, `ppe/pk/ppe42`) | priority map, run queue, pending queues, counts, `__pk_delayed_switch` | create, resume, suspend, delete, complete, sleep, priority change and swap, post, pend, release_all | every priority has one owner; no post is lost; nobody waits beside a count; the best runnable thread runs |
| PK timers and bottom halves | the ring, cursor, `next_timeout`, decrementer, bottom-half queue | schedule, cancel, timer interrupt, bottom half | the ring stays a ring; the decrementer is due no later than the first timer; every timer fires |
| OCC IPC library (`common/pmlib/occlib`) | 5 x 5 circular buffers with 8-bit counts, IPI status and mask, message flags | send command, send response, interrupt handler, enable, disable, message queues | each channel is a bounded FIFO; no message is left without an interrupt; each command comes back |
| PGPE (`ppe_closed/pgpe/pstate_gpe`) | Pstate status, WOF status, pending table, semaphores, interrupt mask stack, quad lists | IPC handlers, FIT handler, Process and Actuate threads, error interrupts | each request is answered once, at the right time; SGPE and PGPE agree on the quads; mask stack balances; safe mode is reached |
| SGPE (`ppe_closed/sgpe/stop_gpe`) | `G_sgpe_stop_record`: level per core and quad, vectors of who enters, exits, is blocked or suspended; mask stack and override | PIG handlers of types 0, 2, 3, 6, block and unblock, suspend, FIT, entry and exit threads | the mask is restored once, by handler or thread; every wakeup is served; SGPE, PGPE and CMEs agree on who is up; a suspend is answered and nothing moves after it |
| CME STOP (`ppe_closed/cme/stop_cme`) | STOP level per core, wake-up state, notify_select | entry with abort points, exit, PC wake-up, doorbells 1 and 2 | a wake-up is not lost whichever STOP step it meets |
| CME Pstates (`ppe_closed/cme/pstate_cme`) | Pstate and clips, quad-manager role, flags, masks, starvation counters | boot, registration, doorbells 0 and 3, inter-CME messages and signals, heartbeat loss, droops, PMCR | manager and sibling move together; the clock moves only while the sibling stands still; each doorbell is answered |
| GPE platform hooks (`p9_pgpe_irq.c`, `p9_sgpe_irq.c`, `p9_cme_irq.c`) | mask stack per engine | `pk_irq_save_and_set_mask`, `pk_irq_vec_restore` | save and restore balance |
| Error log (`ppe_closed/lib/p9_hcd_errl.c`) | slots of a table shared with the OCC, ids | create, user details, commit | a slot has one owner |
| PK trace (`ppe/pk/trace`) | circular buffer, offset | binary and compact trace | an entry does not overlap another one in progress |
| AVSBus driver (`pgpe/pstate_gpe/avs_driver.c`) | one transaction and its retries | read, write, resynchronise | bounded retries, no stale response |
| iota kernel (`ppe/iota`) | task table, priority masks | dispatch, timers | a task runs to completion under its mask |
| STOP API (`procedures/utils/stopreg`) | entries of the self-restore image | save, append, replace | a register has one entry; a full image is refused |
| STOP procedures (`p9_hcd_*`), boot loaders, I/O PPE firmware, block copy | hardware registers | straight-line SCOM sequences | belongs to the hardware, not in this repository |
| Image build, XIP, 405 stream library, headers | none at run time | host tools, declarations | not a concurrent system |

### What is hard

* *Interleaving:* every handler of an engine can run between any two
  instructions that are not in a critical section. PK's timed-out waiters, the
  walk of the time queue and the PGPE's look at its pending table all depend on
  what happens there.
* *Ordering between engines:* an answer can overtake the code that follows the
  send; a doorbell can be cleared before or after the buffers are read.
* *Masks that outlive their handler:* the PGPE's IPC handler returns with its
  interrupt masked, and whichever thread sends the last answer opens it again.
* *Two-step protocols:* an SGPE quad update is a NOTIFY and a DONE, with the
  registration of the quad's CME some time later. START, WOF and suspend can
  come between them.
* *Faults:* the OCC, the SGPE, a CME or the VRM may fail at any step. The PGPE
  then has to answer what is pending and drive the chip to safe mode.
* *Loops with interrupts off:* the two CMEs of a quad wait for each other, and
  the SGPE for its CMEs, in loops that only the right signal ends.
* *One record, many owners:* a core's wakeup is in a packet, in a vector of the
  SGPE, with a thread, blocked, suspended or with its CME; packets of one type
  replace each other.
* *Boundaries:* 8-bit counts that wrap, a decrementer of 32 bits, semaphores
  of maximum 1, an off-by-one in the check of a priority.

The list with lines is under "hazards" in `PROJECT.json`.

## 2. Plan

The order follows the dependence of the rest of the firmware on a part: what
all engines stand on first, then the part that many messages meet.

1. `PkKernel` and its proofs — *done*.
2. `OccIpc`, implementing the abstract specification `IpcChannel` — *done*.
3. `PkTimer` — *done*.
4. `PgpeRequests`: the PGPE with the OCC and the SGPE as its partners — *done*,
   actuation abstracted to a distance.
5. `OccIpcProofs`: types, `NoStrandedMessage`,
   `NoWaitWithMessage`, `BuffersBounded`, the refinement of `IpcChannel` and
   `OnePlace` — *done*.
6. `SgpeStop`: PIG handlers, entry and exit threads, block, suspend, and the
   instance of the mask stack, with CMEs and PGPE as partners — *done*.
7. `CmePstate`: quad manager, sibling, doorbells, registration, heartbeat —
   *done*.
8. `PkTimerProofs` (the time queue), the second part of `PkKernelProofs` (no
   blocked thread is lost, queues and flags agree), `SgpeStopProofs` (the types,
   the masks, the lists of quads and cores, the suspension),
   `PgpeRequestsProofs` (the types, the table against the messages, the mask
   stack, WOF, START_STOP against the quads, the lists of quads and cores, the
   panics), `CmePstateProofs` (the types), `CmePstateQuadProofs` (the clock and
   the lock, what an exchange leaves behind) and `CmePstateReplyProofs` (the
   panics) — *done*. Left: `FollowsPgpe` of `CmePstate`, and the lists of cores
   in `SgpeStop` while the OCC blocks.
9. Left: `CmeStop` (the hardware sequence of an entry with its abort points,
   two cores in one thread), `ErrLog` (slots shared with the OCC), `PkTrace`,
   the AVSBus transaction, the search of the STOP API image as a pure function
   against a reference map; the refinement of the partners in `PgpeRequests` by
   `SgpeStop` and `CmePstate`.

Later runs keep the pattern of the present ones: two engines, two or three
messages, one or two quads, one core, counters one above what the code can use.

## 3. The models

A step is what one processor does between two points at which another thread,
handler or engine can observe or change what it uses. A critical section is
therefore one step. A definition whose comment says "mutant" is not used by the
specification: it is a plausible bug, and replacing the operator that follows
it breaks a property.

### PkKernel

| State | Code |
| --- | --- |
| `state`, `priority`, `flags`, `semaphore` | fields of `PkThread` |
| `timer` | the thread's `PkTimer`: idle, queued, or dequeued with its callback not yet called |
| `priority_map`, `run_queue` | `__pk_priority_map`, `__pk_run_queue` |
| `pending`, `count` | `pending_threads` and `count` of each semaphore |
| `current`, `next_thread`, `delayed_switch` | the scheduler's three globals |
| `thread_mode`, `processing_interrupt` | the fields of SPRG0 that say where the engine is |
| `pc` | the rest of a blocking call, to be executed when switched in |
| `granted` | history: the pend in progress was given a count |

Each API is one action. `pk_sleep` and a blocking `pk_semaphore_pend` are two,
`Sleep`/`SleepReturn` and `SemaphorePend`/`SemaphorePendReturn`: the second half
runs before interrupts are enabled again (`Masked`), which is what makes it run
at once after the switch. `__pk_thread_map`, `__pk_thread_unmap` and
`__pk_schedule` are functions of the tables (`MapThread`, `UnmapThread`,
`Schedule`), composed by the APIs exactly as the code composes them.
`TimerExpire` and `ThreadTimeout` are the two halves of what the timer bottom
half does for a thread: between them the timer is in no queue.

`PK_ERROR_CHECK_API` and `PK_ERROR_PANIC` are on in the product, so an API
error is `panic`, and nothing follows it.

### PkTimer

`next` and `previous` are the links of the ring, with the sentinel `TQ`;
`timeout`, `next_timeout` and `cursor` are the fields of the queue; `now` is the
time base and `dec` the decrementer. `bh` is where the bottom half is. Its
critical sections are `CheckTime` with the first round of the walk (`scan`, no
interrupt in between) and `ScanElement`; `Advance`, `ClearCursor`,
`ReadTimeout` and `WriteDec` run with interrupts enabled, as in
`pk_timer_core.c:259-296`. `ThreadOps`, `CallbackOps` and `HandlerOps` say who
uses the timer interface.

### OccIpc and IpcChannel

A send is `SendCmd` or `SendRsp`, then `Sample` (the entries are computed from
two counts of which the receiver is moving one), `Store` (slot, then count) and
`Raise`. For a command `SendCmdReturn` then stores the return code, outside of
the critical section. The handler is `HandlerEnter` (mask, clear),
`HandlerSnapshot` (the counts of all buffers), `HandlerScan`, `BufferDone` and
`TakeCommand`/`TakeResponse` per message, `HandlerExit` (unmask). `Disable`,
`EnableClear` and `EnableOpen` are `ipc_disable` and `ipc_enable` of the
processor itself. `Recv`, `RecvTimeout` and `RecvWoken` are `ipc_msgq_recv`.

`IpcChannel` is the promise: a bounded FIFO from each processor to each other,
which may be emptied only as a whole, when the receiver closes. `OccIpc`
implements it through `Contents`, the messages between the two counts.

### PgpeRequests

| State | Code |
| --- | --- |
| `processing`, `pendingAck` | `ipcPendTbl[].pending_processing`, `.pending_ack` |
| `pstatesStatus`, `wofStatus`, `severeFault`, ... | `G_pgpe_pstate_record` |
| `semProcess`, `semProcessPosted`, `semProcessSrc`, `semActuate` | the two semaphores and the fields that say who posted |
| `stack`, `level` | `g_oimr_stack`, `g_current_prty_level` |
| `process`, `actuate`, `restoreProcess`, `suspend` | where the two threads are, and the locals that decide who restores the mask |
| `activeQuads`, `requestedQuads`, `pendQuadsRegisterProcess`, `pendingActiveQuadUpdtDone` | quad lists |
| `distance` | how many actuation steps the chip is from its limits |
| `wire`, `outstanding`, `reply`, `args` | the messages, as their senders see them |
| `sgpe`, `toSgpe`, `registering`, `occflg`, `faultsLeft` | the partners |

`IpcInterrupt` is the dispatch with the handlers of `p9_pgpe_ipc_handlers.c`:
they only fill the table, post the Process thread and leave the interrupt
masked. `ProcessWake` to `ProcessDone` with one action per request are
`p9_pgpe_thread_process_requests.c`, in the order in which the code looks at the
table; a request whose service has a wait in it (`CtrlStopWait`, `StartStop2`,
`Started`) is several actions. `ActuateTop`, `ActuatePend`, `ActuateLoop`,
`DoStep`, `ActuateAcks`, `ActuateRestore`, `Leave` with `SafeMode`, `Suspend`
and `Stop` are the Actuate thread and its calls of `p9_pgpe_pstate.c`. `HandleOccflgRequests` is
the FIT handler, `Type4Interrupt` the registration doorbell of a CME,
`ErrorInterrupt` the fault handlers of `p9_pgpe_irq_handlers.c`.

Conventions of this module:

* *Partners.* The OCC sends a request only when the previous one of the same
  kind is answered, as it has one message object for each. The SGPE sends as
  `p9_sgpe_stop_entry.c` and `p9_sgpe_stop_exit.c` do: NOTIFY, wait, power, DONE,
  wait.
* `Patient` restricts the OCC: START_STOP is sent only when the Actuate
  thread has taken its posts. `MCPgpeRequestsOverflow.cfg` shows what happens
  without it.
* A registration while Pstates are active may change the target, so the
  distance is chosen again (`Registration`).
* Abstracted: Pstate and voltage values, the clip arithmetic, VRM exchange,
  DB0/DB3 broadcasts to the CMEs, OCC SRAM tables.
* Not modelled: the PMCR owner and Type1 requests, `PM_RESET_SUPPRESS`,
  immediate mode, a boot with `PSTATE_PROTOCOL_ACTIVATE`, the other bits of
  OCC scratch 2, the pending bits in the STATUS words, and the order of
  the return code and `ipc_send_rsp` in the PGPE's own code.
* `Scenarios` lets one run cover exclusive uses: `Init` picks one, and the OCC
  then sends only its requests. `Together` is one scenario with all of them.

### SgpeStop

| State | Code |
| --- | --- |
| `rec` | `G_sgpe_stop_record`: levels, the vectors per core, quad and special wakeup, `creq`/`cack`, `status_stop`, `entry_pending` |
| `pend`, `payload` | the pending registers and the payload registers of PIG types 0, 2, 3 and 6 |
| `stack`, `prty`, `override` | `g_oimr_stack`, `g_current_prty_level`, `g_oimr_override` |
| `handler`, `job`, `ee` | the handler that runs and its cores; where the two threads are; the EE bit each goes to sleep with |
| `running`, `wns`, `type`, `blockpc`, `cmeBlock`, `cmeSuspend`, `db1`, `db2`, ... | the cores, `CPMMR`, and what `p9_cme_stop_irq_handlers.c` keeps |
| `powered`, `rclk`, `pgpe` | power and resonant clock of the quads, the lists of the PGPE |

`TakeInterrupt` is the unified handler: it pushes the priority, and the handler
reads and clears its packets. `HandlePackets` is `p9_sgpe_pig_cpayload_parser`
with the IPC to the PGPE and, but for type 2, `p9_sgpe_pig_thread_lanucher`
(`Launch`), which either posts threads, leaving the mask to them, or restores
it. `HandOff` is the end of a type 2 handler. `SpecialPackets`, `BlockRequest`
and `SuspendRequest` are the handlers of type 6, IPI3_LOW and the IPC. The
threads run from `ThreadStarts` to `ThreadCloses`: an exit selects the quads,
tells the PGPE, serves the express exits and then each quad in STOP11; an entry
turns the resonant clock off, purges (`Purge`, which a wakeup aborts), tells
the PGPE and takes the power away. On the CMEs' side `CoreStops`, `CmeExit`,
`CmeDb1`, `CmeDb2` and the PC-wakeup handler in its two halves, `PcwuRead` and
`PcwuSend`, are the handlers that share packets and wakeups with the SGPE.

Abstractions: one good EX, and so one CME, per quad; levels 5 and 11 stand for
the two classes that reach the SGPE (STOP8 is disabled in the product's
makefiles); one `creq` and `cack` for entries and exits, which are blocked
together; OCCFLG and QCCR agree; the PGPE answers at once (its answers in time
are the subject of `PgpeRequests`); `PGPE_ACTIVE` is set and updates are
enabled. The panic on a phantom packet is taken as enabled, as its flag says by
default. `HandOver` clears `wakeup_notify_select` and the pending packets in one
step. In the code (`p9_sgpe_stop_exit.c:299`, 312) they are two writes, and in a
thread EE is on: a core that ran and stopped again between them would lose its
packet.

`Mixes` says what may come together in one behaviour. `Windows` names the
short moments between two register accesses in which something else must
happen for the code to go wrong; all but `doorbell_pc` are closed in the run,
and each is the subject of a configuration or a remark of section 4. `ack` is
about blocks only: a packet that replaces the acknowledgement of a suspension
is in the run.

### CmePstate

| State | Code |
| --- | --- |
| `todo` | what each of PGPE, quad manager and sibling has still to execute before it is idle |
| `eisr`, `masked`, `ticks`, `busy` | EISR, `g_eimr_override`, the three starvation counters, a STOP handler in progress |
| `db0`, `db3`, `icrr`, `type4` | the doorbells of each CME, the inter-CME message, the answer to the PGPE |
| `record`, `pmsr`, `flags`, `vdmDroop`, `skipLock` | `G_cme_pstate_record`, PMSR of the cores, CME_FLAGS and the flags of the handlers |
| `mode`, `registered`, `wanted`, `alive` | `pstatesStatus` of the PGPE, whether the quad is in its lists, what it last asked, its heartbeat |

A handler puts its steps in `todo`, and an action executes the head: a step is
what is done between two accesses to what another engine changes. So
`Notify`, `Serve`, `MsgSend` and `MsgRecv` are sequences of a raise, a wait, an
answer and a clear, as in `intercme_direct` and `intercme_msg_*`, with every
wait a loop with interrupts off. Interrupts are taken in the order of
`p9_cme_irq.h`, unless a starvation counter raises one (`Pending`, `Takes`).
`Protocol` and its parts are what `p9_pgpe_pstate.c` writes to the doorbells
and waits for, with the NACK path. A quad that boots goes from `PowerOn`
through the registration (`Register` to `Registered`), with the interlock when
Pstates are active.

Not modelled here: the NACK of a request with CSAR, `globalPstate`, LMCR bit 0
and the forwarding of PMCR, the EIMR part of `disableSGPEHandoff`,
FREQ_UPDT_DISABLE, error injection; a droop or an error that the analog update
leaves on the way to safe mode (`p9_cme_thread_db.c:1172`). Both CMEs of the quad are functional.

## 4. The runs

All pass with no error except `ipc_rc_overwritten`, whose counterexample is a
finding. Each property of a passing run has a mutant in `PROJECT.json` that the
same run rejects.

| Run | Question | Instance |
| --- | --- | --- |
| `kernel_forever` | Are posts and queues right when pends wait for ever? | 3 threads, 2 priorities, 1 semaphore of maximum 1 |
| `kernel_timeouts` | Do the map, the counts and the scheduling survive timeouts? | 2 threads created at one priority, 2 priorities, pends of all kinds |
| `ipc_buffers` | Is a buffer overrun, an interrupt or a wake-up lost, a message linked twice? | 2 processors, one of which closes and opens; 2 messages; 1 slot; counts modulo 4 |
| `ipc_liveness` | FIFO, and does every command come back? | 2 processors that send to each other, 2 slots, counts modulo 8 |
| `ipc_rc_overwritten` | Is the return code of an answer delivered? (no) | 1 message |
| `timer_fires` | Does the ring survive callbacks and other interrupts, and does every timer fire? | 3 timers, clock of 4 ticks, decrementer of 2 |
| `pgpe_wof` | Do SGPE and PGPE agree about quads and cores while WOF goes on and off? | 1 quad, 1 core, WOF phase two |
| `pgpe_start_stop` | Is each request answered once, at the right time, with the mask opened again? | 2 quads, clips, PMCR, start and stop |
| `pgpe_suspend` | Does a PM complex suspend complete from any state, and is a quad answered that must wait for a VFRT? | 1 quad; either START_STOP, SET_PMCR and the suspend flag, or WOF and VFRT |
| `pgpe_faults` | Is safe mode reached, and WOF off with Pstates? | one fault of each kind, two flags |
| `cme_pstates` | Do both CMEs follow the PGPE through every exchange? | 2 Pstates, 2 clips, 2 droops, STOP handlers without bound, one loss of the heartbeat |
| `sgpe_stop` | Do masks balance, is every wakeup served, do the partners agree? | 2 quads of a core, each up or in STOP11 at first; one entry, all wakeups, and a special wakeup, a block or a suspension |

A property of a run may have several named parts: `PendsAreSound`
(`RunQueueMapped`, `WaitersAreBlocked`, `OkMeansGranted`), `TimeQueueSound`
(`TypeOK`,
`QueueIsRing`, `CursorIsQueued`, `NextTimeoutIsEarliest`), `RequestsAccounted`
(`TableIsOutstanding`, `AnsweredOnce`, `NothingForgotten`, `ClosedForAnAnswer`),
`ListsAgree` (`SgpeListsAgree`, `ActiveQuadsArePowered`), `FollowsPgpe`
(`QuadFollows`, `MasksFollowPstates`), `PartnersAgree` (`ReadyWhenHandedOff`,
`ActiveQuadsAgree`, `PgpeKnowsActive`). The parts are what the
counterexamples name.

### Why the bounds are enough

* Three *threads* over two priorities give each race its parties: the
  thread that pends, the one that posts or deletes, and a competitor for the
  same priority. With timeouts two are enough, as the timer is a party, too;
  the theorems are about any number. `CountMod` is 3 or 4 beside a maximum of 1, so
  that a post beyond the maximum, and a count taken from 0, have values of their
  own.
* One *slot* makes a buffer full after one message; two make order visible.
  `CountMod` is four times the size, the least that can tell "blocked, with
  one more message" from "free" (`IpcAssumption`), so counts wrap in every run.
* The *clock* stops at `Horizon`, which is named in the guards. Within it a
  timeout lies before, at and beyond the range of the decrementer. As the
  clock stops, a timer set for the last tick still fires, since `dec` keeps
  counting.
* One *quad* is enough for the orders of NOTIFY, DONE and registration; two are
  used where the lists of two quads may be confused. `MaxDistance = 1` makes an
  answer wait for a step of the Actuate thread. Where it is 0
  the question does not depend on that wait.
* In `sgpe_stop` a quad of one *core* enters whenever that core stops, so one
  stop passes through every phase of entry, abort and exit, while the other
  quad exits, is blocked or woken. With two cores in one quad and two stops the
  invariants and `EveryWakeupServed` were checked as well, one mix at a time
  (`MCTwoCores`, 480 to 700 thousand states); they take too long together.
* In `cme_pstates` the two *droops* make a NACK inside the answer to a NACK, and
  the counters' thresholds are 1, so that they count below, at and beyond it.
* *Deadlock* is checked in the IPC and in the fault-free PGPE runs. It is not in
  the kernel runs, because a panic halts the engine; in the timer runs,
  because the clock stops; in `pgpe_faults` and `pgpe_suspend`, because safe mode and the
  suspended state are the end; and in `sgpe_stop`, where all cores may run with
  nothing left to ask.
* *Symmetry* is used only for invariants and the action property of
  `kernel_forever`, over threads that have the same initial priority, which
  nothing else tells apart.

### Fairness

| Specification | Assumed | Why |
| --- | --- | --- |
| `OccIpc!FairSpec` | WF of the handler and of a call in progress; SF of taking an interrupt | engines execute; the interrupt stays up while critical sections come and go |
| `PkTimer!RecurringSpec` | WF of the clock, the bottom half and other interrupts; SF of the decrementer interrupt | the product's engines take FIT or external interrupts for ever. Without them (`FairSpec`) a bottom half can be stranded: `MCPkTimerStranded.cfg` |
| `PgpeRequests!FairSpec` | WF of the Process thread and of the FIT handler; SF of the IPC and registration interrupts and of the Actuate thread | interrupts are taken when they are open; the Actuate thread has the lower priority and runs between requests, whose rate is low |
| | SF of the SGPE's thread and handlers, and of the OCC's VFRT | the SGPE finishes a STOP transition it has begun; the OCC makes a VFRT for each new list of quads |
| `CmePstate!FairSpec` | WF of each CME and of the PGPE, of the FIT ticks, of the end of a STOP handler and of the repeated boot signal | engines execute; a STOP handler ends, though another may follow at once: only the starvation counters make doorbells win |
| `SgpeStop!FairSpec` | WF of the SGPE as a whole, of each CME handler, of the release of a special wakeup and of the unblock | engines execute, in the order the priorities give; whoever holds a quad awake or blocked lets it go |

No sender is assumed to send anything else, and no fault or flag is assumed to
happen or to stay away.

### What the properties need

The PGPE's properties hold in the configurations in which they are listed, and
some do not hold in others. This is what the code does, seen while building
the model:

* A clip, core update or WOF request whose answer is left to the Actuate
  thread is lost when the stop flag, a suspend or safe mode takes
  the thread out of its loop. For a clip and a core update the IPC interrupt
  then stays masked. Therefore `ClosedForAnAnswer` is checked without flags,
  and `EveryRequestAnswered` with requests that are answered at once.
* A fault answers requests that the Process thread is about to answer as well.
  `AnsweredOnce` and `TableIsOutstanding` are checked without faults.
* A START that crosses the suspend flag lets SUSPEND_STOP be sent twice, so
  `AnsweredOnce` is checked without the flag.
* With two quads, WOF may be switched on while one of them has left STOP and
  not registered; `SgpeListsAgree` is checked with one.

Likewise for the kernel and the timers: with pends that time out,
`RunQueueMapped` and `PostTakesEffect` fail in a window of two steps;
with handlers that cancel or schedule timers, `CursorIsQueued` and
`TimerCovered` do. In the product all pends wait for ever and only the trace
uses a timer, and the passing runs cover that use.

For the CMEs: with the writes of the PGPE to the two CMEs apart, with a boot
signal repeated late, with a droop while a quad registers (the droop workaround
then waits for a quad manager that has doorbell 3 off) or enters safe mode,
or with a PGPE that dies while it waits or while Pstates are stopped, the
exchange goes wrong; the run closes these, and the configurations below show
most of them one by one.

For the SGPE: `ack` (while a block or unblock is acknowledged a core stops or is
woken twice, or its packet replaces the acknowledgement) makes `NoPanic` fail when
exits are blocked: with `BAD_CORE_LIST` for one quad already; with `PHANTOM` only
outside `Regime` (section 5), where TLC finds it for two blocked quads, one of
them specially woken. `special_entry` (special wakeup of a quad in STOP11 without a
core that wakes) makes `ActiveQuadsAgree` fail; `starved` (type 2 masked for long by the
FIT handler) `ReadyWhenHandedOff` with two stops. `EveryPcWakeupServed` fails in
`doorbell_pc` and beside a block, and is not listed in the run; nor is
`SuspendedQuiet`.

### Counterexample configurations

These configurations are kept for those who change the code. They are not
among the runs; TLC stops in each with the behaviour described.

| Configuration | Property | What the code does |
| --- | --- | --- |
| `MCPkKernelStaleWaiter` | `RunQueueMapped` | a timed-out thread's bit stays in `pending_threads` until the thread runs; suspended in between, its priority enters the run queue with nobody mapped (`pk_thread_core.c:272`; `pk_semaphore_core.c:126` says it "is removed from the semaphore pending queue and made runnable") |
| `MCPkKernelLostPost` | `PostTakesEffect` | a post takes that bit for a waiter, and neither counts nor wakes (`pk_semaphore_core.c:68`) |
| `MCPkKernelDeadTimeout` | `TimeoutFindsThread` | a thread deleted between the two halves of its timeout reaches the panic of `pk_thread_core.c:291` |
| `MCPkKernelIdlePriority` | `IdlePriorityIsFree` | `pk_thread_priority_change` admits `PK_THREADS` (`pk_thread_util.c:138`) |
| `MCOccIpcNoMsg` | `MessageIsThere` | a receive that needs no pend leaves the count behind, and a later one gets IPC_RC_NO_MSG, which "should never happen" (`ipc_msgq.c:65`) |
| `MCPkTimerCancel` | `CursorIsQueued` | the walk goes on with a cursor it read before a handler cancelled that timer (`pk_timer_core.c:280`) |
| `MCPkTimerProgram` | `TimerCovered` | the decrementer is programmed outside the critical section `ppe42_core.c:55` asks for (`pk_timer_core.c:295`) |
| `MCPkTimerStranded` | `EveryTimerFires` | an interrupt after the last look at the bottom-half queue leaves its bottom half there (`ppe42_exceptions.S:514`) |
| `MCPgpeRequestsClosedForGood` | `ClosedForAnAnswer` | safe mode answers a clip and leaves the interrupt masked (`p9_pgpe_pstate.c:1762`) |
| `MCPgpeRequestsWofList` | `SgpeListsAgree` | WOF is enabled while a quad is unregistered (`p9_pgpe_pstate.c:1396`) |
| `MCPgpeRequestsCtrlStop` | `NoPanic` | an SGPE fault during the wait for CTRL_STOP_UPDT panics (`p9_pgpe_pstate.c:1653`) |
| `MCPgpeRequestsSuspendReuse` | `SuspendedMeansSgpe` | a late answer to CTRL_STOP_UPDT is taken for that to SUSPEND_STOP (`p9_pgpe_pstate.c:1662`) |
| `MCPgpeRequestsSuspendInterlock` | `QuadsAnswered` | a suspend while a quad waits for its VFRT: the PGPE refuses the VFRT, and PGPE, SGPE and OCC wait for each other |
| `MCCmePstateDroopIntoSafe` | `DoorbellsAnswered` | a droop as the quad enters safe mode is never cleared (`p9_pgpe_pstate.c:2584`) |
| `MCCmePstateStopWhileBooting` | `DoorbellsAnswered` | a stop during the registration interlock: the quad manager waits for a message nobody sends (`p9_cme_thread_db.c:865`) |
| `MCCmePstateHeartbeatMask` | `HeartbeatMaskedByStop` | Pstate Stop leaves the heartbeat unmasked on the quad manager that has just restored it (`p9_cme_thread_db.c:1016`) |
| `MCCmePstateHeartbeatWhileStopped` | `SafeWithoutPgpe` | the PGPE dies while Pstates are stopped: only one CME takes the interrupt, and waits for the other |
| `MCCmePstateHeartbeatWhileWaiting` | `SafeWithoutPgpe` | the PGPE dies while a quad answers: the CMEs wait in different exchanges (`p9_cme_thread_db.c:100`) |
| `MCCmePstateLateRetry` | `LockedDuringAnalog` | a boot signal repeated after its answer is taken for a later one (`p9_cme_pstate.c:366`) |
| `MCCmePstateSignalsOverlap` | `DoorbellsAnswered` | a signal raised again between the answer to the first and its clear is lost (`p9_cme_pstate.c:338`) |
| `MCCmePstateWritesApart` | `NoPanic` | the sibling reads its doorbell before the PGPE has written it (`p9_cme_intercme.c:96`) |
| `MCSgpeStopUnblock` | `PgpeKnowsActive` | a quad in STOP11 is unblocked: its exits go on without a message to the PGPE (`p9_sgpe_stop_irq_handlers.c:346`; lines 697-700 say any core that exits sends one) |
| `MCSgpeStopPcWakeup` | `EveryPcWakeupServed` | a wakeup by the PC unit is dropped as late because the acknowledgement of a block is pending (`p9_sgpe_stop_irq_handlers.c:408`) |
| `MCSgpeStopSuspendEntry` | `SuspendedQuiet` | an entry that waits for its resonant clock goes on after the suspension was answered |
| `MCSgpeStopThreadStart` | `SuspendedStays` | a suspension between the post of the exit thread and its first statement is answered at once, and the thread goes on (`p9_sgpe_stop_threads.c:42`) |
| `MCPgpeRequestsOverflow` | `NoPanic` | two starts before the Actuate thread pends overflow `sem_actuate` (`p9_pgpe_thread_process_requests.c:540`) |

## 5. The proofs

### PkKernel

`PkKernelProofs` proves, for any number of threads, semaphores and priorities,
any maximum, any width of the counts, and any timeouts and new priorities the
application uses (`KernelAssumption` is all that is assumed):

| Theorem | Says |
| --- | --- |
| `KernelInvariant` | `Spec => []KernelInv` |
| `TypeCorrect` | `Spec => []TypeOK` |
| `MapIsExact` | `Spec => []PriorityMapExact` |
| `NoMissedCount` | `Spec => []NoWaiterWithCount` |
| `PriorityScheduling` | `Spec => []HighestPriorityRuns` |

**The inductive invariant.** `HighestPriorityRuns` alone is not inductive: it
speaks of the moment an interrupt ends, and that depends on what every API
called within the interrupt left behind. `KernelInv` adds

* `NextIsBest`: `next_thread` is at all times the thread mapped at the best
  priority of the run queue, because each API that changes a queue ends in
  `__pk_schedule`;
* `SwitchState`: if `next_thread` is not the current thread, a switch is
  remembered in `delayed_switch`, and outside interrupt processing none is;
* `PriorityMapExact` and `NoWaiterWithCount`, which the other two need: a
  thread that is mapped can displace nobody, and a thread resumed inside a
  pend takes a count or queues, never both.

**The argument.** The tables are a value `k`, so each API is a composition of
`MapThread`, `UnmapThread` and updates. Lemmas state once what the two
functions preserve (`...Type`, `...Exact`, `...NoWait`) and where they leave
the map. One lemma says that `Schedule(k, .)` establishes `NextIsBest` and
`SwitchState` for any `k` whose types are right. An API that ends in
`Schedule` then needs only that its `k` is `Good`. The remaining actions move
between contexts and are done one by one. The last step of each
theorem is `PTL`.

The second part of `PkKernelProofs` builds on that invariant. Its theorems assume that nobody
asks for the priority of the idle thread, which the code fails to refuse
(`MCPkKernelIdlePriority`): a thread there is in no queue.

| Theorem | Says |
| --- | --- |
| `NoThreadLost` | `Spec => []BlockedIsWakeable`, with timeouts of all kinds |
| `QueuesAgree` | `Spec => []PendsAreSound`, if no pend has a timeout |
| `PostsTakeEffect` | `Spec => PostTakesEffect`, likewise, for counts of more than one value |

`WakeInv` is `KernelInv` with `BlockedIsWakeable` stated of the tables
(`Wakeable`), and with the fact that a flagged thread has a semaphore. `PendInv`
adds to `KernelInv` where each thread is in its code and what its flags say
then (`FlagsOK`), that the run queue holds mapped priorities (`RunOK`), and that
whoever is mapped at a pending priority of a semaphore is blocked on that
semaphore (`QueuesOK`). For each there are two lemmas about the tables,
`MapWakeable`, `UnmapWakeable` and `MapSound`, `UnmapSound`: what mapping or
unmapping one thread leaves true of all. Delete, suspend, the swap and
`release_all` are compositions of the two. `QueuesAgree` and `PostsTakeEffect`
need their second assumption: with timeouts, a timed-out thread is still queued
when it is runnable (`MCPkKernelStaleWaiter`), and a post may wake that one
(`MCPkKernelLostPost`). `PostsTakeEffect` follows from `PendInv`: the priority it
takes from the queue is not in the run queue yet.

### PkTimer

`PkTimerProofs` proves `TimeQueueIsSound`, `Spec => []TimeQueueSound`, for any
timers, intervals, horizon and width of the decrementer, if no handler that
preempts the bottom half cancels (`MCPkTimerCancel` is what happens if one
does); threads and callbacks may schedule and cancel. The inductive invariant
`IInv` is `TimeQueueSound` with a stronger ring (`RingOK`): the backward links
also lead from every queued timer to the sentinel. An insertion is at the tail
and a deletion anywhere, so four lemmas about two link functions
(`PushKeepsRing`, `DeleteKeepsRing` and what they queue) serve every action.
What the walk has still to look at (`Unvisited`) is a least closed set, as the
ring has no order of its own; `AheadOfPushed`, `AheadOfDeleted` and
`AheadOfNext` say how it changes, so that a timer that leaves it has been
compared with `next_timeout`.

### OccIpc

`OccIpcProofs` proves, for any number of processors
and messages, any size of the buffers and any width of the counts that
`IpcAssumption` allows (a multiple of the size, more than three times as large;
the code has 8 slots, `ipc_structs.h:37`, and a byte):

| Theorem | Says |
| --- | --- |
| `IpcInvariant` | `Spec => []IpcInv` |
| `IpcTypeCorrect` | `Spec => []TypeOK` |
| `NoMessageStranded` | `Spec => []NoStrandedMessage` |
| `NoMissedMessage` | `Spec => []NoWaitWithMessage` |
| `BoundsInvariant` | `Spec => []BoundsInv` |
| `NoBufferOverrun` | `Spec => []BuffersBounded` |
| `BuffersAreFifo` | `Spec => FifoChannel`: the library implements `IpcChannel` |
| `MessageInOnePlace` | `Spec => []OnePlace` |

**The inductive invariants.** `NoStrandedMessage` speaks of processors outside
of their handler. `IpcInv` adds what is true inside: the handler works masked
(`HandlerIsMasked`), so does initialization, which the handler cannot preempt
(`ClosedIsMasked`), and once the handler has looked at the counts, a buffer
that is not empty is in the snapshot, is the one being drained, or has been
announced since (`WalkCovers`). The clear of the interrupt before the look at
the counts is what establishes the last one. `BuffersBounded` speaks of counts;
`BoundsInv` adds what a sender between `Sample` and `Store` knows: an open
buffer still has room, and a closed one is at exactly twice its size, so that
the store leaves it blocked. It needs `OneSender`, the mutual exclusion of
thread and handler by the critical section, which makes the two counts of a
buffer have one writer each.

**The argument.** Steps that touch neither counts nor announcements are done
once (`QuietStep`; `CalmStep` for the bounds), and most actions are instances.
The others have a lemma each. The wrap-around of the counts is in four lemmas
about differences modulo `CountMod` (`EntriesAfterStore` and its neighbours).

**The refinement.** `Contents(d, s)` reads a buffer from its read count on, each
slot at a count modulo the size. `SlotOfCount` and `SlotsDiffer` say that within
one round every count has a slot of its own, wrap-around of the counts included;
this is where the width must be a multiple of the size. From them `RingStore`
is an append, `RingTake` a tail, `RingOpen` an empty channel, and every action
is one of them or leaves all cells alone (`NextChannel`). A store appends a
message because a sender between `Sample` and `Store` has one
(`SendersHaveMessage`).

**One place.** `OnePlace` counts places. `PlaceInv` says the same without
counting: a sequence holds a message once (`OnceEach`), no two sequences or hands
hold the same one (`Apart`), and what a buffer or queue holds is in use, unless
its handler is about to free it (`InUse`). A step then either takes things away
(`ShrinkStep`) or moves one message from one hand to one place (`MoveStep`);
`PlacesCounted` goes back to cardinalities.

### SgpeStop

`SgpeStopProofs` proves, for any finite set of cores, any quads with cores of
their own, bounds and mixes:

| Theorem | Under | Says |
| --- | --- | --- |
| `StackIsBalanced` | any | `Spec => []NoStackPanic`: `panic` is neither `STACK_OVERFLOW` nor `STACK_UNDERFLOW` |
| `MaskIsRestored` | any | `Spec => []MasksRestored` |
| `SgpeTypeCorrect` | any | `Spec => []TypeOK` |
| `TypesHold` | any | `Spec => [](TypeInv /\ BlockedAsAsked /\ MaskInv)` |
| `PartnersHold` | `Regime` | `Spec => []PartnersInv` |
| `HandedOffWhenReady` | `Regime` | `Spec => []ReadyWhenHandedOff` |
| `QuadListsAgree` | `Regime` | `Spec => []ActiveQuadsAgree`, and `panic` is none of `BAD_QUAD_LIST`, `PHANTOM` and `RESCLK_ON` |
| `SgpeNeverHalts` | `Undisturbed` | `Spec => []NoPanic` |
| `PartnersDoAgree` | `Undisturbed` | `Spec => []PartnersAgree` |
| `SuspensionStays` | `NoThreadWindow` | `Spec => SuspendedStays` |

`Regime` closes the windows `special_entry` and `starved`, and if the OCC blocks
exits, it blocks one quad, and not one that is held awake. `NoThreadWindow` closes
`thread_start` as well. `Undisturbed` closes the two windows, and the OCC blocks
nothing. So `Regime` and `NoThreadWindow` admit the run `sgpe_stop`, and
`Undisturbed` those of its mixes that have no block. Each hypothesis is what the
code needs: section 4 names the windows, and a configuration or a remark for
each of them.

The inductive invariant `MaskInv` says who owns the entries of the stack: one
for the handler or for the thread it posted, and a second one for a handler
that preempts a thread, which is the IPC or type 2, as the thread keeps the
other types in the override (`OverrideFits`) and IPI3_LOW has the lowest
priority. So `Launch`, which may leave a mask to a thread, runs only when
there is none. There is one lemma for each way to go on (`MaskTo`,
`MaskToQuads`, `MaskHalts`), one for each place that pushes, pops or hands a
mask over, and the rest is `MaskQuiet`.

The types are more than that: `TypeInv` says that a vector of cores never
claims a core it has not (`Records`), and it needs `BlockedAsAsked`, as the
handlers of blocks and unblocks put what was asked into the state. A handler
reads the pending messages by a fold over their set, whose order the module
leaves open. What such a fold computes is proved without induction on an
operator: if some subset of the messages had a fold outside a set of records
that each step keeps, a least such subset would have (`MinimalSubset`), and its
fold is a step from a smaller one. So `ParsedFrame`, `UnblockedFrame` and their
like say, once for each fold, which vectors it may grow and which it leaves
alone.

**The quads.** `PartnersInv` is what makes a hand-over safe. It says where each
core of a quad is on its way through STOP11, although the SGPE learns of it by
packets only. `Packets2` and `Packets3` say what a packet that waits still tells
of its core, and `NotStale` that none of type 2 is left from before the core went
deeper. `Handed` is the hand-over itself. `QuadsAre`, `ClocksAre` and `RclkOff`
add when a quad is without power or without a resonant clock: when all its cores
are in STOP11 and nobody is waking one of them; `ClocksDone`, that a quad about to
lose its power has its clock off. `EntryJob` and `ExitJob` say what
the two threads have done of this and what is left, `ClockMessages` where the
request for the clock is, and `SpecialsAre` and `BlocksAre` which exceptions
the special wakeups and the blocks of the OCC make. With the lists of the PGPE
(`PgpeQuads`) this gives `ActiveQuadsAgree`, and `Sound` excludes three panics.

**The cores.** `PartnersAgree` and the last panic need more: a core may not be
entering and exiting at once when the packets are handled. `Known` says it:
every core that does not notify the SGPE is in `ACTIVE`, and so is one with an
exit under way. A block of exits breaks the second property, and not only in the
model: a core whose exit is held back, and whose CME sends a second wakeup between
its answer to the unblock and the SGPE's reading of it, is handed over and stays
among the blocked exits, which are released later. TLC shows it for one quad of
two cores (`BlockWhat = {"exit"}`, a mix of `pc` and `block`, `doorbell_pc`
open). So `Undisturbed` has no blocks; for one core to a quad TLC checks both
properties with blocks (`sgpe_stop`).

**The suspension.** `SuspendOrder` says how far a request to suspend has come
and when a thread can no longer start an entry or an exit; `CmesAsked`, that a
CME is asked only while the SGPE suspends; `AllStopped`, that after the answer
all quads with power are suspended and no exit has more to do than restore its
mask. The window of a posted thread is excluded because that thread goes on
(`MCSgpeStopThreadStart`).

### PgpeRequests

`PgpeRequestsProofs` proves, for any quads, cores, requests and scenarios:

| Theorem | Flags and faults | Says |
| --- | --- | --- |
| `NothingIsForgotten` | any | `Spec => []NothingForgotten` |
| `MasksAreBalanced` | any | `Spec => [](halted # "STACK_UNDERFLOW")` |
| `WofIsOffWhileStopped` | any | `Spec => []WofOnlyWhileStarted` |
| `EveryRequestAccounted` | none | `Spec => []RequestsAccounted` |
| `AnswersComeWhenServed` | none | `Spec => AnsweredWhenServed` |
| `StartsAreBetweenTransitions` | none | `Spec => []StartsBetweenTransitions` |
| `PgpeTypeCorrect` | any | `Spec => []TypeOK` |
| `DoorbellsGoToPoweredQuads` | none | `Spec => []ActiveQuadsArePowered` |
| `ListsOfUnitsAgree` | none | `Spec => []ListsAgree`, without WOF or with one quad |
| `PgpeDoesNotPanic` | none | `Spec => []NoPanic`, with `Patient` |

Where it says none, they assume `Flags = {}` and `Faults = {}`: a flag of the OCC
or a fault makes the PGPE answer what it has not served, and may leave the IPC
interrupt masked (`MCPgpeRequestsClosedForGood.cfg`). The other two hypotheses
are what the code needs too: with WOF and two quads an answer lacks the quad
that has yet to register (`MCPgpeRequestsWofList.cfg`), and an OCC that is not
patient makes the semaphore overflow (`MCPgpeRequestsOverflow.cfg`).

**The inductive invariants.** `ServeInv` follows the Process thread through its
pass over the table. What it has come by is served (`Passes`), a post that comes
during the pass is not lost (`Posts`), and so nothing is in the table when it
waits (`AtRest`). `MaskStack` says how many masks are pushed wherever the two
threads are: one for the interrupt that posted, if somebody is left to restore
it (`Closed`), and one for the section the thread is in. Whether the thread
restores one or two at the end of a pass depends on `semProcessSrc` and
`restoreProcess`; `Sources` ties both to the slots it has left pending.
`QuietInv` adds, without flags and faults, that the table and the wire are what
the senders wait for (`Accounts`) and that whoever leaves the interrupt masked
leaves a slot pending that opens it (`ClosedBack`). `QuadsInv` ties
`pendingActiveQuadUpdtDone` to the stage of the update the SGPE waits for.
`WofInv` is inductive by itself: it adds that Pstates are not stopped while the
thread waits for the answer to CTRL_STOP_UPDT.

`TypeInv` types the messages by what their slot carries, and the SGPE by a
record set, as `EXCEPT` on a record says nothing of a field whose type is not
known. `QuadLists` and `CoreLists` say where an update of the SGPE stands:
before the PGPE has read it (`Fresh`), read and held back for WOF (`Held`), or
answered. In each of them they say which of its quads may be in `activeQuads`
and `registering`, and what the answer may still contain. `Powered` is the part
that doorbells depend on; it holds with WOF because a quad leaves `activeQuads`
when its entry is read, whatever the OCC is asked then. Without WOF `NoWof` adds
that nothing changes the list between the request and its answer. The panics
need these lists, as the PGPE halts when a quad registers twice, and `Unposted`:
the post of START_STOP finds the semaphore at zero.

**The argument.** `NextWorkIs` says what a pass comes to next, `ServePass` what
a step of the pass has to show, `ServeServed` and `QuietServed` what the
service of a slot does to the table. Each action is then an instance, and what
the partners and the Actuate thread may do is in `PartnersAre`, `AcksAre` and
`ServeActuate`.

### CmePstate

| Theorem | Under | Says |
| --- | --- | --- |
| `CmeTypeCorrect` | none | `Spec => []TypeOK` |
| `ClockMovesLocked` | `QuadRegime` | `Spec => []LockedDuringAnalog` |
| `ExchangesEndClean` | `QuadRegime` | `Spec => []NothingLeftOver` |
| `NobodyPanics` | `QuadRegime` | `Spec => []NoPanic` |

All four hold for any Pstates, clips, operations and number of droops.

**The types.** `TypeOK` leaves out `todo`, and an argument of a step ends up in
a register, a record or a flag. So `TypeInv` types the steps of the three
processors by their kind (`Steps`), and `PlainSteps`, `LockScripts`, `PgpeSteps`
and their like say that whatever a handler puts into `todo` is made of such
steps. `Db3Written` is what TakeDb3 needs: a pending doorbell 3 has been
written, by one of the messages its handler knows.

**The regime.** `QuadRegime` closes the windows in which the code goes wrong:

| Conjunct | Without it |
| --- | --- |
| `~LateRetry` | `MCCmePstateLateRetry` breaks `LockedDuringAnalog` itself |
| `~WritesApart` | the sibling reads an old doorbell 0 and the two CMEs follow different scripts, or it panics (`MCCmePstateWritesApart`) |
| `WhileBooting \subseteq {"freq"}` | a stop or a droop while the quad boots leaves the quad manager in an exchange with nobody (`MCCmePstateStopWhileBooting`) |
| `HeartbeatLoss \subseteq {"active", "stopped"}` | the CMEs leave different exchanges for that of safe mode (`MCCmePstateHeartbeatWhileWaiting`) |

The run `cme_pstates` lies within it. So do overlapping signals
(`SignalsOverlap`), which lose a signal but do not start the clock too early,
and a PGPE that dies while Pstates are stopped.

**The inductive invariant.** `LockedDuringAnalog` speaks of one step of the quad
manager and one of the sibling. Why they meet depends on everything the three
processors have still to do, so `Kept` speaks of the three scripts:

* `Lines`: a signal or a message is pending only where its receiver will take
  it, and an answer only where its receiver waits;
* `Exchange`: the quad manager owes an answer only to a PGPE that waits or is
  about to, and doorbell 0 is pending on the CMEs for the exchange at hand;
* `Ticks`: a starvation counter runs only for an interrupt that is masked or
  will be served;
* `Boot`: while the quad boots the sibling expects exactly as many stops as
  the quad manager will still make (`LocksDue` equals `LocksLeft`);
* `Pairing`: both CMEs raise the last signal of an exchange for the same reason;
* `Standstill`: from the answer to its signal to the one that lets it go the
  sibling is in the loop that the signal caught it in;
* `Forms`: what may follow what in each script (`QForm`, `SForm`, `GForm`).

`Replies` adds to it, for `NoPanic`, what is said and not only when:

* `R1`: what the quad manager still has to do, or has pending, answers the PGPE
  with what it expects (`Expects`), and doorbell 0 holds a message it can act on
  (`Readable`): no START once Pstates are started, no STOP before;
* `R2`: an answer "suspended" that waits in a script has the step that stops
  Pstates before it;
* `R3`: the answer in OPIT4 is the one expected, or a refusal of an update that
  is still to be repeated;
* `R4`: the sibling has been told whatever the quad manager has;
* `R5`: the mode of the PGPE and the flag `ENABLED` of the quad manager agree but
  for the exchange that changes both;
* `PForm`: what may follow what in a script of the PGPE, answers included.

`Sides` adds that neither CME receives the signals of the other. `Forms` is what
makes the others inductive: a step that ends puts its successor in front, and
the facts about the successor must already be there.

**The argument.** Each action has a lemma, `Keeps...`, with a part for each
conjunct. A handler replaces `todo` by a script, whose form is shown from its
end with lemmas about one step put before a form. What an action does to the
signals is in a few lemmas (`SameSignals`, `Raising`, `Clearing`) that the
actions share. For `Replies` most actions are `Aside`: they touch neither
doorbell 0 nor the answers. The others are the `Replies...` lemmas, and where no
answer is due after a step of the PGPE (`Unawaited`) `NothingDue` gives `R1`. For `Boot`, `LocksAre` and `LocksTail` count the stops in a
script as a cardinality.

### What is only model-checked

All liveness, and whatever depends on ENABLED, which are beyond the prover.
`ListsAgree` and `NoPanic` of `PgpeRequests` under flags and faults; `NoPanic` and
`PartnersAgree` of `SgpeStop` while the OCC blocks quads; `FollowsPgpe` of
`CmePstate`. The plan names those to be proved.

## 6. What is not modelled

* The hardware sequence of a core's STOP entry and exit in the CME, with its
  abort points and the pairing of two cores; the SGPE's STOP8, its halted PGPE,
  `ctrl_stop_updates`, unsuspend and host attentions; PMCR forwarding.
* Answers of the PGPE that are late, in `SgpeStop`, and the CMEs, in
  `PgpeRequests`: each module has its partners as the other's code shows them.
* The error log, the trace buffer, the AVSBus driver and the STOP API image
  (plan, 9): no module yet.
* The 64-bit time base that `ppe42_core.c:92-104` accumulates from the
  decrementer: the model has one clock.
* `ipc_ping`, the static tables of IPC handlers, `ipc_set_handler`.
* Hardware procedures of STOP, boot loaders, I/O PPE firmware and block copy:
  straight-line sequences of register accesses with no state of their own.
* Host tools, generated headers, parameter blocks, the fapi2 layer.
