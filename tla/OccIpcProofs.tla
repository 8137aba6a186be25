---------------------------- MODULE OccIpcProofs ----------------------------
(***************************************************************************)
(* Theorems about OccIpc, for any number of processors and messages, any   *)
(* size of the buffers and width of the counts: types are kept, and no     *)
(* message is left in a buffer without an interrupt that announces it.     *)
(*                                                                         *)
(* NoStrandedMessage speaks of processors outside of their handler; what   *)
(* makes it inductive is what the handler knows inside: see WalkCovers.    *)
(***************************************************************************)
EXTENDS OccIpc, SequenceTheorems, FiniteSetTheorems, TLAPS

ClosedLabels == {"boot", "disabled", "cleared"}
WalkLabels == {"scan", "drain", "sample", "store", "raise"}

(* The handler works with its interrupt masked; so does ipc_init, and the  *)
(* handler does not run while it does.                                     *)
HandlerIsMasked ==
    \A p \in Procs : pc[p]["handler"] # "idle" => p \in masked
ClosedIsMasked ==
    \A p \in Procs :
        pc[p]["thread"] \in ClosedLabels =>
            p \in masked /\ pc[p]["handler"] = "idle"

(* Once the handler has looked at the counts, a buffer that is not empty   *)
(* is in its snapshot, is the one it drains, or has been announced since.  *)
WalkCovers ==
    \A d, s \in Procs :
        pc[d]["handler"] \in WalkLabels /\ reads[d][s] # writes[d][s] =>
            \/ s \in pending[d]
            \/ pc[d]["handler"] # "scan" /\ s = sender[d]
            \/ Announced(d, s)

(* A thread that has received a message has one.                           *)
ReceivedIsMessage ==
    \A p \in Procs :
        pc[p]["thread"] = "received" => frame[p]["thread"].msg \in Messages

IpcInv ==
    /\ TypeOK
    /\ ReceivedIsMessage
    /\ HandlerIsMasked
    /\ ClosedIsMasked
    /\ NoStrandedMessage
    /\ WalkCovers

-----------------------------------------------------------------------------
LEMMA ModType ==
    ASSUME NEW a \in Int, NEW n \in Nat \ {0}
    PROVE  a % n \in 0 .. n - 1
OBVIOUS

LEMMA CountModType == CountMod \in Nat \ {0}
BY IpcAssumption

LEMMA NextCount == \A k \in 0 .. CountMod - 1 : (k + 1) % CountMod \in 0 .. CountMod - 1
BY CountModType, ModType

LEMMA ProcsType == Procs \subseteq Nat
BY IpcAssumption

(* A step that touches neither counts nor interrupts, leaves the handlers  *)
(* where they are and every announcement that is due.                      *)
Quiet ==
    /\ UNCHANGED <<reads, writes, status, masked, pending, sender>>
    /\ \A p \in Procs : pc'[p]["handler"] = pc[p]["handler"]
    /\ \A p \in Procs :
          /\ pc'[p]["thread"] \in ClosedLabels =>
                pc[p]["thread"] \in ClosedLabels
          /\ pc'[p]["thread"] = "received" =>
                frame'[p]["thread"].msg \in Messages
    /\ \A p \in Procs, c \in Contexts :
          pc[p][c] = "raise" =>
              /\ pc'[p][c] = "raise"
              /\ frame'[p][c].target = frame[p][c].target

LEMMA QuietStep ==
    ASSUME IpcInv, Quiet, TypeOK'
    PROVE  IpcInv'
<1>1. \A d, s \in Procs : Announced(d, s) => Announced(d, s)'
  BY DEF Quiet, Announced
<1>2. HandlerIsMasked' /\ ClosedIsMasked'
  BY DEF IpcInv, Quiet, HandlerIsMasked, ClosedIsMasked
<1>5. ReceivedIsMessage'
  BY DEF Quiet, ReceivedIsMessage
<1>3. NoStrandedMessage'
  BY <1>1 DEF IpcInv, Quiet, NoStrandedMessage
<1>4. WalkCovers'
  BY <1>1 DEF IpcInv, Quiet, WalkCovers
<1>. QED  BY <1>2, <1>3, <1>4, <1>5 DEF IpcInv

LEMMA InitInv == Init => IpcInv
<1>. SUFFICES ASSUME Init PROVE IpcInv
  OBVIOUS
<1>. USE DEF Init
<1>1. TypeOK
  <2>1. reads \in [Procs -> [Procs -> 0 .. CountMod - 1]]
    BY CountModType
  <2>2. writes \in [Procs -> [Procs -> 0 .. CountMod - 1]]
    BY CountModType
  <2>3. cbufs \in [Procs -> [Procs ->
                     [0 .. IPC_CBUF_SIZE - 1 -> Messages \union {NULL}]]]
    OBVIOUS
  <2>4. /\ pc \in [Procs -> [Contexts -> ThreadLabels \union HandlerLabels]]
        /\ \A p \in Procs : /\ pc[p]["thread"] \in ThreadLabels
                            /\ pc[p]["handler"] \in HandlerLabels
    BY DEF Contexts, ThreadLabels, HandlerLabels
  <2>5. frame \in [Procs -> [Contexts ->
                 [msg : Messages \union {NULL}, target : Procs, call : Calls]]]
    BY DEF Frame, Calls
  <2>6. msg_sem \in [Procs -> 0 .. SemMod - 1]
    BY IpcAssumption
  <2>. QED  BY <2>1, <2>2, <2>3, <2>4, <2>5, <2>6 DEF TypeOK, Codes
<1>2. HandlerIsMasked /\ ClosedIsMasked /\ ReceivedIsMessage
  BY DEF HandlerIsMasked, ClosedIsMasked, ReceivedIsMessage, Contexts
<1>3. NoStrandedMessage /\ WalkCovers
  BY DEF NoStrandedMessage, WalkCovers
<1>. QED  BY <1>1, <1>2, <1>3 DEF IpcInv

-----------------------------------------------------------------------------
(* The part of TypeOK that every step touches.                             *)
PcType ==
    /\ pc \in [Procs -> [Contexts -> ThreadLabels \union HandlerLabels]]
    /\ \A p \in Procs : /\ pc[p]["thread"] \in ThreadLabels
                         /\ pc[p]["handler"] \in HandlerLabels
LabelsOf(c) == IF c = "thread" THEN ThreadLabels ELSE HandlerLabels
FrameType == frame \in [Procs -> [Contexts ->
                 [msg : Messages \union {NULL}, target : Procs, call : Calls]]]

LEMMA GotoType ==
    ASSUME TypeOK, NEW p \in Procs, NEW c \in Contexts,
           NEW label \in LabelsOf(c), Goto(p, c, label)
    PROVE  PcType'
BY DEF TypeOK, Goto, PcType, LabelsOf, Contexts

LEMMA GotoFields ==
    ASSUME TypeOK, NEW p \in Procs, NEW c \in Contexts, NEW label,
           Goto(p, c, label)
    PROVE  /\ pc'[p][c] = label
           /\ \A q \in Procs, e \in Contexts :
                 q # p \/ e # c => pc'[q][e] = pc[q][e]
BY DEF TypeOK, Goto

LEMMA SendsFields ==
    ASSUME TypeOK, NEW p \in Procs, NEW c \in Contexts, NEW m \in Messages,
           NEW d \in Procs, NEW k \in Calls,
           Sends(p, c, m, d, k)
    PROVE  /\ FrameType'
           /\ \A q \in Procs, e \in Contexts :
                 q # p \/ e # c => frame'[q][e] = frame[q][e]
BY DEF TypeOK, Sends, FrameType, Frame

LEMMA HoldsFields ==
    ASSUME TypeOK, NEW p \in Procs, NEW c \in Contexts, NEW m \in Messages,
           Holds(p, c, m)
    PROVE  /\ FrameType'
           /\ frame'[p][c].msg = m
           /\ \A q \in Procs, e \in Contexts :
                 q # p \/ e # c => frame'[q][e] = frame[q][e]
BY DEF TypeOK, Holds, FrameType, Frame, Calls

LEMMA AfterSendType ==
    ASSUME NEW p \in Procs, NEW c \in Contexts, NEW code \in Codes
    PROVE  AfterSend(p, c, code) \in LabelsOf(c)
BY DEF AfterSend, LabelsOf, Contexts, ThreadLabels, HandlerLabels

(* A step of the thread of p that goes to a label which is not that of     *)
(* initialization, from one at which nothing is about to be announced.     *)
LEMMA ThreadQuiet ==
    ASSUME IpcInv, NEW p \in Procs, NEW label \in ThreadLabels \ ClosedLabels,
           UNCHANGED <<reads, writes, status, masked, pending, sender>>,
           Goto(p, "thread", label), pc[p]["thread"] # "raise",
           \A q \in Procs, e \in Contexts :
              q # p \/ e # "thread" => frame'[q][e] = frame[q][e],
           label = "received" => frame'[p]["thread"].msg \in Messages,
           TypeOK'
    PROVE  IpcInv'
<1>1. /\ pc'[p]["thread"] = label
      /\ \A q \in Procs, e \in Contexts :
            q # p \/ e # "thread" => pc'[q][e] = pc[q][e]
  BY GotoFields DEF IpcInv, Contexts
<1>2. Quiet
  BY <1>1 DEF Quiet, Contexts, IpcInv, ReceivedIsMessage
<1>. QED  BY <1>2, QuietStep

-----------------------------------------------------------------------------
(* The calls of a thread that leave the counts alone.                      *)
LEMMA SendCmdStep ==
    ASSUME IpcInv, NEW p \in Procs, NEW m \in Messages, SendCmd(p, m)
    PROVE  IpcInv'
<1>. USE DEF SendCmd
<1>1. Target[m] \in Procs
  BY IpcAssumption
<1>2. /\ FrameType'
      /\ \A q \in Procs, e \in Contexts :
            q # p \/ e # "thread" => frame'[q][e] = frame[q][e]
  BY <1>1, SendsFields DEF IpcInv, Contexts, Calls
<1>3. PcType'
  BY GotoType DEF IpcInv, Contexts, LabelsOf, ThreadLabels
<1>4. TypeOK'
  BY <1>2, <1>3 DEF IpcInv, TypeOK, PcType, FrameType, bufVars, irqVars,
                    handlerVars, queueVars, Codes
<1>5. pc[p]["thread"] # "raise"
  BY DEF At
<1>. QED  BY <1>2, <1>4, <1>5, ThreadQuiet
          DEF bufVars, irqVars, handlerVars, ThreadLabels, ClosedLabels

LEMMA SendCmdReturnStep ==
    ASSUME IpcInv, NEW p \in Procs, SendCmdReturn(p)
    PROVE  IpcInv'
<1>. USE DEF SendCmdReturn
<1>1. PcType'
  BY GotoType DEF IpcInv, Contexts, LabelsOf, ThreadLabels
<1>2. TypeOK'
  BY <1>1 DEF IpcInv, TypeOK, PcType, bufVars, irqVars, handlerVars, queueVars
<1>3. pc[p]["thread"] # "raise"
  BY DEF At, Codes
<1>. QED  BY <1>2, <1>3, ThreadQuiet
          DEF bufVars, irqVars, handlerVars, ThreadLabels, ClosedLabels

LEMMA RecvStep ==
    ASSUME IpcInv, NEW p \in Procs, Recv(p)
    PROVE  IpcInv'
<1>. USE DEF Recv
<1>1. pc[p]["thread"] = "run"
  BY DEF At
<1>2. CASE /\ msgq[p] # <<>>
           /\ Holds(p, "thread", Head(msgq[p]))
           /\ msgq' = [msgq EXCEPT ![p] = Tail(@)]
           /\ Goto(p, "thread", "received")
           /\ UNCHANGED msg_sem
  <2>1. /\ Head(msgq[p]) \in Messages
        /\ Tail(msgq[p]) \in Seq(Messages)
    BY <1>2 DEF IpcInv, TypeOK
  <2>2. /\ FrameType'
        /\ \A q \in Procs, e \in Contexts :
              q # p \/ e # "thread" => frame'[q][e] = frame[q][e]
    BY <1>2, <2>1, HoldsFields DEF IpcInv, Contexts
  <2>5. frame'[p]["thread"].msg \in Messages
    BY <1>2, <2>1, HoldsFields DEF IpcInv, Contexts
  <2>3. PcType'
    BY <1>2, GotoType DEF IpcInv, Contexts, LabelsOf, ThreadLabels
  <2>4. TypeOK'
    BY <1>2, <2>1, <2>2, <2>3
       DEF IpcInv, TypeOK, PcType, FrameType, bufVars, irqVars, msgVars,
           handlerVars
  <2>. QED  BY <1>1, <1>2, <2>2, <2>4, <2>5, ThreadQuiet
            DEF bufVars, irqVars, handlerVars, ThreadLabels, ClosedLabels
<1>3. CASE /\ msgq[p] = <<>> /\ msg_sem[p] > 0
           /\ msg_sem' = [msg_sem EXCEPT ![p] = @ - 1]
           /\ Goto(p, "thread", "woken")
           /\ UNCHANGED <<frame, msgq>>
  <2>1. PcType'
    BY <1>3, GotoType DEF IpcInv, Contexts, LabelsOf, ThreadLabels
  <2>2. msg_sem' \in [Procs -> 0 .. SemMod - 1]
    BY <1>3, IpcAssumption, SMTT(60) DEF IpcInv, TypeOK
  <2>3. TypeOK'
    BY <1>3, <2>1, <2>2 DEF IpcInv, TypeOK, PcType, bufVars, irqVars, msgVars,
                            handlerVars
  <2>. QED  BY <1>1, <1>3, <2>3, ThreadQuiet
            DEF bufVars, irqVars, handlerVars, ThreadLabels, ClosedLabels
<1>4. CASE /\ msgq[p] = <<>> /\ msg_sem[p] = 0
           /\ Goto(p, "thread", "pend")
           /\ UNCHANGED <<frame, queueVars>>
  <2>1. PcType'
    BY <1>4, GotoType DEF IpcInv, Contexts, LabelsOf, ThreadLabels
  <2>2. TypeOK'
    BY <1>4, <2>1 DEF IpcInv, TypeOK, PcType, bufVars, irqVars, msgVars,
                      handlerVars, queueVars
  <2>. QED  BY <1>1, <1>4, <2>2, ThreadQuiet
            DEF bufVars, irqVars, handlerVars, ThreadLabels, ClosedLabels
<1>. QED  BY <1>2, <1>3, <1>4

LEMMA RecvTimeoutStep ==
    ASSUME IpcInv, NEW p \in Procs, RecvTimeout(p)
    PROVE  IpcInv'
<1>. USE DEF RecvTimeout
<1>1. PcType'
  BY GotoType DEF IpcInv, Contexts, LabelsOf, ThreadLabels
<1>2. TypeOK'
  BY <1>1 DEF IpcInv, TypeOK, PcType, bufVars, irqVars, msgVars, handlerVars,
              queueVars
<1>3. pc[p]["thread"] # "raise"
  BY DEF At
<1>. QED  BY <1>2, <1>3, ThreadQuiet
          DEF bufVars, irqVars, handlerVars, ThreadLabels, ClosedLabels

LEMMA RecvWokenStep ==
    ASSUME IpcInv, NEW p \in Procs, RecvWoken(p)
    PROVE  IpcInv'
<1>. USE DEF RecvWoken
<1>1. pc[p]["thread"] = "woken"
  BY DEF At
<1>2. CASE msgq[p] = <<>>
  <2>1. PcType'
    BY <1>2, GotoType DEF IpcInv, Contexts, LabelsOf, ThreadLabels
  <2>2. TypeOK'
    BY <1>2, <2>1 DEF IpcInv, TypeOK, PcType, bufVars, irqVars, msgVars,
                      handlerVars
  <2>. QED  BY <1>1, <1>2, <2>2, ThreadQuiet
            DEF bufVars, irqVars, handlerVars, ThreadLabels, ClosedLabels
<1>3. CASE msgq[p] # <<>>
  <2>1. /\ Head(msgq[p]) \in Messages
        /\ Tail(msgq[p]) \in Seq(Messages)
    BY <1>3 DEF IpcInv, TypeOK
  <2>2. /\ FrameType'
        /\ frame'[p]["thread"].msg \in Messages
        /\ \A q \in Procs, e \in Contexts :
              q # p \/ e # "thread" => frame'[q][e] = frame[q][e]
    BY <1>3, <2>1, HoldsFields DEF IpcInv, Contexts
  <2>3. PcType'
    BY <1>3, GotoType DEF IpcInv, Contexts, LabelsOf, ThreadLabels
  <2>4. TypeOK'
    BY <1>3, <2>1, <2>2, <2>3, ZenonT(60)
       DEF IpcInv, TypeOK, PcType, FrameType, bufVars, irqVars, msgVars,
           handlerVars
  <2>. QED  BY <1>1, <1>3, <2>2, <2>4, ThreadQuiet
            DEF bufVars, irqVars, handlerVars, ThreadLabels, ClosedLabels
<1>. QED  BY <1>2, <1>3

LEMMA ReleaseStep ==
    ASSUME IpcInv, NEW p \in Procs, Release(p)
    PROVE  IpcInv'
<1>. USE DEF Release
<1>1. PcType'
  BY GotoType DEF IpcInv, Contexts, LabelsOf, ThreadLabels
<1>2. TypeOK'
  BY <1>1 DEF IpcInv, TypeOK, PcType, bufVars, irqVars, handlerVars, queueVars
<1>3. pc[p]["thread"] # "raise"
  BY DEF At
<1>. QED  BY <1>2, <1>3, ThreadQuiet
          DEF bufVars, irqVars, handlerVars, ThreadLabels, ClosedLabels

LEMMA RespondStep ==
    ASSUME IpcInv, NEW p \in Procs, Respond(p)
    PROVE  IpcInv'
<1>. DEFINE m == frame[p]["thread"].msg
<1>. USE DEF Respond
<1>1. pc[p]["thread"] = "received"
  BY DEF At
<1>2. CASE active[m]
  <2>1. PICK code \in Answers : SendRsp(p, "thread", m, code)
    BY <1>2
  <2>2. m \in Messages /\ Owner[m] \in Procs /\ code \in Codes
    BY <1>1, IpcAssumption DEF IpcInv, ReceivedIsMessage
  <2>3. /\ FrameType'
        /\ \A q \in Procs, e \in Contexts :
              q # p \/ e # "thread" => frame'[q][e] = frame[q][e]
    BY <2>1, <2>2, SendsFields DEF SendRsp, IpcInv, Contexts, Calls
  <2>4. PcType'
    BY <2>1, GotoType DEF SendRsp, IpcInv, Contexts, LabelsOf, ThreadLabels
  <2>5. TypeOK'
    BY <2>1, <2>2, <2>3, <2>4
       DEF SendRsp, IpcInv, TypeOK, PcType, FrameType, bufVars, irqVars,
           handlerVars, queueVars
  <2>. QED  BY <1>1, <2>1, <2>3, <2>5, ThreadQuiet
            DEF SendRsp, bufVars, irqVars, handlerVars, ThreadLabels,
                ClosedLabels
<1>3. CASE ~active[m]
  <2>1. PcType'
    BY <1>3, GotoType DEF IpcInv, Contexts, LabelsOf, ThreadLabels
  <2>2. TypeOK'
    BY <1>3, <2>1 DEF IpcInv, TypeOK, PcType, bufVars, irqVars, msgVars,
                      handlerVars, queueVars
  <2>. QED  BY <1>1, <1>3, <2>2, ThreadQuiet
            DEF bufVars, irqVars, handlerVars, ThreadLabels, ClosedLabels
<1>. QED  BY <1>2, <1>3

-----------------------------------------------------------------------------
(* A step of the handler of p that stays with the buffer it drains.        *)
LEMMA WalkStep ==
    ASSUME IpcInv, NEW p \in Procs,
           pc[p]["handler"] \in {"drain", "sample"},
           pc'[p]["handler"] \in {"drain", "sample", "store"},
           UNCHANGED <<writes, status, masked, pending, sender>>,
           \A d, s \in Procs :
              d # p \/ s # sender[p] => reads'[d][s] = reads[d][s],
           \A q \in Procs :
              \/ pc'[q]["thread"] = pc[q]["thread"]
              \/ pc[q]["thread"] = "pend" /\ pc'[q]["thread"] = "woken",
           \A q \in Procs : q # p => pc'[q]["handler"] = pc[q]["handler"],
           \A q \in Procs, e \in Contexts :
              q # p \/ e # "handler" => frame'[q][e] = frame[q][e],
           TypeOK'
    PROVE  IpcInv'
<1>1. \A d, s \in Procs : Announced(d, s) => Announced(d, s)'
  BY DEF Announced, Contexts
<1>2. HandlerIsMasked' /\ ClosedIsMasked' /\ ReceivedIsMessage'
  BY DEF IpcInv, HandlerIsMasked, ClosedIsMasked, ReceivedIsMessage,
         ClosedLabels, Contexts
<1>3. NoStrandedMessage'
  BY <1>1 DEF IpcInv, NoStrandedMessage
<1>4. WalkCovers'
  BY <1>1 DEF IpcInv, WalkCovers, WalkLabels
<1>. QED  BY <1>1, <1>2, <1>3, <1>4 DEF IpcInv

(* ipc_send_msg, from the thread or from the handler.                      *)
LEMMA SampleStep ==
    ASSUME IpcInv, NEW p \in Procs, NEW c \in Contexts, Sample(p, c)
    PROVE  IpcInv'
<1>. USE DEF Sample
<1>1. PICK label \in {"store", AfterSend(p, c, "IPC_RC_BUFFER_FULL"),
                      AfterSend(p, c, "IPC_RC_TARGET_BLOCKED")} :
             Goto(p, c, label)
  OBVIOUS
<1>2. label \in LabelsOf(c) \ (ClosedLabels \union {"received"})
  BY DEF AfterSend, Codes, LabelsOf, ThreadLabels, HandlerLabels,
         ClosedLabels, Contexts
<1>3. c = "handler" => label \in {"store", "drain"}
  BY DEF AfterSend
<1>4. PcType'
  BY <1>1, <1>2, GotoType DEF IpcInv
<1>5. TypeOK'
  BY <1>4 DEF IpcInv, TypeOK, PcType, bufVars, irqVars, msgVars, handlerVars,
              queueVars
<1>6. pc[p][c] = "sample"
  BY DEF At
<1>7. CASE c = "thread"
  BY <1>1, <1>2, <1>5, <1>6, <1>7, ThreadQuiet
     DEF bufVars, irqVars, handlerVars, LabelsOf
<1>8. CASE c = "handler"
  <2>1. /\ pc'[p]["handler"] = label
        /\ \A q \in Procs, e \in Contexts :
              q # p \/ e # "handler" => pc'[q][e] = pc[q][e]
    BY <1>1, <1>8, GotoFields DEF IpcInv
  <2>. QED  BY <1>3, <1>5, <1>6, <1>8, <2>1, WalkStep
            DEF bufVars, irqVars, handlerVars, Contexts
<1>. QED  BY <1>7, <1>8 DEF Contexts

LEMMA StoreStep ==
    ASSUME IpcInv, NEW p \in Procs, NEW c \in Contexts, Store(p, c)
    PROVE  IpcInv'
<1>0. /\ frame[p][c].target \in Procs
      /\ frame[p][c].msg \in Messages \union {NULL}
      /\ \A q \in Procs : writes[q][p] \in 0 .. CountMod - 1
  <2>1. /\ frame[p][c] \in [msg : Messages \union {NULL}, target : Procs, call : Calls]
        /\ writes \in [Procs -> [Procs -> 0 .. CountMod - 1]]
    BY DEF IpcInv, TypeOK
  <2>. QED  BY <2>1
<1>1. PICK d \in Procs : d = frame[p][c].target
  BY <1>0
<1>. DEFINE m == frame[p][c].msg
            w == (writes[d][p] + 1) % CountMod
            i == writes[d][p] % IPC_CBUF_SIZE
<1>2. /\ pc[p][c] = "store" /\ Goto(p, c, "raise")
      /\ active' = [active EXCEPT ![m] = TRUE]
      /\ cbufs' = [cbufs EXCEPT ![d][p][i] = m]
      /\ writes' = [writes EXCEPT ![d][p] = w]
      /\ UNCHANGED <<reads, irqVars, ipc_enabled, response, ipc_rc, answer,
                     frame, handlerVars, queueVars>>
  BY <1>1 DEF Store, At
<1>3. /\ pc'[p][c] = "raise"
      /\ \A q \in Procs, e \in Contexts :
            q # p \/ e # c => pc'[q][e] = pc[q][e]
  BY <1>2, GotoFields DEF IpcInv
<1>4. /\ m \in Messages \union {NULL}
      /\ writes[d][p] \in 0 .. CountMod - 1
  BY <1>0
<1>5. w \in 0 .. CountMod - 1
  BY <1>4, NextCount
<1>. HIDE DEF m, w, i
<1>6. TypeOK'
  <2>1. PcType'
    BY <1>2, GotoType DEF IpcInv, Contexts, LabelsOf, ThreadLabels, HandlerLabels
  <2>2. writes' \in [Procs -> [Procs -> 0 .. CountMod - 1]]
    BY <1>2, <1>5 DEF IpcInv, TypeOK
  <2>3. cbufs' \in [Procs -> [Procs ->
                      [0 .. IPC_CBUF_SIZE - 1 -> Messages \union {NULL}]]]
    BY <1>2, <1>4, ZenonT(90) DEF IpcInv, TypeOK
  <2>4. active' \in [Messages -> BOOLEAN]
    BY <1>2 DEF IpcInv, TypeOK
  <2>. QED  BY <1>2, <2>1, <2>2, <2>3, <2>4
            DEF IpcInv, TypeOK, PcType, irqVars, handlerVars, queueVars
<1>7. /\ Announced(d, p)'
      /\ \A e, s \in Procs : Announced(e, s) => Announced(e, s)'
  BY <1>1, <1>2, <1>3 DEF Announced, irqVars
<1>8. \A e, s \in Procs : e # d \/ s # p => writes'[e][s] = writes[e][s]
  BY <1>2 DEF IpcInv, TypeOK
<1>9. HandlerIsMasked' /\ ClosedIsMasked' /\ ReceivedIsMessage'
  BY <1>2, <1>3 DEF IpcInv, HandlerIsMasked, ClosedIsMasked, ReceivedIsMessage,
                    ClosedLabels, Contexts, irqVars
<1>10. NoStrandedMessage'
  <2>. SUFFICES ASSUME NEW e \in Procs, NEW s \in Procs, e # d \/ s # p,
                       e \notin masked, pc'[e]["handler"] = "idle",
                       reads[e][s] # writes[e][s]
                PROVE  Announced(e, s)
    BY <1>2, <1>7, <1>8 DEF NoStrandedMessage, irqVars
  <2>1. pc[e]["handler"] = "idle"
    BY <1>3 DEF Contexts
  <2>. QED  BY <2>1 DEF IpcInv, NoStrandedMessage
<1>11. WalkCovers'
  BY <1>2, <1>3, <1>7, <1>8
     DEF IpcInv, WalkCovers, WalkLabels, Contexts, handlerVars
<1>. QED  BY <1>6, <1>9, <1>10, <1>11 DEF IpcInv

LEMMA RaiseStep ==
    ASSUME IpcInv, NEW p \in Procs, NEW c \in Contexts, Raise(p, c)
    PROVE  IpcInv'
<1>. DEFINE label == AfterSend(p, c, "IPC_RC_SUCCESS")
<1>. USE DEF Raise
<1>1. /\ pc[p][c] = "raise"
      /\ pc'[p][c] = label
      /\ \A q \in Procs, e \in Contexts :
            q # p \/ e # c => pc'[q][e] = pc[q][e]
  BY GotoFields DEF At, IpcInv
<1>2. /\ label \in LabelsOf(c) \ (ClosedLabels \union {"received"})
      /\ c = "handler" => label = "drain"
  BY DEF AfterSend, Codes, LabelsOf, ThreadLabels, HandlerLabels,
         ClosedLabels, Contexts
<1>3. TypeOK'
  <2>1. PcType'
    BY <1>2, GotoType DEF IpcInv
  <2>2. status' \subseteq Procs
    BY DEF IpcInv, TypeOK
  <2>. QED  BY <2>1, <2>2
            DEF IpcInv, TypeOK, PcType, bufVars, msgVars, handlerVars,
                queueVars
<1>4. \A e, s \in Procs : Announced(e, s) => Announced(e, s)'
  BY <1>1 DEF Announced
<1>5. HandlerIsMasked' /\ ClosedIsMasked' /\ ReceivedIsMessage'
  BY <1>1, <1>2 DEF IpcInv, HandlerIsMasked, ClosedIsMasked,
              ReceivedIsMessage, Contexts
<1>6. NoStrandedMessage'
  BY <1>1, <1>2, <1>4 DEF IpcInv, NoStrandedMessage, Contexts, bufVars
<1>7. WalkCovers'
  BY <1>1, <1>2, <1>4
     DEF IpcInv, WalkCovers, WalkLabels, Contexts, bufVars, handlerVars
<1>. QED  BY <1>3, <1>5, <1>6, <1>7 DEF IpcInv

-----------------------------------------------------------------------------
(* ipc_disable and ipc_enable.                                             *)
LEMMA DisableStep ==
    ASSUME IpcInv, NEW p \in Procs, Disable(p)
    PROVE  IpcInv'
<1>. USE DEF Disable
<1>1. /\ pc[p]["thread"] \in {"boot", "run"}
      /\ pc[p]["handler"] = "idle"
      /\ pc'[p]["thread"] = "disabled"
      /\ \A q \in Procs, e \in Contexts :
            q # p \/ e # "thread" => pc'[q][e] = pc[q][e]
  BY GotoFields DEF At, CanRun, IpcInv, Contexts
<1>2. TypeOK'
  <2>1. PcType'
    BY GotoType DEF IpcInv, Contexts, LabelsOf, ThreadLabels
  <2>2. \A s \in Procs :
           (writes[p][s] - 2 * IPC_CBUF_SIZE) % CountMod \in 0 .. CountMod - 1
    <3>1. \A s \in Procs : writes[p][s] - 2 * IPC_CBUF_SIZE \in Int
      BY IpcAssumption, CountModType, SMTT(60) DEF IpcInv, TypeOK
    <3>. QED  BY <3>1, CountModType, ModType
  <2>3. reads' \in [Procs -> [Procs -> 0 .. CountMod - 1]]
    BY <2>2 DEF IpcInv, TypeOK
  <2>4. masked' \subseteq Procs /\ ipc_enabled' \subseteq Procs
    BY DEF IpcInv, TypeOK
  <2>. QED  BY <2>1, <2>3, <2>4
            DEF IpcInv, TypeOK, PcType, msgVars, handlerVars, queueVars
<1>3. \A e, s \in Procs : Announced(e, s) => Announced(e, s)'
  BY <1>1 DEF Announced, Contexts
<1>4. \A e, s \in Procs : e # p => reads'[e][s] = reads[e][s]
  BY DEF IpcInv, TypeOK
<1>5. HandlerIsMasked' /\ ClosedIsMasked' /\ ReceivedIsMessage'
  BY <1>1 DEF IpcInv, HandlerIsMasked, ClosedIsMasked, ReceivedIsMessage,
              Contexts
<1>6. NoStrandedMessage'
  BY <1>1, <1>3, <1>4 DEF IpcInv, NoStrandedMessage, Contexts
<1>7. WalkCovers'
  BY <1>1, <1>3, <1>4 DEF IpcInv, WalkCovers, WalkLabels, Contexts, handlerVars
<1>. QED  BY <1>2, <1>5, <1>6, <1>7 DEF IpcInv

LEMMA EnableClearStep ==
    ASSUME IpcInv, NEW p \in Procs, EnableClear(p)
    PROVE  IpcInv'
<1>. USE DEF EnableClear
<1>1. /\ pc[p]["thread"] = "disabled"
      /\ pc'[p]["thread"] = "cleared"
      /\ \A q \in Procs, e \in Contexts :
            q # p \/ e # "thread" => pc'[q][e] = pc[q][e]
  BY GotoFields DEF At, IpcInv, Contexts
<1>2. p \in masked /\ pc[p]["handler"] = "idle"
  BY <1>1 DEF IpcInv, ClosedIsMasked, ClosedLabels
<1>3. TypeOK'
  <2>1. PcType'
    BY GotoType DEF IpcInv, Contexts, LabelsOf, ThreadLabels
  <2>. QED  BY <2>1 DEF IpcInv, TypeOK, PcType, bufVars, msgVars, handlerVars,
                        queueVars
<1>4. \A e, s \in Procs : e # p /\ Announced(e, s) => Announced(e, s)'
  BY <1>1 DEF Announced, Contexts
<1>5. HandlerIsMasked' /\ ClosedIsMasked' /\ ReceivedIsMessage'
  BY <1>1, <1>2 DEF IpcInv, HandlerIsMasked, ClosedIsMasked,
                    ReceivedIsMessage, Contexts, ClosedLabels
<1>6. NoStrandedMessage'
  BY <1>1, <1>2, <1>4 DEF IpcInv, NoStrandedMessage, Contexts, bufVars
<1>7. WalkCovers'
  BY <1>1, <1>2, <1>4
     DEF IpcInv, WalkCovers, WalkLabels, Contexts, bufVars, handlerVars
<1>. QED  BY <1>3, <1>5, <1>6, <1>7 DEF IpcInv

LEMMA EnableOpenStep ==
    ASSUME IpcInv, NEW p \in Procs, EnableOpen(p)
    PROVE  IpcInv'
<1>. USE DEF EnableOpen
<1>1. /\ pc[p]["thread"] = "cleared"
      /\ pc'[p]["thread"] = "run"
      /\ \A q \in Procs, e \in Contexts :
            q # p \/ e # "thread" => pc'[q][e] = pc[q][e]
  BY GotoFields DEF At, IpcInv, Contexts
<1>2. pc[p]["handler"] = "idle"
  BY <1>1 DEF IpcInv, ClosedIsMasked, ClosedLabels
<1>3. TypeOK'
  <2>1. PcType'
    BY GotoType DEF IpcInv, Contexts, LabelsOf, ThreadLabels
  <2>. QED  BY <2>1 DEF IpcInv, TypeOK, PcType, msgVars, handlerVars, queueVars
<1>4. \A e, s \in Procs : Announced(e, s) => Announced(e, s)'
  BY <1>1 DEF Announced, Contexts
<1>5. /\ \A s \in Procs : reads'[p][s] = writes'[p][s]
      /\ \A e, s \in Procs : e # p => reads'[e][s] = reads[e][s]
  BY DEF IpcInv, TypeOK
<1>6. HandlerIsMasked' /\ ClosedIsMasked' /\ ReceivedIsMessage'
  BY <1>1, <1>2 DEF IpcInv, HandlerIsMasked, ClosedIsMasked,
                    ReceivedIsMessage, Contexts, ClosedLabels
<1>7. NoStrandedMessage'
  BY <1>1, <1>4, <1>5 DEF IpcInv, NoStrandedMessage, Contexts
<1>8. WalkCovers'
  BY <1>1, <1>2, <1>4, <1>5
     DEF IpcInv, WalkCovers, WalkLabels, Contexts, handlerVars
<1>. QED  BY <1>3, <1>6, <1>7, <1>8 DEF IpcInv

-----------------------------------------------------------------------------
(* ipc_irq_handler.                                                        *)
LEMMA HandlerEnterStep ==
    ASSUME IpcInv, NEW p \in Procs, HandlerEnter(p)
    PROVE  IpcInv'
<1>. USE DEF HandlerEnter
<1>1. /\ pc[p]["handler"] = "idle" /\ p \notin masked
      /\ pc'[p]["handler"] = "snapshot"
      /\ \A q \in Procs, e \in Contexts :
            q # p \/ e # "handler" => pc'[q][e] = pc[q][e]
  BY GotoFields DEF IpcInv, Contexts
<1>2. TypeOK'
  <2>1. PcType'
    BY GotoType DEF IpcInv, Contexts, LabelsOf, HandlerLabels
  <2>. QED  BY <2>1 DEF IpcInv, TypeOK, PcType, bufVars, msgVars, handlerVars,
                        queueVars
<1>3. \A e, s \in Procs : e # p /\ Announced(e, s) => Announced(e, s)'
  BY <1>1 DEF Announced, Contexts
<1>4. HandlerIsMasked' /\ ClosedIsMasked' /\ ReceivedIsMessage'
  BY <1>1 DEF IpcInv, HandlerIsMasked, ClosedIsMasked, ReceivedIsMessage,
              Contexts
<1>5. NoStrandedMessage'
  BY <1>1, <1>3 DEF IpcInv, NoStrandedMessage, Contexts, bufVars
<1>6. WalkCovers'
  BY <1>1, <1>3
     DEF IpcInv, WalkCovers, WalkLabels, Contexts, bufVars, handlerVars
<1>. QED  BY <1>2, <1>4, <1>5, <1>6 DEF IpcInv

LEMMA HandlerSnapshotStep ==
    ASSUME IpcInv, NEW p \in Procs, HandlerSnapshot(p)
    PROVE  IpcInv'
<1>. USE DEF HandlerSnapshot
<1>1. /\ pc[p]["handler"] = "snapshot"
      /\ pc'[p]["handler"] = "scan"
      /\ \A q \in Procs, e \in Contexts :
            q # p \/ e # "handler" => pc'[q][e] = pc[q][e]
  BY GotoFields DEF IpcInv, Contexts, At
<1>2. TypeOK'
  <2>1. PcType'
    BY GotoType DEF IpcInv, Contexts, LabelsOf, HandlerLabels
  <2>. QED  BY <2>1 DEF IpcInv, TypeOK, PcType, bufVars, irqVars, msgVars,
                        queueVars
<1>3. \A e, s \in Procs : Announced(e, s) => Announced(e, s)'
  BY <1>1 DEF Announced, Contexts, irqVars
<1>4. /\ \A s \in Procs : reads[p][s] # writes[p][s] => s \in pending'[p]
      /\ \A q \in Procs : q # p => pending'[q] = pending[q]
  BY DEF IpcInv, TypeOK
<1>5. HandlerIsMasked' /\ ClosedIsMasked' /\ ReceivedIsMessage'
  BY <1>1 DEF IpcInv, HandlerIsMasked, ClosedIsMasked, ReceivedIsMessage,
              Contexts, irqVars
<1>6. NoStrandedMessage'
  BY <1>1, <1>3 DEF IpcInv, NoStrandedMessage, Contexts, bufVars, irqVars
<1>7. WalkCovers'
  BY <1>1, <1>3, <1>4 DEF IpcInv, WalkCovers, WalkLabels, Contexts, bufVars
<1>. QED  BY <1>2, <1>5, <1>6, <1>7 DEF IpcInv

LEMMA HandlerScanStep ==
    ASSUME IpcInv, NEW p \in Procs, HandlerScan(p)
    PROVE  IpcInv'
<1>. USE DEF HandlerScan
<1>1. /\ pc[p]["handler"] = "scan"
      /\ pc'[p]["handler"] = "drain"
      /\ \A q \in Procs, e \in Contexts :
            q # p \/ e # "handler" => pc'[q][e] = pc[q][e]
  BY GotoFields DEF IpcInv, Contexts, At
<1>2. PICK s \in pending[p] :
             /\ sender' = [sender EXCEPT ![p] = s]
             /\ pending' = [pending EXCEPT ![p] = @ \ {s}]
  OBVIOUS
<1>3. TypeOK'
  <2>1. PcType'
    BY GotoType DEF IpcInv, Contexts, LabelsOf, HandlerLabels
  <2>2. s \in Procs
    BY DEF IpcInv, TypeOK
  <2>3. /\ pending' \in [Procs -> SUBSET Procs]
        /\ sender' \in [Procs -> Procs]
    BY <1>2, <2>2 DEF IpcInv, TypeOK
  <2>. QED  BY <2>1, <2>3 DEF IpcInv, TypeOK, PcType, bufVars, irqVars,
                              msgVars, queueVars
<1>4. \A e, r \in Procs : Announced(e, r) => Announced(e, r)'
  BY <1>1 DEF Announced, Contexts, irqVars
<1>5. /\ sender'[p] = s /\ pending'[p] = pending[p] \ {s}
      /\ \A q \in Procs :
            q # p => pending'[q] = pending[q] /\ sender'[q] = sender[q]
  BY <1>2 DEF IpcInv, TypeOK
<1>6. HandlerIsMasked' /\ ClosedIsMasked' /\ ReceivedIsMessage'
  BY <1>1 DEF IpcInv, HandlerIsMasked, ClosedIsMasked, ReceivedIsMessage,
              Contexts, irqVars
<1>7. NoStrandedMessage'
  BY <1>1, <1>4 DEF IpcInv, NoStrandedMessage, Contexts, bufVars, irqVars
<1>8. WalkCovers'
  BY <1>1, <1>4, <1>5 DEF IpcInv, WalkCovers, WalkLabels, Contexts, bufVars
<1>. QED  BY <1>3, <1>6, <1>7, <1>8 DEF IpcInv

LEMMA HandlerExitStep ==
    ASSUME IpcInv, NEW p \in Procs, HandlerExit(p)
    PROVE  IpcInv'
<1>. USE DEF HandlerExit
<1>1. /\ pc[p]["handler"] = "scan" /\ pending[p] = {}
      /\ pc'[p]["handler"] = "idle"
      /\ \A q \in Procs, e \in Contexts :
            q # p \/ e # "handler" => pc'[q][e] = pc[q][e]
  BY GotoFields DEF IpcInv, Contexts, At
<1>2. TypeOK'
  <2>1. PcType'
    BY GotoType DEF IpcInv, Contexts, LabelsOf, HandlerLabels
  <2>. QED  BY <2>1 DEF IpcInv, TypeOK, PcType, bufVars, msgVars, handlerVars,
                        queueVars
<1>3. \A e, s \in Procs : Announced(e, s) => Announced(e, s)'
  BY <1>1 DEF Announced, Contexts
<1>4. \A s \in Procs : reads[p][s] # writes[p][s] => Announced(p, s)
  BY <1>1 DEF IpcInv, WalkCovers, WalkLabels
<1>5. HandlerIsMasked' /\ ClosedIsMasked' /\ ReceivedIsMessage'
  BY <1>1 DEF IpcInv, HandlerIsMasked, ClosedIsMasked, ReceivedIsMessage,
              Contexts
<1>6. NoStrandedMessage'
  BY <1>1, <1>3, <1>4 DEF IpcInv, NoStrandedMessage, Contexts, bufVars
<1>7. WalkCovers'
  BY <1>1, <1>3
     DEF IpcInv, WalkCovers, WalkLabels, Contexts, bufVars, handlerVars
<1>. QED  BY <1>2, <1>5, <1>6, <1>7 DEF IpcInv

LEMMA BufferDoneStep ==
    ASSUME IpcInv, NEW p \in Procs, BufferDone(p)
    PROVE  IpcInv'
<1>. USE DEF BufferDone
<1>1. /\ pc[p]["handler"] = "drain"
      /\ reads[p][sender[p]] = writes[p][sender[p]]
      /\ pc'[p]["handler"] = "scan"
      /\ \A q \in Procs, e \in Contexts :
            q # p \/ e # "handler" => pc'[q][e] = pc[q][e]
  BY GotoFields DEF IpcInv, Contexts, At
<1>2. TypeOK'
  <2>1. PcType'
    BY GotoType DEF IpcInv, Contexts, LabelsOf, HandlerLabels
  <2>. QED  BY <2>1 DEF IpcInv, TypeOK, PcType, bufVars, irqVars, msgVars,
                        handlerVars, queueVars
<1>3. \A e, s \in Procs : Announced(e, s) => Announced(e, s)'
  BY <1>1 DEF Announced, Contexts, irqVars
<1>4. HandlerIsMasked' /\ ClosedIsMasked' /\ ReceivedIsMessage'
  BY <1>1 DEF IpcInv, HandlerIsMasked, ClosedIsMasked, ReceivedIsMessage,
              Contexts, irqVars
<1>5. NoStrandedMessage'
  BY <1>1, <1>3 DEF IpcInv, NoStrandedMessage, Contexts, bufVars, irqVars
<1>6. WalkCovers'
  BY <1>1, <1>3
     DEF IpcInv, WalkCovers, WalkLabels, Contexts, bufVars, handlerVars
<1>. QED  BY <1>2, <1>4, <1>5, <1>6 DEF IpcInv

(* ipc_process_cbuf: what both kinds of message have in common.            *)
LEMMA TakeFields ==
    ASSUME IpcInv, NEW p \in Procs, NEW m \in Messages, Take(p, m)
    PROVE  /\ pc[p]["handler"] = "drain"
           /\ reads' \in [Procs -> [Procs -> 0 .. CountMod - 1]]
           /\ \A d, s \in Procs :
                 d # p \/ s # sender[p] => reads'[d][s] = reads[d][s]
           /\ UNCHANGED <<writes, status, masked, pending, sender>>
<1>. USE DEF Take, irqVars, handlerVars
<1>1. sender[p] \in Procs /\ reads[p][sender[p]] \in 0 .. CountMod - 1
  BY DEF IpcInv, TypeOK
<1>2. (reads[p][sender[p]] + 1) % CountMod \in 0 .. CountMod - 1
  BY <1>1, NextCount
<1>3. reads' \in [Procs -> [Procs -> 0 .. CountMod - 1]]
  BY <1>1, <1>2 DEF IpcInv, TypeOK
<1>4. \A d, s \in Procs :
         d # p \/ s # sender[p] => reads'[d][s] = reads[d][s]
  BY <1>1 DEF IpcInv, TypeOK
<1>. QED  BY <1>3, <1>4 DEF At

LEMMA EnqueueFields ==
    ASSUME TypeOK, NEW p \in Procs, NEW m \in Messages, Enqueue(p, m)
    PROVE  /\ PcType'
           /\ msgq' \in [Procs -> Seq(Messages)]
           /\ msg_sem' \in [Procs -> 0 .. SemMod - 1]
           /\ \A q \in Procs :
                 /\ pc'[q]["handler"] = pc[q]["handler"]
                 /\ \/ pc'[q]["thread"] = pc[q]["thread"]
                    \/ pc[q]["thread"] = "pend" /\ pc'[q]["thread"] = "woken"
<1>. USE DEF Enqueue
<1>1. PcType'
  BY DEF TypeOK, PcType, Contexts, ThreadLabels
<1>2. msgq' \in [Procs -> Seq(Messages)]
  BY DEF TypeOK
<1>3. msg_sem' \in [Procs -> 0 .. SemMod - 1]
  <2>1. SemMod \in Nat \ {0} /\ msg_sem[p] \in 0 .. SemMod - 1
    BY IpcAssumption DEF TypeOK
  <2>2. (msg_sem[p] + 1) % SemMod \in 0 .. SemMod - 1
    <3>1. msg_sem[p] + 1 \in Int
      BY <2>1
    <3>. HIDE DEF Enqueue
    <3>. QED  BY <2>1, <3>1, ModType
  <2>. QED  BY <2>2 DEF TypeOK
<1>4. \A q \in Procs :
         /\ pc'[q]["handler"] = pc[q]["handler"]
         /\ \/ pc'[q]["thread"] = pc[q]["thread"]
            \/ pc[q]["thread"] = "pend" /\ pc'[q]["thread"] = "woken"
  BY DEF TypeOK, Contexts
<1>. QED  BY <1>1, <1>2, <1>3, <1>4

LEMMA TakeResponseStep ==
    ASSUME IpcInv, NEW p \in Procs, NEW m \in Messages, TakeResponse(p, m)
    PROVE  IpcInv'
<1>. USE DEF TakeResponse
<1>1. /\ pc[p]["handler"] = "drain"
      /\ reads' \in [Procs -> [Procs -> 0 .. CountMod - 1]]
      /\ \A d, s \in Procs :
            d # p \/ s # sender[p] => reads'[d][s] = reads[d][s]
      /\ UNCHANGED <<writes, status, masked, pending, sender>>
  BY TakeFields
<1>2. CASE active' = [active EXCEPT ![m] = FALSE] /\ UNCHANGED <<pc, queueVars>>
  <2>1. TypeOK'
    BY <1>1, <1>2 DEF IpcInv, TypeOK, Take, irqVars, queueVars
  <2>. QED  BY <1>1, <1>2, <2>1, WalkStep
<1>3. CASE Enqueue(p, m) /\ UNCHANGED active
  <2>1. /\ PcType'
        /\ msgq' \in [Procs -> Seq(Messages)]
        /\ msg_sem' \in [Procs -> 0 .. SemMod - 1]
        /\ \A q \in Procs :
              /\ pc'[q]["handler"] = pc[q]["handler"]
              /\ \/ pc'[q]["thread"] = pc[q]["thread"]
                 \/ pc[q]["thread"] = "pend" /\ pc'[q]["thread"] = "woken"
    BY <1>3, EnqueueFields DEF IpcInv
  <2>2. TypeOK'
    BY <1>1, <1>3, <2>1, ZenonT(60) DEF IpcInv, TypeOK, PcType, Take, irqVars
  <2>. QED  BY <1>1, <2>1, <2>2, WalkStep, ZenonT(90)
<1>. QED  BY <1>2, <1>3

LEMMA TakeCommandStep ==
    ASSUME IpcInv, NEW p \in Procs, NEW m \in Messages, TakeCommand(p, m)
    PROVE  IpcInv'
<1>. USE DEF TakeCommand
<1>1. /\ pc[p]["handler"] = "drain"
      /\ reads' \in [Procs -> [Procs -> 0 .. CountMod - 1]]
      /\ \A d, s \in Procs :
            d # p \/ s # sender[p] => reads'[d][s] = reads[d][s]
      /\ UNCHANGED <<writes, status, masked, pending, sender>>
  BY TakeFields
<1>2. CASE /\ \E code \in Answers : SendRsp(p, "handler", m, code)
           /\ UNCHANGED queueVars
  <2>1. PICK code \in Answers : SendRsp(p, "handler", m, code)
    BY <1>2
  <2>2. Owner[m] \in Procs /\ code \in Codes
    BY IpcAssumption
  <2>3. /\ FrameType'
        /\ \A q \in Procs, e \in Contexts :
              q # p \/ e # "handler" => frame'[q][e] = frame[q][e]
    BY <2>1, <2>2, SendsFields DEF SendRsp, IpcInv, Contexts, Calls
  <2>4. /\ PcType'
        /\ pc'[p]["handler"] = "sample"
        /\ \A q \in Procs, e \in Contexts :
              q # p \/ e # "handler" => pc'[q][e] = pc[q][e]
    BY <2>1, GotoType, GotoFields
       DEF SendRsp, IpcInv, Contexts, LabelsOf, HandlerLabels
  <2>5. TypeOK'
    <3>1. /\ response' \in [Messages -> BOOLEAN] /\ active' \in [Messages -> BOOLEAN]
          /\ ipc_rc' \in [Messages -> Codes] /\ answer' \in [Messages -> Codes]
      BY <2>1, <2>2 DEF SendRsp, IpcInv, TypeOK
    <3>2. UNCHANGED <<cbufs, ipc_enabled, msgq, msg_sem>>
      BY <1>2 DEF Take, queueVars
    <3>3. /\ frame' \in [Procs -> [Contexts ->
                          [msg : Messages \union {NULL}, target : Procs, call : Calls]]]
          /\ pc' \in [Procs -> [Contexts -> ThreadLabels \union HandlerLabels]]
          /\ \A q \in Procs : /\ pc'[q]["thread"] \in ThreadLabels
                               /\ pc'[q]["handler"] \in HandlerLabels
      BY <2>3, <2>4 DEF FrameType, PcType
    <3>. HIDE DEF TakeCommand
    <3>. QED  BY <1>1, <3>1, <3>2, <3>3 DEF IpcInv, TypeOK
  <2>. QED  BY <1>1, <2>3, <2>4, <2>5, WalkStep DEF Contexts
<1>3. CASE UNCHANGED <<msgVars, frame, pc, queueVars>>
  <2>1. TypeOK'
    BY <1>1, <1>3, ZenonT(90) DEF IpcInv, TypeOK, Take, irqVars, msgVars, queueVars
  <2>. QED  BY <1>1, <1>3, <2>1, WalkStep
<1>4. CASE Enqueue(p, m) /\ UNCHANGED <<msgVars, frame>>
  <2>1. /\ PcType'
        /\ msgq' \in [Procs -> Seq(Messages)]
        /\ msg_sem' \in [Procs -> 0 .. SemMod - 1]
        /\ \A q \in Procs :
              /\ pc'[q]["handler"] = pc[q]["handler"]
              /\ \/ pc'[q]["thread"] = pc[q]["thread"]
                 \/ pc[q]["thread"] = "pend" /\ pc'[q]["thread"] = "woken"
    BY <1>4, EnqueueFields DEF IpcInv
  <2>2. TypeOK'
    BY <1>1, <1>4, <2>1 DEF IpcInv, TypeOK, PcType, Take, irqVars, msgVars
  <2>. QED  BY <1>1, <1>4, <2>1, <2>2, WalkStep
<1>. QED  BY <1>2, <1>3, <1>4

-----------------------------------------------------------------------------
LEMMA NextInv == IpcInv /\ [Next]_vars => IpcInv'
<1>. SUFFICES ASSUME IpcInv, [Next]_vars PROVE IpcInv'
  OBVIOUS
<1>1. ASSUME NEW p \in Procs, HandlerStep(p) PROVE IpcInv'
  BY <1>1, HandlerEnterStep, HandlerSnapshotStep, HandlerScanStep,
     HandlerExitStep, BufferDoneStep, TakeResponseStep, TakeCommandStep,
     SampleStep, StoreStep, RaiseStep
     DEF HandlerStep, Contexts
<1>2. ASSUME NEW p \in Procs, CallStep(p) PROVE IpcInv'
  BY <1>2, DisableStep, EnableClearStep, EnableOpenStep, SampleStep,
     StoreStep, RaiseStep, SendCmdReturnStep, RecvWokenStep, ReleaseStep,
     RespondStep
     DEF CallStep, Contexts
<1>3. CASE UNCHANGED vars
  <2>1. TypeOK'
    BY <1>3 DEF IpcInv, TypeOK, vars, bufVars, irqVars, msgVars, handlerVars,
                queueVars
  <2>2. Quiet
    BY <1>3 DEF Quiet, IpcInv, ReceivedIsMessage, vars, bufVars, irqVars,
                handlerVars
  <2>. QED  BY <2>1, <2>2, QuietStep
<1>4. CASE Next
  BY <1>1, <1>2, <1>4, DisableStep, RecvStep, RecvTimeoutStep, SendCmdStep
     DEF Next
<1>. QED  BY <1>3, <1>4

(* The inductive invariant of the IPC library: the handler and ipc_init    *)
(* work masked, and what the handler has yet to drain is in its snapshot   *)
(* or announced (ipc_irq_handler, ipc_disable, ipc_send_msg).              *)
THEOREM IpcInvariant == Spec => []IpcInv
<1>1. Init => IpcInv
  BY InitInv
<1>2. IpcInv /\ [Next]_vars => IpcInv'
  BY NextInv
<1>. QED  BY <1>1, <1>2, PTL DEF Spec

(* Every variable keeps its type: the counts stay within their byte, and   *)
(* no queue holds anything but messages.                                   *)
THEOREM IpcTypeCorrect == Spec => []TypeOK
<1>1. IpcInv => TypeOK
  BY DEF IpcInv
<1>. QED  BY <1>1, IpcInvariant, PTL

(* No interrupt is lost: a processor that takes interrupts and is outside  *)
(* its handler has no message that nothing announces, whoever sends,       *)
(* closes and opens at the same time (ipc_irq_handler, ipc_send_msg).      *)
THEOREM NoMessageStranded == Spec => []NoStrandedMessage
<1>1. IpcInv => NoStrandedMessage
  BY DEF IpcInv
<1>. QED  BY <1>1, IpcInvariant, PTL

-----------------------------------------------------------------------------
(* The message queues.  What a step does to the queue of q: it is left as  *)
(* it is by a thread that does not begin to wait, the thread takes from    *)
(* it, or a message is appended, which wakes the thread.                   *)
QueueStep(q) ==
    \/ msgq'[q] = msgq[q] /\ (pc'[q]["thread"] = "pend" =>
                                pc[q]["thread"] = "pend" \/ msgq[q] = <<>>)
    \/ pc'[q]["thread"] # "pend"

LEMMA ThreadQueueStep ==
    ASSUME IpcInv, NEW p \in Procs, NEW label,
           label # "pend" \/ (msgq[p] = <<>> /\ UNCHANGED msgq),
           Goto(p, "thread", label),
           \A q \in Procs : q # p => msgq'[q] = msgq[q]
    PROVE  \A q \in Procs : QueueStep(q)
<1>1. /\ pc'[p]["thread"] = label
      /\ \A q \in Procs : q # p => pc'[q]["thread"] = pc[q]["thread"]
  BY GotoFields DEF IpcInv, Contexts
<1>. QED  BY <1>1 DEF QueueStep

LEMMA HandlerQueueStep ==
    ASSUME IpcInv, NEW p \in Procs, NEW label, Goto(p, "handler", label),
           UNCHANGED msgq
    PROVE  \A q \in Procs : QueueStep(q)
<1>1. \A q \in Procs : pc'[q]["thread"] = pc[q]["thread"]
  BY GotoFields DEF IpcInv, Contexts
<1>. QED  BY <1>1 DEF QueueStep

LEMMA EnqueueQueueStep ==
    ASSUME IpcInv, NEW p \in Procs, NEW m \in Messages, Enqueue(p, m)
    PROVE  \A q \in Procs : QueueStep(q)
<1>1. \A q \in Procs : q # p => msgq'[q] = msgq[q] /\ pc'[q] = pc[q]
  BY DEF Enqueue, IpcInv, TypeOK
<1>2. pc'[p]["thread"] # "pend"
  BY DEF Enqueue, IpcInv, TypeOK, Contexts
<1>. QED  BY <1>1, <1>2 DEF QueueStep

(* Sending, in either context.                                             *)
LEMMA SendQueueStep ==
    ASSUME IpcInv, NEW p \in Procs, NEW c \in Contexts,
           Sample(p, c) \/ Store(p, c) \/ Raise(p, c)
    PROVE  \A q \in Procs : QueueStep(q)
<1>1. UNCHANGED msgq
  BY DEF Sample, Store, Raise, queueVars
<1>2. PICK label : Goto(p, c, label) /\ label # "pend"
  <2>1. CASE Sample(p, c)
    <3>1. \A code \in Codes : AfterSend(p, c, code) # "pend"
      BY DEF AfterSend, Codes, Contexts
    <3>. QED  BY <2>1, <3>1 DEF Sample, Codes
  <2>2. CASE Store(p, c)
    <3>1. Goto(p, c, "raise")
      BY <2>2 DEF Store
    <3>. QED  BY <3>1
  <2>3. CASE Raise(p, c)
    <3>1. AfterSend(p, c, "IPC_RC_SUCCESS") # "pend"
      BY DEF AfterSend, Contexts
    <3>. QED  BY <2>3, <3>1 DEF Raise
  <2>. QED  BY <2>1, <2>2, <2>3
<1>3. CASE c = "thread"
  BY <1>1, <1>2, <1>3, ThreadQueueStep
<1>4. CASE c = "handler"
  BY <1>1, <1>2, <1>4, HandlerQueueStep
<1>. QED  BY <1>3, <1>4 DEF Contexts

LEMMA HandlerStepQueue ==
    ASSUME IpcInv, NEW p \in Procs, HandlerStep(p)
    PROVE  \A q \in Procs : QueueStep(q)
<1>1. CASE \/ HandlerEnter(p) \/ HandlerSnapshot(p) \/ HandlerScan(p)
           \/ HandlerExit(p) \/ BufferDone(p)
  <2>1. UNCHANGED msgq
    BY <1>1 DEF HandlerEnter, HandlerSnapshot, HandlerScan, HandlerExit,
                BufferDone, queueVars
  <2>2. \E label : Goto(p, "handler", label)
    BY <1>1 DEF HandlerEnter, HandlerSnapshot, HandlerScan, HandlerExit,
                BufferDone
  <2>. QED  BY <2>1, <2>2, HandlerQueueStep
<1>2. CASE \E m \in Messages : TakeResponse(p, m) \/ TakeCommand(p, m)
  <2>1. PICK m \in Messages :
           \/ Enqueue(p, m)
           \/ UNCHANGED <<pc, msgq>>
           \/ Goto(p, "handler", "sample") /\ UNCHANGED msgq
    BY <1>2 DEF TakeResponse, TakeCommand, SendRsp, queueVars
  <2>2. CASE UNCHANGED <<pc, msgq>>
    BY <2>2 DEF QueueStep
  <2>. QED  BY <2>1, <2>2, EnqueueQueueStep, HandlerQueueStep
<1>3. CASE Sample(p, "handler") \/ Store(p, "handler") \/ Raise(p, "handler")
  BY <1>3, SendQueueStep DEF Contexts
<1>. QED  BY <1>1, <1>2, <1>3 DEF HandlerStep

LEMMA ThreadStepQueue ==
    ASSUME IpcInv, NEW p \in Procs,
           \/ CallStep(p) \/ Disable(p) \/ Recv(p) \/ RecvTimeout(p)
           \/ \E m \in Messages : SendCmd(p, m)
    PROVE  \A q \in Procs : QueueStep(q)
<1>1. CASE Sample(p, "thread") \/ Store(p, "thread") \/ Raise(p, "thread")
  BY <1>1, SendQueueStep DEF Contexts
<1>2. CASE \/ Disable(p) \/ EnableClear(p) \/ EnableOpen(p)
           \/ SendCmdReturn(p) \/ Release(p) \/ Respond(p) \/ RecvTimeout(p)
           \/ \E m \in Messages : SendCmd(p, m)
  <2>1. UNCHANGED msgq
    BY <1>2 DEF Disable, EnableClear, EnableOpen, SendCmdReturn, Release,
                Respond, RecvTimeout, SendCmd, queueVars
  <2>2. \E label \in {"disabled", "cleared", "run", "sample"} :
           Goto(p, "thread", label)
    BY <1>2 DEF Disable, EnableClear, EnableOpen, SendCmdReturn, Release,
                Respond, SendRsp, RecvTimeout, SendCmd
  <2>. QED  BY <2>1, <2>2, ThreadQueueStep
<1>3. CASE Recv(p) \/ RecvWoken(p)
  <2>1. \A q \in Procs : q # p => msgq'[q] = msgq[q]
    BY <1>3 DEF Recv, RecvWoken, queueVars, IpcInv, TypeOK
  <2>2. \/ \E label \in {"received", "woken", "run"} : Goto(p, "thread", label)
        \/ /\ Goto(p, "thread", "pend")
           /\ msgq[p] = <<>> /\ UNCHANGED msgq
    BY <1>3 DEF Recv, RecvWoken, queueVars
  <2>. QED  BY <2>1, <2>2, ThreadQueueStep
<1>. QED  BY <1>1, <1>2, <1>3 DEF CallStep

(* A thread that waits for a message has none: no message arrives between  *)
(* the look at the queue and the pend (ipc_msgq_recv, ipc_msgq_handler).   *)
THEOREM NoMissedMessage == Spec => []NoWaitWithMessage
<1>1. Init => NoWaitWithMessage
  BY DEF Init, NoWaitWithMessage
<1>2. IpcInv /\ NoWaitWithMessage /\ [Next]_vars => NoWaitWithMessage'
  <2>. SUFFICES ASSUME IpcInv, NoWaitWithMessage, [Next]_vars
                PROVE  NoWaitWithMessage'
    OBVIOUS
  <2>1. CASE Next
    <3>1. \A q \in Procs : QueueStep(q)
      BY <2>1, HandlerStepQueue, ThreadStepQueue DEF Next
    <3>. QED  BY <3>1 DEF NoWaitWithMessage, QueueStep
  <2>2. CASE UNCHANGED vars
    BY <2>2 DEF vars, queueVars, NoWaitWithMessage
  <2>. QED  BY <2>1, <2>2
<1>. QED  BY <1>1, <1>2, IpcInvariant, PTL DEF Spec

-----------------------------------------------------------------------------
(* No buffer of the IPC library is overrun: BuffersBounded of OccIpc; the  *)
(* buffers are the FIFO channels of IpcChannel; and a message is in one    *)
(* place at a time.                                                        *)
(*                                                                         *)
(* A sender looks at the counts, and stores later: what it has seen still  *)
(* holds then, or the receiver has closed, and the room between a closed   *)
(* buffer and a full count is for its message.                             *)

Closed(d) == pc[d]["thread"] \in {"disabled", "cleared"}
Storing(d, s) ==
    \E c \in Contexts : pc[s][c] = "store" /\ frame[s][c].target = d
Bounded(d, s) ==
    /\ Closed(d) =>
          /\ Entries(d, s) \in 2 * IPC_CBUF_SIZE .. 2 * IPC_CBUF_SIZE + 1
          /\ Storing(d, s) => Entries(d, s) = 2 * IPC_CBUF_SIZE
    /\ ~Closed(d) =>
          /\ Entries(d, s) \in 0 .. IPC_CBUF_SIZE
          /\ Storing(d, s) => Entries(d, s) < IPC_CBUF_SIZE

(* The handler and the thread do not send at the same time.                *)
OneSender ==
    \A p \in Procs : pc[p]["handler"] # "idle" => ~InCriticalSection(p)

BoundsInv ==
    /\ OneSender
    /\ \A d, s \in Procs : Bounded(d, s)

-----------------------------------------------------------------------------
(* The counts wrap around; the number of entries does not notice.          *)
LEMMA Sizes ==
    /\ IPC_CBUF_SIZE \in Nat \ {0}
    /\ CountMod \in Nat \ {0}
    /\ CountMod > 3 * IPC_CBUF_SIZE
BY IpcAssumption

(* Subtraction modulo n, for the differences of two counts.                *)
LEMMA ModDifference ==
    \A n \in Nat \ {0}, a \in Int :
        -n <= a /\ a < 2 * n =>
            a % n = IF a < 0 THEN a + n ELSE IF a < n THEN a ELSE a - n
OBVIOUS

(* The same for the width of a count.                                      *)
LEMMA CountDifference ==
    \A a \in Int :
        -CountMod <= a /\ a < 2 * CountMod =>
            a % CountMod = IF a < 0 THEN a + CountMod
                           ELSE IF a < CountMod THEN a ELSE a - CountMod
<1>1. CountMod \in Nat \ {0}
  BY Sizes
<1>. QED  BY <1>1, ModDifference

(* What num_entries computes from the two counts.                          *)
LEMMA EntriesOfCounts ==
    ASSUME NEW r \in 0 .. CountMod - 1, NEW w \in 0 .. CountMod - 1
    PROVE  (w - r) % CountMod = IF w < r THEN w - r + CountMod ELSE w - r
<1>. DEFINE a == w - r
<1>1. a \in Int /\ -CountMod <= a /\ a < 2 * CountMod /\ a < CountMod
  BY Sizes
<1>2. a % CountMod = IF a < 0 THEN a + CountMod
                     ELSE IF a < CountMod THEN a ELSE a - CountMod
  <2>. HIDE DEF a
  <2>. QED BY <1>1, CountDifference
<1>3. a % CountMod = IF a < 0 THEN a + CountMod ELSE a
  <2>. HIDE DEF a
  <2>. QED BY <1>1, <1>2
<1>. QED  BY <1>3, Sizes

(* A count advances.                                                       *)
LEMMA Successor ==
    ASSUME NEW w \in 0 .. CountMod - 1
    PROVE  (w + 1) % CountMod = IF w + 1 = CountMod THEN 0 ELSE w + 1
<1>. DEFINE a == w + 1
<1>1. a \in Int /\ -CountMod <= a /\ a < 2 * CountMod /\ 0 < a /\ a <= CountMod
  BY Sizes
<1>2. a % CountMod = IF a = CountMod THEN 0 ELSE a
  <2>. HIDE DEF a
  <2>. QED BY <1>1, CountDifference, Sizes
<1>. QED  BY <1>2

(* One message more after a store, one less after a take, twice the size  *)
(* after ipc_disable and none after ipc_enable.                            *)
LEMMA EntriesAfterStore ==
    ASSUME NEW r \in 0 .. CountMod - 1, NEW w \in 0 .. CountMod - 1,
           (w - r) % CountMod < CountMod - 1
    PROVE  (((w + 1) % CountMod) - r) % CountMod = ((w - r) % CountMod) + 1
<1>. DEFINE v == (w + 1) % CountMod
<1>1. v = IF w + 1 = CountMod THEN 0 ELSE w + 1
  BY Successor
<1>. HIDE DEF v
<1>2. v \in 0 .. CountMod - 1
  BY <1>1, Sizes
<1>3. (v - r) % CountMod = IF v < r THEN v - r + CountMod ELSE v - r
  BY <1>2, EntriesOfCounts
<1>4. (w - r) % CountMod = IF w < r THEN w - r + CountMod ELSE w - r
  BY EntriesOfCounts
<1>5. (v - r) % CountMod = ((w - r) % CountMod) + 1
  BY <1>1, <1>3, <1>4, Sizes
<1>. QED  BY <1>5 DEF v

LEMMA EntriesAfterTake ==
    ASSUME NEW r \in 0 .. CountMod - 1, NEW w \in 0 .. CountMod - 1, r # w
    PROVE  (w - ((r + 1) % CountMod)) % CountMod = ((w - r) % CountMod) - 1
<1>. DEFINE v == (r + 1) % CountMod
<1>1. v = IF r + 1 = CountMod THEN 0 ELSE r + 1
  BY Successor
<1>. HIDE DEF v
<1>2. v \in 0 .. CountMod - 1
  BY <1>1, Sizes
<1>3. (w - v) % CountMod = IF w < v THEN w - v + CountMod ELSE w - v
  BY <1>2, EntriesOfCounts
<1>4. (w - r) % CountMod = IF w < r THEN w - r + CountMod ELSE w - r
  BY EntriesOfCounts
<1>5. (w - v) % CountMod = ((w - r) % CountMod) - 1
  BY <1>1, <1>3, <1>4, Sizes
<1>. QED  BY <1>5 DEF v

LEMMA EntriesAfterDisable ==
    ASSUME NEW w \in 0 .. CountMod - 1
    PROVE  (w - ((w - (2 * IPC_CBUF_SIZE)) % CountMod)) % CountMod
              = 2 * IPC_CBUF_SIZE
<1>. DEFINE a == w - (2 * IPC_CBUF_SIZE)
            v == a % CountMod
<1>1. a \in Int /\ -CountMod <= a /\ a < CountMod /\ a < 2 * CountMod
  BY Sizes
<1>2. v = IF a < 0 THEN a + CountMod ELSE a
  <2>. HIDE DEF a
  <2>. QED BY <1>1, CountDifference
<1>3. /\ v \in 0 .. CountMod - 1
      /\ v = IF w < 2 * IPC_CBUF_SIZE
             THEN w - (2 * IPC_CBUF_SIZE) + CountMod
             ELSE w - (2 * IPC_CBUF_SIZE)
  <2>1. a = w - (2 * IPC_CBUF_SIZE)
    OBVIOUS
  <2>. HIDE DEF a
  <2>2. v = IF a < 0 THEN a + CountMod ELSE a
    BY <1>2
  <2>. HIDE DEF v
  <2>. QED  BY <1>1, <2>1, <2>2, Sizes
<1>. HIDE DEF v
<1>4. (w - v) % CountMod = IF w < v THEN w - v + CountMod ELSE w - v
  BY <1>3, EntriesOfCounts
<1>5. (w - v) % CountMod = 2 * IPC_CBUF_SIZE
  BY <1>3, <1>4, Sizes
<1>. QED  BY <1>5 DEF v

LEMMA EntriesWhenEmpty ==
    ASSUME NEW w \in 0 .. CountMod - 1
    PROVE  (w - w) % CountMod = 0
BY EntriesOfCounts

-----------------------------------------------------------------------------
(* Steps that neither close or open a buffer, nor find room for a message; *)
(* and, if they are calm, change no count either.                          *)
SameSenders ==
    /\ \A p \in Procs : Closed(p)' <=> Closed(p)
    /\ \A p \in Procs : pc'[p]["handler"] = "idle" \/ ~InCriticalSection(p)'
    /\ \A p \in Procs, c \in Contexts :
          pc'[p][c] = "store" =>
              /\ pc[p][c] = "store"
              /\ frame'[p][c].target = frame[p][c].target
Calm == SameSenders /\ UNCHANGED <<reads, writes>>

LEMMA CalmStep ==
    ASSUME BoundsInv, Calm
    PROVE  BoundsInv'
<1>1. OneSender'
  BY DEF Calm, SameSenders, OneSender
<1>2. ASSUME NEW d \in Procs, NEW s \in Procs PROVE Bounded(d, s)'
  <2>1. Bounded(d, s)
    BY DEF BoundsInv
  <2>2. Entries(d, s)' = Entries(d, s)
    BY DEF Calm, Entries
  <2>3. Storing(d, s)' => Storing(d, s)
    BY DEF Calm, SameSenders, Storing
  <2>4. Closed(d)' <=> Closed(d)
    BY DEF Calm, SameSenders
  <2>. QED  BY <2>1, <2>2, <2>3, <2>4 DEF Bounded
<1>. QED  BY <1>1, <1>2 DEF BoundsInv

(* One context c of p goes to a label; the other frames stay as they are.  *)
OtherFrames(p, c) ==
    \A q \in Procs, e \in Contexts :
        q # p \/ e # c => frame'[q][e] = frame[q][e]

LEMMA SameSendersGoto ==
    ASSUME IpcInv, BoundsInv, NEW p \in Procs, NEW c \in Contexts, NEW label,
           Goto(p, c, label), OtherFrames(p, c),
           label # "store",
           c = "thread" => /\ pc[p]["handler"] = "idle"
                           /\ label \in {"disabled", "cleared"} <=> Closed(p),
           c = "handler" => ~InCriticalSection(p)
    PROVE  SameSenders
<1>1. /\ pc'[p][c] = label
      /\ \A q \in Procs, e \in Contexts :
            q # p \/ e # c => pc'[q][e] = pc[q][e]
  BY GotoFields DEF IpcInv
<1>2. \A q \in Procs : Closed(q)' <=> Closed(q)
  BY <1>1 DEF Closed, Contexts
<1>3. \A q \in Procs : pc'[q]["handler"] = "idle" \/ ~InCriticalSection(q)'
  BY <1>1 DEF BoundsInv, OneSender, InCriticalSection, Contexts
<1>4. \A q \in Procs, e \in Contexts :
          pc'[q][e] = "store" =>
              /\ pc[q][e] = "store"
              /\ frame'[q][e].target = frame[q][e].target
  BY <1>1 DEF OtherFrames
<1>. QED  BY <1>2, <1>3, <1>4 DEF SameSenders

LEMMA CalmGoto ==
    ASSUME IpcInv, BoundsInv, NEW p \in Procs, NEW c \in Contexts, NEW label,
           Goto(p, c, label), OtherFrames(p, c), UNCHANGED <<reads, writes>>,
           label # "store",
           c = "thread" => /\ pc[p]["handler"] = "idle"
                           /\ label \in {"disabled", "cleared"} <=> Closed(p),
           c = "handler" => ~InCriticalSection(p)
    PROVE  BoundsInv'
BY SameSendersGoto, CalmStep DEF Calm

LEMMA FrameOthers ==
    ASSUME IpcInv, NEW p \in Procs, NEW c \in Contexts,
           \/ UNCHANGED frame
           \/ \E m, d, k : Sends(p, c, m, d, k)
           \/ \E m : Holds(p, c, m)
    PROVE  OtherFrames(p, c)
<1>1. UNCHANGED frame \/ \E f : frame' = [frame EXCEPT ![p][c] = f]
  BY DEF Sends, Holds
<1>2. ASSUME NEW f, frame' = [frame EXCEPT ![p][c] = f]
      PROVE  OtherFrames(p, c)
  BY <1>2 DEF IpcInv, TypeOK, OtherFrames
<1>. QED  BY <1>1, <1>2 DEF OtherFrames

-----------------------------------------------------------------------------
(* The calls that change counts, or find room.                             *)
LEMMA CountsType ==
    ASSUME IpcInv, NEW d \in Procs, NEW s \in Procs
    PROVE  /\ reads[d][s] \in 0 .. CountMod - 1
           /\ writes[d][s] \in 0 .. CountMod - 1
BY DEF IpcInv, TypeOK

LEMMA FrameTarget ==
    ASSUME IpcInv, NEW p \in Procs, NEW c \in Contexts
    PROVE  frame[p][c].target \in Procs
BY DEF IpcInv, TypeOK

LEMMA AfterSendLabels ==
    ASSUME NEW p \in Procs, NEW c \in Contexts, NEW code \in Codes
    PROVE  AfterSend(p, c, code) \notin {"store", "disabled", "cleared"}
BY DEF AfterSend, Contexts, Codes

(* In its critical section, a context of p excludes the other one.         *)
LEMMA OneInCritical ==
    ASSUME BoundsInv, NEW p \in Procs, NEW c \in Contexts,
           pc[p][c] \in {"sample", "store", "raise"}, CanRun(p, c)
    PROVE  /\ c = "thread" => pc[p]["handler"] = "idle"
           /\ c = "handler" => ~InCriticalSection(p)
           /\ \A e \in Contexts :
                e # c => pc[p][e] \notin {"sample", "store", "raise"}
BY DEF BoundsInv, OneSender, InCriticalSection, CanRun, Contexts

LEMMA SampleBounds ==
    ASSUME IpcInv, BoundsInv, NEW p \in Procs, NEW c \in Contexts, Sample(p, c)
    PROVE  BoundsInv'
<1>0. PICK d \in Procs : d = frame[p][c].target
  BY FrameTarget
<1>. DEFINE n == Entries(d, p)
            failed == AfterSend(p, c, IF n = IPC_CBUF_SIZE
                                      THEN "IPC_RC_BUFFER_FULL"
                                      ELSE "IPC_RC_TARGET_BLOCKED")
<1>1. /\ pc[p][c] = "sample" /\ CanRun(p, c)
      /\ UNCHANGED <<reads, writes, frame>>
      /\ Goto(p, c, IF n < IPC_CBUF_SIZE THEN "store" ELSE failed)
  BY <1>0 DEF Sample, At, bufVars
<1>2. /\ c = "thread" => pc[p]["handler"] = "idle" /\ ~Closed(p)
      /\ c = "handler" => ~InCriticalSection(p)
  BY <1>1, OneInCritical DEF Closed
<1>3. failed \notin {"store", "disabled", "cleared"}
  BY AfterSendLabels DEF Codes
<1>4. CASE ~(n < IPC_CBUF_SIZE)
  <2>1. Goto(p, c, failed)
    BY <1>1, <1>4
  <2>. HIDE DEF failed
  <2>. QED  BY <1>1, <1>2, <1>3, <2>1, CalmGoto DEF OtherFrames
<1>5. CASE n < IPC_CBUF_SIZE
  <2>1. Goto(p, c, "store")
    BY <1>1, <1>5
  <2>2. /\ pc'[p][c] = "store"
        /\ \A q \in Procs, e \in Contexts :
              q # p \/ e # c => pc'[q][e] = pc[q][e]
    BY <2>1, GotoFields DEF IpcInv
  <2>3. OneSender'
    BY <1>2, <2>2 DEF BoundsInv, OneSender, InCriticalSection, Contexts
  <2>4. \A q \in Procs : Closed(q)' <=> Closed(q)
    BY <1>2, <2>2 DEF Closed, Contexts
  <2>5. ~Closed(d)
    <3>1. Bounded(d, p)
      BY DEF BoundsInv
    <3>. QED  BY <1>5, <3>1, Sizes DEF Bounded
  <2>6. ASSUME NEW e \in Procs, NEW s \in Procs PROVE Bounded(e, s)'
    <3>1. Bounded(e, s)
      BY DEF BoundsInv
    <3>2. Entries(e, s)' = Entries(e, s)
      BY <1>1 DEF Entries
    <3>3. Storing(e, s)' => Storing(e, s) \/ (e = d /\ s = p)
      BY <1>0, <1>1, <2>2 DEF Storing
    <3>4. e = d /\ s = p => Entries(e, s) < IPC_CBUF_SIZE /\ ~Closed(e)
      BY <1>5, <2>5
    <3>5. Closed(e)' <=> Closed(e)
      BY <2>4
    <3>. QED  BY <3>1, <3>2, <3>3, <3>4, <3>5 DEF Bounded
  <2>. QED  BY <2>3, <2>6 DEF BoundsInv
<1>. QED  BY <1>4, <1>5

LEMMA StoreBounds ==
    ASSUME IpcInv, BoundsInv, NEW p \in Procs, NEW c \in Contexts, Store(p, c)
    PROVE  BoundsInv'
<1>0. PICK d \in Procs : d = frame[p][c].target
  BY FrameTarget
<1>1. /\ pc[p][c] = "store" /\ CanRun(p, c)
      /\ UNCHANGED <<reads, frame>>
      /\ writes' = [writes EXCEPT ![d][p] = (writes[d][p] + 1) % CountMod]
      /\ Goto(p, c, "raise")
  BY <1>0 DEF Store, At
<1>2. /\ c = "thread" => pc[p]["handler"] = "idle" /\ ~Closed(p)
      /\ c = "handler" => ~InCriticalSection(p)
      /\ \A e \in Contexts : e # c => pc[p][e] # "store"
  BY <1>1, OneInCritical DEF Closed
<1>3. /\ pc'[p][c] = "raise"
      /\ \A q \in Procs, e \in Contexts :
            q # p \/ e # c => pc'[q][e] = pc[q][e]
  BY <1>1, GotoFields DEF IpcInv
<1>4. OneSender'
  BY <1>2, <1>3 DEF BoundsInv, OneSender, InCriticalSection, Contexts
<1>5. \A q \in Procs : Closed(q)' <=> Closed(q)
  BY <1>2, <1>3 DEF Closed, Contexts
<1>6. Bounded(d, p)'
  <2>1. Bounded(d, p) /\ Storing(d, p)
    BY <1>0, <1>1 DEF BoundsInv, Storing
  <2>2. ~Storing(d, p)'
    BY <1>2, <1>3 DEF Storing
  <2>3. Entries(d, p) \in Int /\ Entries(d, p) <= 2 * IPC_CBUF_SIZE
    BY <2>1, Sizes DEF Bounded
  <2>4. writes'[d][p] = (writes[d][p] + 1) % CountMod
    BY <1>1 DEF IpcInv, TypeOK
  <2>5. Entries(d, p)' = Entries(d, p) + 1
    <3>1. (writes[d][p] - reads[d][p]) % CountMod < CountMod - 1
      BY <2>3, Sizes DEF Entries
    <3>2. /\ reads[d][p] \in 0 .. CountMod - 1
          /\ writes[d][p] \in 0 .. CountMod - 1
      BY CountsType
    <3>. QED  BY <1>1, <2>4, <3>1, <3>2, EntriesAfterStore DEF Entries
  <2>6. Closed(d)' <=> Closed(d)
    BY <1>5
  <2>. QED  BY <2>1, <2>2, <2>3, <2>5, <2>6, Sizes DEF Bounded
<1>7. ASSUME NEW e \in Procs, NEW s \in Procs, e # d \/ s # p
      PROVE  Bounded(e, s)'
  <2>1. Bounded(e, s)
    BY DEF BoundsInv
  <2>2. writes'[e][s] = writes[e][s]
    BY <1>1, <1>7 DEF IpcInv, TypeOK
  <2>3. Entries(e, s)' = Entries(e, s)
    BY <1>1, <2>2 DEF Entries
  <2>4. Storing(e, s)' => Storing(e, s)
    BY <1>1, <1>3 DEF Storing
  <2>5. Closed(e)' <=> Closed(e)
    BY <1>5
  <2>. QED  BY <2>1, <2>3, <2>4, <2>5 DEF Bounded
<1>. QED  BY <1>4, <1>6, <1>7 DEF BoundsInv

LEMMA RaiseBounds ==
    ASSUME IpcInv, BoundsInv, NEW p \in Procs, NEW c \in Contexts, Raise(p, c)
    PROVE  BoundsInv'
<1>. DEFINE label == AfterSend(p, c, "IPC_RC_SUCCESS")
<1>1. /\ pc[p][c] = "raise" /\ CanRun(p, c)
      /\ UNCHANGED <<reads, writes, frame>>
      /\ Goto(p, c, label)
  BY DEF Raise, At, bufVars
<1>2. /\ c = "thread" => pc[p]["handler"] = "idle" /\ ~Closed(p)
      /\ c = "handler" => ~InCriticalSection(p)
  BY <1>1, OneInCritical DEF Closed
<1>3. label \notin {"store", "disabled", "cleared"}
  BY AfterSendLabels DEF Codes
<1>. HIDE DEF label
<1>. QED  BY <1>1, <1>2, <1>3, CalmGoto DEF OtherFrames

(* Closing and opening a buffer.                                           *)
LEMMA DisableBounds ==
    ASSUME IpcInv, BoundsInv, NEW p \in Procs, Disable(p)
    PROVE  BoundsInv'
<1>1. /\ pc[p]["handler"] = "idle"
      /\ UNCHANGED <<writes, frame>>
      /\ reads' = [reads EXCEPT ![p] = [s \in Procs |->
                     (writes[p][s] - 2 * IPC_CBUF_SIZE) % CountMod]]
      /\ Goto(p, "thread", "disabled")
  BY DEF Disable, At, CanRun
<1>2. /\ pc'[p]["thread"] = "disabled"
      /\ \A q \in Procs, e \in Contexts :
            q # p \/ e # "thread" => pc'[q][e] = pc[q][e]
  BY <1>1, GotoFields DEF IpcInv, Contexts
<1>3. OneSender'
  BY <1>1, <1>2 DEF BoundsInv, OneSender, InCriticalSection, Contexts
<1>4. \A q \in Procs : q # p => (Closed(q)' <=> Closed(q))
  BY <1>2 DEF Closed, Contexts
<1>5. Closed(p)'
  BY <1>2 DEF Closed
<1>6. ASSUME NEW s \in Procs PROVE Bounded(p, s)'
  <2>1. writes[p][s] \in 0 .. CountMod - 1
    BY CountsType
  <2>2. reads'[p][s] = (writes[p][s] - (2 * IPC_CBUF_SIZE)) % CountMod
    BY <1>1 DEF IpcInv, TypeOK
  <2>3. Entries(p, s)' = 2 * IPC_CBUF_SIZE
    BY <1>1, <2>1, <2>2, EntriesAfterDisable DEF Entries
  <2>. QED  BY <1>5, <2>3, Sizes DEF Bounded
<1>7. ASSUME NEW e \in Procs, NEW s \in Procs, e # p PROVE Bounded(e, s)'
  <2>1. Bounded(e, s)
    BY DEF BoundsInv
  <2>2. reads'[e][s] = reads[e][s]
    BY <1>1, <1>7 DEF IpcInv, TypeOK
  <2>3. Entries(e, s)' = Entries(e, s)
    BY <1>1, <2>2 DEF Entries
  <2>4. Storing(e, s)' => Storing(e, s)
    BY <1>1, <1>2 DEF Storing
  <2>5. Closed(e)' <=> Closed(e)
    BY <1>4, <1>7
  <2>. QED  BY <2>1, <2>3, <2>4, <2>5 DEF Bounded
<1>. QED  BY <1>3, <1>6, <1>7 DEF BoundsInv

LEMMA EnableClearBounds ==
    ASSUME IpcInv, BoundsInv, NEW p \in Procs, EnableClear(p)
    PROVE  BoundsInv'
BY CalmGoto DEF EnableClear, At, CanRun, bufVars, Closed, Contexts,
                OtherFrames

LEMMA EnableOpenBounds ==
    ASSUME IpcInv, BoundsInv, NEW p \in Procs, EnableOpen(p)
    PROVE  BoundsInv'
<1>1. /\ pc[p]["handler"] = "idle"
      /\ UNCHANGED <<writes, frame>>
      /\ reads' = [reads EXCEPT ![p] = writes[p]]
      /\ Goto(p, "thread", "run")
  BY DEF EnableOpen, At, CanRun
<1>2. /\ pc'[p]["thread"] = "run"
      /\ \A q \in Procs, e \in Contexts :
            q # p \/ e # "thread" => pc'[q][e] = pc[q][e]
  BY <1>1, GotoFields DEF IpcInv, Contexts
<1>3. OneSender'
  BY <1>1, <1>2 DEF BoundsInv, OneSender, InCriticalSection, Contexts
<1>4. \A q \in Procs : q # p => (Closed(q)' <=> Closed(q))
  BY <1>2 DEF Closed, Contexts
<1>5. ~Closed(p)'
  BY <1>2 DEF Closed
<1>6. ASSUME NEW s \in Procs PROVE Bounded(p, s)'
  <2>1. writes[p][s] \in 0 .. CountMod - 1
    BY CountsType
  <2>2. reads'[p][s] = writes[p][s]
    BY <1>1 DEF IpcInv, TypeOK
  <2>3. Entries(p, s)' = 0
    BY <1>1, <2>1, <2>2, EntriesWhenEmpty DEF Entries
  <2>. QED  BY <1>5, <2>3, Sizes DEF Bounded
<1>7. ASSUME NEW e \in Procs, NEW s \in Procs, e # p PROVE Bounded(e, s)'
  <2>1. Bounded(e, s)
    BY DEF BoundsInv
  <2>2. reads'[e][s] = reads[e][s]
    BY <1>1, <1>7 DEF IpcInv, TypeOK
  <2>3. Entries(e, s)' = Entries(e, s)
    BY <1>1, <2>2 DEF Entries
  <2>4. Storing(e, s)' => Storing(e, s)
    BY <1>1, <1>2 DEF Storing
  <2>5. Closed(e)' <=> Closed(e)
    BY <1>4, <1>7
  <2>. QED  BY <2>1, <2>3, <2>4, <2>5 DEF Bounded
<1>. QED  BY <1>3, <1>6, <1>7 DEF BoundsInv

-----------------------------------------------------------------------------
(* The other calls of a thread.                                            *)
LEMMA ThreadCalm ==
    ASSUME IpcInv, BoundsInv, NEW p \in Procs, NEW label,
           label \notin {"store", "disabled", "cleared"},
           CanRun(p, "thread"), ~Closed(p), Goto(p, "thread", label),
           OtherFrames(p, "thread"), UNCHANGED <<reads, writes>>
    PROVE  BoundsInv'
BY CalmGoto DEF CanRun, Contexts

LEMMA SendCmdBounds ==
    ASSUME IpcInv, BoundsInv, NEW p \in Procs, NEW m \in Messages,
           SendCmd(p, m)
    PROVE  BoundsInv'
<1>1. OtherFrames(p, "thread")
  BY FrameOthers DEF SendCmd, Contexts
<1>. QED  BY <1>1, ThreadCalm DEF SendCmd, At, Closed, bufVars

LEMMA SendCmdReturnBounds ==
    ASSUME IpcInv, BoundsInv, NEW p \in Procs, SendCmdReturn(p)
    PROVE  BoundsInv'
<1>1. CanRun(p, "thread") /\ ~Closed(p)
  BY DEF SendCmdReturn, At, Closed, Codes
<1>. QED  BY <1>1, ThreadCalm DEF SendCmdReturn, OtherFrames, bufVars

LEMMA RecvBounds ==
    ASSUME IpcInv, BoundsInv, NEW p \in Procs, Recv(p)
    PROVE  BoundsInv'
<1>1. CanRun(p, "thread") /\ ~Closed(p) /\ UNCHANGED <<reads, writes>>
  BY DEF Recv, At, Closed, bufVars
<1>2. OtherFrames(p, "thread")
  BY FrameOthers DEF Recv, Contexts
<1>3. \E label \in {"received", "woken", "pend"} : Goto(p, "thread", label)
  BY DEF Recv
<1>. QED  BY <1>1, <1>2, <1>3, ThreadCalm

LEMMA RecvTimeoutBounds ==
    ASSUME IpcInv, BoundsInv, NEW p \in Procs, RecvTimeout(p)
    PROVE  BoundsInv'
BY ThreadCalm DEF RecvTimeout, At, Closed, OtherFrames, bufVars

LEMMA RecvWokenBounds ==
    ASSUME IpcInv, BoundsInv, NEW p \in Procs, RecvWoken(p)
    PROVE  BoundsInv'
<1>1. CanRun(p, "thread") /\ ~Closed(p) /\ UNCHANGED <<reads, writes>>
  BY DEF RecvWoken, At, Closed, bufVars
<1>2. OtherFrames(p, "thread")
  BY FrameOthers DEF RecvWoken, Contexts
<1>3. \E label \in {"received", "run"} : Goto(p, "thread", label)
  BY DEF RecvWoken
<1>. QED  BY <1>1, <1>2, <1>3, ThreadCalm

LEMMA ReleaseBounds ==
    ASSUME IpcInv, BoundsInv, NEW p \in Procs, Release(p)
    PROVE  BoundsInv'
BY ThreadCalm DEF Release, At, Closed, OtherFrames, bufVars

LEMMA RespondBounds ==
    ASSUME IpcInv, BoundsInv, NEW p \in Procs, Respond(p)
    PROVE  BoundsInv'
<1>1. CanRun(p, "thread") /\ ~Closed(p) /\ UNCHANGED <<reads, writes>>
  BY DEF Respond, At, Closed, bufVars
<1>2. OtherFrames(p, "thread")
  BY FrameOthers DEF Respond, SendRsp, Contexts
<1>3. \E label \in {"sample", "run"} : Goto(p, "thread", label)
  BY DEF Respond, SendRsp
<1>. QED  BY <1>1, <1>2, <1>3, ThreadCalm

-----------------------------------------------------------------------------
(* The handler: it runs outside of the critical sections of its thread.    *)
LEMMA HandlerCalm ==
    ASSUME IpcInv, BoundsInv, NEW p \in Procs, NEW label, label # "store",
           pc[p]["handler"] # "idle" \/ ~InCriticalSection(p),
           Goto(p, "handler", label), UNCHANGED <<reads, writes, frame>>
    PROVE  BoundsInv'
<1>1. ~InCriticalSection(p)
  BY DEF BoundsInv, OneSender
<1>. QED  BY <1>1, CalmGoto DEF Contexts, OtherFrames

LEMMA HandlerMovesBounds ==
    ASSUME IpcInv, BoundsInv, NEW p \in Procs,
           \/ HandlerEnter(p) \/ HandlerSnapshot(p) \/ HandlerScan(p)
           \/ HandlerExit(p) \/ BufferDone(p)
    PROVE  BoundsInv'
<1>1. CASE HandlerEnter(p)
  BY <1>1, HandlerCalm DEF HandlerEnter, bufVars
<1>2. CASE HandlerSnapshot(p)
  BY <1>2, HandlerCalm DEF HandlerSnapshot, At, bufVars
<1>3. CASE HandlerScan(p)
  BY <1>3, HandlerCalm DEF HandlerScan, At, bufVars
<1>4. CASE HandlerExit(p)
  BY <1>4, HandlerCalm DEF HandlerExit, At, bufVars
<1>5. CASE BufferDone(p)
  BY <1>5, HandlerCalm DEF BufferDone, At, bufVars
<1>. QED  BY <1>1, <1>2, <1>3, <1>4, <1>5

LEMMA EnqueueSenders ==
    ASSUME IpcInv, BoundsInv, NEW p \in Procs, NEW m \in Messages,
           pc[p]["handler"] = "drain", Enqueue(p, m), UNCHANGED frame
    PROVE  SameSenders
<1>1. \A q \in Procs :
         /\ pc'[q]["handler"] = pc[q]["handler"]
         /\ \/ pc'[q]["thread"] = pc[q]["thread"]
            \/ pc[q]["thread"] = "pend" /\ pc'[q]["thread"] = "woken"
  BY EnqueueFields DEF IpcInv
<1>2. \A q \in Procs : Closed(q)' <=> Closed(q)
  BY <1>1 DEF Closed
<1>3. \A q \in Procs : pc'[q]["handler"] = "idle" \/ ~InCriticalSection(q)'
  BY <1>1 DEF BoundsInv, OneSender, InCriticalSection
<1>4. \A q \in Procs, e \in Contexts :
          pc'[q][e] = "store" => pc[q][e] = "store"
  BY <1>1 DEF Contexts
<1>. QED  BY <1>2, <1>3, <1>4 DEF SameSenders

LEMMA SameSendersStutter ==
    ASSUME BoundsInv, UNCHANGED <<pc, frame>>
    PROVE  SameSenders
BY DEF SameSenders, BoundsInv, OneSender, Closed, InCriticalSection

LEMMA TakeBounds ==
    ASSUME IpcInv, BoundsInv, NEW p \in Procs, NEW m \in Messages, Take(p, m),
           SameSenders
    PROVE  BoundsInv'
<1>0. PICK t \in Procs : t = sender[p]
  BY DEF IpcInv, TypeOK
<1>1. /\ pc[p]["handler"] = "drain"
      /\ reads[p][t] # writes[p][t]
      /\ reads' = [reads EXCEPT ![p][t] = (reads[p][t] + 1) % CountMod]
      /\ UNCHANGED writes
  BY <1>0 DEF Take, At, IpcInv, TypeOK
<1>2. OneSender'
  BY DEF SameSenders, OneSender
<1>3. \A d, s \in Procs : /\ Closed(d)' <=> Closed(d)
                          /\ Storing(d, s)' => Storing(d, s)
  BY DEF SameSenders, Storing
<1>4. Bounded(p, t)'
  <2>1. Bounded(p, t) /\ ~Closed(p)
    BY <1>1 DEF BoundsInv, IpcInv, ClosedIsMasked, Closed, ClosedLabels
  <2>2. /\ reads[p][t] \in 0 .. CountMod - 1
        /\ writes[p][t] \in 0 .. CountMod - 1
    BY CountsType
  <2>3. reads'[p][t] = (reads[p][t] + 1) % CountMod
    BY <1>1 DEF IpcInv, TypeOK
  <2>4. Entries(p, t)' = Entries(p, t) - 1
    BY <1>1, <2>2, <2>3, EntriesAfterTake DEF Entries
  <2>5. Entries(p, t)' >= 0
    <3>1. reads'[p][t] \in 0 .. CountMod - 1
      BY TakeFields
    <3>2. (writes[p][t] - reads'[p][t]) \in Int
      BY <2>2, <3>1
    <3>3. (writes[p][t] - reads'[p][t]) % CountMod \in 0 .. CountMod - 1
      BY <3>2, CountModType, ModType
    <3>. QED  BY <1>1, <3>3, CountModType DEF Entries
  <2>6. Closed(p)' <=> Closed(p)
    BY <1>3
  <2>7. Storing(p, t)' => Storing(p, t)
    BY <1>3
  <2>. QED  BY <2>1, <2>4, <2>5, <2>6, <2>7, Sizes DEF Bounded
<1>5. ASSUME NEW d \in Procs, NEW s \in Procs, d # p \/ s # t
      PROVE  Bounded(d, s)'
  <2>1. Bounded(d, s)
    BY DEF BoundsInv
  <2>2. reads'[d][s] = reads[d][s]
    BY <1>1, <1>5 DEF IpcInv, TypeOK
  <2>3. Entries(d, s)' = Entries(d, s)
    BY <1>1, <2>2 DEF Entries
  <2>4. (Closed(d)' <=> Closed(d)) /\ (Storing(d, s)' => Storing(d, s))
    BY <1>3
  <2>. QED  BY <2>1, <2>3, <2>4 DEF Bounded
<1>. QED  BY <1>2, <1>4, <1>5 DEF BoundsInv

LEMMA TakeResponseBounds ==
    ASSUME IpcInv, BoundsInv, NEW p \in Procs, NEW m \in Messages,
           TakeResponse(p, m)
    PROVE  BoundsInv'
<1>1. Take(p, m) /\ pc[p]["handler"] = "drain" /\ UNCHANGED frame
  BY DEF TakeResponse, Take, At
<1>2. Enqueue(p, m) \/ UNCHANGED pc
  BY DEF TakeResponse
<1>3. SameSenders
  BY <1>1, <1>2, EnqueueSenders, SameSendersStutter
<1>. QED  BY <1>1, <1>3, TakeBounds

LEMMA TakeCommandBounds ==
    ASSUME IpcInv, BoundsInv, NEW p \in Procs, NEW m \in Messages,
           TakeCommand(p, m)
    PROVE  BoundsInv'
<1>1. Take(p, m) /\ pc[p]["handler"] = "drain"
  BY DEF TakeCommand, Take, At
<1>2. \/ Enqueue(p, m) /\ UNCHANGED frame
      \/ UNCHANGED <<pc, frame>>
      \/ \E code \in Answers : SendRsp(p, "handler", m, code)
  BY DEF TakeCommand
<1>3. CASE \E code \in Answers : SendRsp(p, "handler", m, code)
  <2>1. OtherFrames(p, "handler")
    BY <1>3, FrameOthers DEF SendRsp, Contexts
  <2>2. ~InCriticalSection(p)
    BY <1>1 DEF BoundsInv, OneSender
  <2>3. Goto(p, "handler", "sample")
    BY <1>3 DEF SendRsp
  <2>4. SameSenders
    BY <2>1, <2>2, <2>3, SameSendersGoto DEF Contexts
  <2>. QED  BY <1>1, <2>4, TakeBounds
<1>4. CASE \/ Enqueue(p, m) /\ UNCHANGED frame
           \/ UNCHANGED <<pc, frame>>
  <2>1. SameSenders
    BY <1>1, <1>4, EnqueueSenders, SameSendersStutter
  <2>. QED  BY <1>1, <2>1, TakeBounds
<1>. QED  BY <1>2, <1>3, <1>4

-----------------------------------------------------------------------------
LEMMA InitBounds == Init => BoundsInv
<1>. SUFFICES ASSUME Init PROVE BoundsInv
  OBVIOUS
<1>1. OneSender
  BY DEF Init, OneSender, InCriticalSection, Contexts
<1>2. ASSUME NEW d \in Procs, NEW s \in Procs PROVE Bounded(d, s)
  <2>1. writes[d][s] = 0 /\ reads[d][s] = 0
    BY DEF Init
  <2>2. 0 \in 0 .. CountMod - 1
    BY Sizes
  <2>3. Entries(d, s) = 0
    BY <2>1, <2>2, EntriesWhenEmpty DEF Entries
  <2>4. ~Closed(d)
    BY DEF Init, Closed, Contexts
  <2>. QED  BY <2>3, <2>4, Sizes DEF Bounded
<1>. QED  BY <1>1, <1>2 DEF BoundsInv

LEMMA NextBounds == IpcInv /\ BoundsInv /\ [Next]_vars => BoundsInv'
<1>. SUFFICES ASSUME IpcInv, BoundsInv, [Next]_vars PROVE BoundsInv'
  OBVIOUS
<1>1. ASSUME NEW p \in Procs, HandlerStep(p) PROVE BoundsInv'
  BY <1>1, HandlerMovesBounds, TakeResponseBounds, TakeCommandBounds,
     SampleBounds, StoreBounds, RaiseBounds
     DEF HandlerStep, Contexts
<1>2. ASSUME NEW p \in Procs, CallStep(p) PROVE BoundsInv'
  BY <1>2, DisableBounds, EnableClearBounds, EnableOpenBounds, SampleBounds,
     StoreBounds, RaiseBounds, SendCmdReturnBounds, RecvWokenBounds,
     ReleaseBounds, RespondBounds
     DEF CallStep, Contexts
<1>3. CASE UNCHANGED vars
  <2>1. UNCHANGED <<pc, frame, reads, writes>>
    BY <1>3 DEF vars, bufVars
  <2>. QED  BY <2>1, SameSendersStutter, CalmStep DEF Calm
<1>4. CASE Next
  BY <1>1, <1>2, <1>4, DisableBounds, RecvBounds, RecvTimeoutBounds,
     SendCmdBounds
     DEF Next
<1>. QED  BY <1>3, <1>4

(* A closed buffer stays between 2S and 2S + 1 entries, an open one at S   *)
(* at most, and whoever is about to store has room (ipc_send_msg,          *)
(* ipc_disable, ipc_enable).                                               *)
THEOREM BoundsInvariant == Spec => []BoundsInv
<1>1. Init => BoundsInv
  BY InitBounds
<1>2. IpcInv /\ BoundsInv /\ [Next]_vars => BoundsInv'
  BY NextBounds
<1>. QED  BY <1>1, <1>2, IpcInvariant, PTL DEF Spec

(* No buffer is overrun, whoever disables and enables while a sender is    *)
(* between its look at the counts and its store (ipc_send_msg).            *)
THEOREM NoBufferOverrun == Spec => []BuffersBounded
<1>1. BoundsInv => BuffersBounded
  BY DEF BoundsInv, Bounded, Closed, BuffersBounded
<1>. QED  BY <1>1, BoundsInvariant, PTL
-----------------------------------------------------------------------------
(* The refinement.                                                         *)
(* A context that is about to send, or to store, has a message.            *)
SendersHaveMessage ==
    \A p \in Procs, c \in Contexts :
        pc[p][c] \in {"sample", "store"} => frame[p][c].msg \in Messages

-----------------------------------------------------------------------------
(* Division: a residue does not notice a multiple of the divisor.          *)
LEMMA NoSmallMultiple ==
    ASSUME NEW n \in Nat \ {0}, NEW q \in Int, -n < n * q, n * q < n
    PROVE  q = 0
<1>1. q >= 1 => n * q >= n
  OBVIOUS
<1>2. q <= -1 => n * q <= -n
  OBVIOUS
<1>. QED  BY <1>1, <1>2

LEMMA ModDivision ==
    ASSUME NEW n \in Nat \ {0}, NEW a \in Int
    PROVE  /\ a \div n \in Int /\ a % n \in 0 .. n - 1
           /\ a = n * (a \div n) + (a % n)
OBVIOUS

LEMMA ModShift ==
    ASSUME NEW n \in Nat \ {0}, NEW a \in Int, NEW k \in Int
    PROVE  (a + n * k) % n = a % n
<1>. DEFINE b == a + n * k
            x == a \div n
            y == b \div n
            r == a % n
            t == b % n
<1>1. x \in Int /\ r \in 0 .. n - 1 /\ a = n * x + r
  BY ModDivision
<1>2. y \in Int /\ t \in 0 .. n - 1 /\ b = n * y + t
  <2>1. b \in Int
    OBVIOUS
  <2>. HIDE DEF b
  <2>. QED  BY <2>1, ModDivision
<1>. HIDE DEF x, y, r, t
<1>3. n * (x + k - y) = t - r
  BY <1>1, <1>2
<1>4. x + k - y = 0
  BY <1>1, <1>2, <1>3, NoSmallMultiple
<1>5. t = r
  BY <1>1, <1>2, <1>3, <1>4
<1>. QED  BY <1>5 DEF t, r

(* The count after d steps of a counter, and the slot it designates: the   *)
(* count wraps at a multiple of the size.                                  *)
LEMMA SlotOfCount ==
    ASSUME NEW a \in Int
    PROVE  (a % CountMod) % IPC_CBUF_SIZE = a % IPC_CBUF_SIZE
<1>. DEFINE S == IPC_CBUF_SIZE
            k == CountMod \div S
            x == a \div CountMod
            r == a % CountMod
<1>1. S \in Nat \ {0} /\ CountMod \in Nat \ {0} /\ CountMod % S = 0
  BY IpcAssumption, Sizes
<1>2. k \in Int /\ CountMod = S * k
  BY <1>1, ModDivision
<1>3. x \in Int /\ r \in Int /\ a = CountMod * x + r
  BY <1>1, ModDivision
<1>. HIDE DEF S, k, x, r
<1>4. a = r + S * (k * x) /\ k * x \in Int
  BY <1>1, <1>2, <1>3
<1>5. a % S = r % S
  BY <1>1, <1>3, <1>4, ModShift, ZenonT(90)
<1>. QED  BY <1>5 DEF S, r

(* Two counts less than the size apart designate different slots.          *)
LEMMA SlotsDiffer ==
    ASSUME NEW a \in Int, NEW b \in Int, a < b, b < a + IPC_CBUF_SIZE
    PROVE  a % IPC_CBUF_SIZE # b % IPC_CBUF_SIZE
<1>. DEFINE S == IPC_CBUF_SIZE
            x == a \div S
            y == b \div S
<1>1. S \in Nat \ {0}
  BY Sizes
<1>2. /\ x \in Int /\ a = S * x + (a % S) /\ a % S \in Int
      /\ y \in Int /\ b = S * y + (b % S) /\ b % S \in Int
  BY <1>1, ModDivision
<1>. SUFFICES ASSUME a % S = b % S PROVE FALSE
  OBVIOUS
<1>3. b < a + S
  OBVIOUS
<1>. HIDE DEF x, y, S
<1>4. S * (y - x) = b - a /\ y - x \in Int
  BY <1>1, <1>2
<1>5. y - x = 0
  BY <1>1, <1>3, <1>4, NoSmallMultiple
<1>6. b - a = 0
  BY <1>1, <1>2, <1>4, <1>5
<1>. QED  BY <1>6

(* Both counts designate slots of the buffer.                              *)
LEMMA SlotType ==
    ASSUME NEW a \in Int
    PROVE  a % IPC_CBUF_SIZE \in 0 .. IPC_CBUF_SIZE - 1
BY Sizes, ModType

-----------------------------------------------------------------------------
(* The contents of a circular buffer, from its counts and its slots.       *)
Ring(r, w, slots) ==
    IF (w - r) % CountMod > IPC_CBUF_SIZE THEN <<>>
    ELSE [i \in 1 .. (w - r) % CountMod |-> slots[(r + i - 1) % IPC_CBUF_SIZE]]
Slots == [0 .. IPC_CBUF_SIZE - 1 -> Messages \union {NULL}]

LEMMA ContentsIsRing ==
    ASSUME NEW d \in Procs, NEW s \in Procs
    PROVE  /\ Contents(d, s) = Ring(reads[d][s], writes[d][s], cbufs[d][s])
           /\ Contents(d, s)' = Ring(reads'[d][s], writes'[d][s], cbufs'[d][s])
BY DEF Contents, Blocked, Entries, Ring

LEMMA RingOpen ==
    ASSUME NEW r \in 0 .. CountMod - 1, NEW w \in 0 .. CountMod - 1,
           NEW slots \in Slots, NEW n, n = (w - r) % CountMod,
           n <= IPC_CBUF_SIZE
    PROVE  /\ n \in 0 .. IPC_CBUF_SIZE
           /\ Ring(r, w, slots) \in Seq(Messages \union {NULL})
           /\ Len(Ring(r, w, slots)) = n
           /\ \A i \in 1 .. n : Ring(r, w, slots)[i]
                                   = slots[(r + i - 1) % IPC_CBUF_SIZE]
<1>1. n \in 0 .. IPC_CBUF_SIZE
  BY EntriesOfCounts, Sizes
<1>. DEFINE q == Ring(r, w, slots)
<1>2. q = [i \in 1 .. n |-> slots[(r + i - 1) % IPC_CBUF_SIZE]]
  BY <1>1, Sizes DEF Ring
<1>3. ASSUME NEW i \in 1 .. n
      PROVE  slots[(r + i - 1) % IPC_CBUF_SIZE] \in Messages \union {NULL}
  <2>1. (r + i - 1) % IPC_CBUF_SIZE \in 0 .. IPC_CBUF_SIZE - 1
    BY <1>1, SlotType
  <2>. QED  BY <2>1 DEF Slots
<1>. HIDE DEF q
<1>4. q \in [1 .. n -> Messages \union {NULL}]
  BY <1>2, <1>3
<1>5. q \in Seq(Messages \union {NULL}) /\ Len(q) = n
  BY <1>1, <1>4
<1>. QED  BY <1>1, <1>2, <1>5 DEF q

\* The same, as one fact about the sequence q.
Opens(q, r, slots, n) ==
    /\ n \in 0 .. IPC_CBUF_SIZE
    /\ q \in Seq(Messages \union {NULL}) /\ Len(q) = n
    /\ \A i \in 1 .. n : q[i] = slots[(r + i - 1) % IPC_CBUF_SIZE]
LEMMA RingOpens ==
    ASSUME NEW r, NEW w, NEW slots, NEW n, r \in 0 .. CountMod - 1, w \in 0 .. CountMod - 1,
           slots \in Slots, n = (w - r) % CountMod, n <= IPC_CBUF_SIZE
    PROVE  Opens(Ring(r, w, slots), r, slots, n)
BY RingOpen DEF Opens

LEMMA RingEmpty ==
    ASSUME NEW r, NEW w, NEW slots,
           (w - r) % CountMod = 0 \/ (w - r) % CountMod > IPC_CBUF_SIZE
    PROVE  Ring(r, w, slots) = <<>>
BY Sizes DEF Ring

(* A store appends ...                                                     *)
LEMMA RingStore ==
    ASSUME NEW r \in 0 .. CountMod - 1, NEW w \in 0 .. CountMod - 1,
           NEW slots \in Slots, NEW m \in Messages,
           (w - r) % CountMod < IPC_CBUF_SIZE
    PROVE  /\ Len(Ring(r, w, slots)) < IPC_CBUF_SIZE
           /\ Ring(r, (w + 1) % CountMod,
                   [slots EXCEPT ![w % IPC_CBUF_SIZE] = m])
                 = Append(Ring(r, w, slots), m)
<1>. DEFINE S == IPC_CBUF_SIZE
            n == (w - r) % CountMod
            v == (w + 1) % CountMod
            filled == [slots EXCEPT ![w % S] = m]
            q == Ring(r, w, slots)
            q1 == Ring(r, v, filled)
            M == Messages \union {NULL}
<1>1. S \in Nat \ {0} /\ CountMod \in Nat \ {0} /\ n < S /\ n < CountMod - 1
  BY Sizes, EntriesOfCounts
<1>2. v \in 0 .. CountMod - 1 /\ (v - r) % CountMod = n + 1
  BY <1>1, EntriesAfterStore, Successor
<1>3. filled \in Slots
  BY DEF Slots
<1>4. /\ n \in 0 .. S
      /\ q \in Seq(M) /\ Len(q) = n
      /\ \A i \in 1 .. n : q[i] = slots[(r + i - 1) % S]
  <2>. HIDE DEF n, q
  <2>1. n = (w - r) % CountMod
    BY DEF n
  <2>2. Opens(q, r, slots, n)
    BY <1>1, <2>1, RingOpens DEF q
  <2>. QED  BY <2>2 DEF Opens
<1>5. /\ q1 \in Seq(M) /\ Len(q1) = n + 1
      /\ \A i \in 1 .. n + 1 : q1[i] = filled[(r + i - 1) % S]
  <2>. DEFINE k == n + 1
  <2>1. k = (v - r) % CountMod /\ k <= S
    BY <1>1, <1>2, <1>4
  <2>. HIDE DEF n, v, q1, filled, k
  <2>2. Opens(q1, r, filled, k)
    BY <1>2, <1>3, <2>1, RingOpens DEF q1
  <2>. QED  BY <2>2 DEF k, Opens
<1>6. w % S = (r + n) % S
  <2>1. r + n = w \/ r + n = w + CountMod
    BY EntriesOfCounts, Sizes
  <2>2. (r + n) % CountMod = w
    <3>. DEFINE a == r + n
    <3>1. a \in Int /\ (a = w \/ a = w + CountMod)
      BY <1>4, <2>1
    <3>. HIDE DEF a
    <3>. QED  BY <3>1, CountDifference, Sizes DEF a
  <2>3. r + n \in Int
    BY <1>4
  <2>. HIDE DEF n
  <2>. QED  BY <2>2, <2>3, SlotOfCount
<1>7. ASSUME NEW i \in 1 .. n
      PROVE  filled[(r + i - 1) % S] = slots[(r + i - 1) % S]
  <2>1. (r + i - 1) % S # (r + n) % S
    <3>1. /\ r + i - 1 \in Int /\ r + n \in Int
          /\ r + i - 1 < r + n /\ r + n < (r + i - 1) + IPC_CBUF_SIZE
      <4>. HIDE DEF n
      <4>. QED  BY <1>1, <1>4
    <3>. HIDE DEF n
    <3>. QED  BY <3>1, SlotsDiffer
  <2>2. (r + i - 1) % S \in 0 .. S - 1
    BY <1>4, SlotType
  <2>. QED  BY <1>6, <2>1, <2>2 DEF Slots
<1>8. filled[(r + (n + 1) - 1) % S] = m
  <2>1. w % S \in 0 .. S - 1
    BY SlotType
  <2>2. r + (n + 1) - 1 = r + n
    BY <1>4
  <2>. QED  BY <1>6, <2>1, <2>2 DEF Slots
<1>9. Append(q, m) = q1
  <2>. HIDE DEF n, q, q1, filled, S
  <2>1. /\ Append(q, m) \in Seq(M) /\ Len(Append(q, m)) = n + 1
        /\ \A i \in 1 .. n + 1 :
              Append(q, m)[i] = IF i = n + 1 THEN m ELSE q[i]
    BY <1>4 DEF M
  <2>2. \A i \in 1 .. n + 1 : Append(q, m)[i] = q1[i]
    BY <1>4, <1>5, <1>7, <1>8, <2>1, SMTT(60)
  <2>. QED  BY <1>4, <1>5, <2>1, <2>2, SeqEqual
<1>. QED  BY <1>1, <1>4, <1>9

(* ... and a take removes the first message.                               *)
LEMMA RingTake ==
    ASSUME NEW r \in 0 .. CountMod - 1, NEW w \in 0 .. CountMod - 1,
           NEW slots \in Slots, r # w, (w - r) % CountMod <= IPC_CBUF_SIZE
    PROVE  /\ Ring(r, w, slots) # <<>>
           /\ Head(Ring(r, w, slots)) = slots[r % IPC_CBUF_SIZE]
           /\ Ring((r + 1) % CountMod, w, slots) = Tail(Ring(r, w, slots))
<1>. DEFINE S == IPC_CBUF_SIZE
            n == (w - r) % CountMod
            v == (r + 1) % CountMod
            q == Ring(r, w, slots)
            q1 == Ring(v, w, slots)
            M == Messages \union {NULL}
<1>1. S \in Nat \ {0} /\ CountMod \in Nat \ {0} /\ n > 0 /\ n <= S
  BY Sizes, EntriesOfCounts
<1>2. v \in 0 .. CountMod - 1 /\ (w - v) % CountMod = n - 1
  BY <1>1, EntriesAfterTake, Successor
<1>4. /\ n \in 0 .. S
      /\ q \in Seq(M) /\ Len(q) = n
      /\ \A i \in 1 .. n : q[i] = slots[(r + i - 1) % S]
  <2>. HIDE DEF n, q
  <2>1. n = (w - r) % CountMod
    BY DEF n
  <2>2. Opens(q, r, slots, n)
    BY <1>1, <2>1, RingOpens DEF q
  <2>. QED  BY <2>2 DEF Opens
<1>5. /\ q1 \in Seq(M) /\ Len(q1) = n - 1
      /\ \A i \in 1 .. n - 1 : q1[i] = slots[(v + i - 1) % S]
  <2>. DEFINE k == n - 1
  <2>1. k = (w - v) % CountMod /\ k <= S
    BY <1>1, <1>2, <1>4
  <2>. HIDE DEF n, v, q1, k
  <2>2. Opens(q1, v, slots, k)
    BY <1>2, <2>1, RingOpens DEF q1
  <2>. QED  BY <2>2 DEF k, Opens
<1>6. ASSUME NEW i \in 1 .. n - 1
      PROVE  (v + i - 1) % S = (r + (i + 1) - 1) % S
  <2>1. v = r + 1 \/ (v = 0 /\ r + 1 = CountMod)
    BY Successor
  <2>2. i \in Int /\ 1 <= i /\ i < CountMod
    BY <1>1, <1>4, Sizes
  <2>3. (r + i) % S = (v + i - 1) % S
    <3>1. CASE v = r + 1
      <4>. HIDE DEF v
      <4>1. v + i - 1 = r + i
        BY <3>1, <2>2
      <4>. QED  BY <4>1
    <3>2. CASE v = 0 /\ r + 1 = CountMod
      <4>. DEFINE a == r + i
      <4>1. a \in Int /\ a = (i - 1) + CountMod
        BY <2>2, <3>2
      <4>2. a % CountMod = i - 1
        <5>. HIDE DEF a
        <5>. QED  BY <2>2, <4>1, CountDifference, Sizes
      <4>3. (i - 1) % S = a % S
        <5>. HIDE DEF a
        <5>. QED  BY <4>1, <4>2, SlotOfCount
      <4>4. v + i - 1 = i - 1
        <5>. HIDE DEF v
        <5>. QED  BY <2>2, <3>2
      <4>. HIDE DEF v
      <4>. QED  BY <4>3, <4>4
    <3>. QED  BY <2>1, <3>1, <3>2
  <2>4. r + (i + 1) - 1 = r + i
    BY <2>2
  <2>. HIDE DEF v
  <2>. QED  BY <2>3, <2>4
<1>7. q # <<>> /\ Head(q) = slots[r % S]
  <2>1. q # <<>> /\ Head(q) = q[1]
    <3>. HIDE DEF q, n
    <3>. QED  BY <1>1, <1>4
  <2>2. q[1] = slots[(r + 1 - 1) % S]
    <3>. HIDE DEF q, n
    <3>. QED  BY <1>1, <1>4
  <2>3. r + 1 - 1 = r
    OBVIOUS
  <2>. HIDE DEF q
  <2>. QED  BY <2>1, <2>2, <2>3
<1>8. Tail(q) = q1
  <2>. HIDE DEF n, q, q1, S, v
  <2>1. /\ Tail(q) \in Seq(M) /\ Len(Tail(q)) = n - 1
        /\ \A i \in 1 .. n - 1 : Tail(q)[i] = q[i + 1]
    BY <1>1, <1>4, <1>7
  <2>2. \A i \in 1 .. n - 1 : q[i + 1] = slots[(r + (i + 1) - 1) % S]
    BY <1>1, <1>4
  <2>3. \A i \in 1 .. n - 1 : Tail(q)[i] = q1[i]
    BY <1>5, <1>6, <2>1, <2>2
  <2>. QED  BY <1>5, <2>1, <2>3, SeqEqual
<1>. QED  BY <1>7, <1>8
-----------------------------------------------------------------------------
(* What a step does to the channels.                                       *)
Same(d, s) == Contents(d, s)' = Contents(d, s)
Stutters == \A d, s \in Procs : Same(d, s)
Closes(p) ==
    \A d, s \in Procs : IF d = p THEN Contents(d, s)' = <<>> ELSE Same(d, s)
SendsTo(d, s, m) ==
    /\ Len(Contents(d, s)) < IPC_CBUF_SIZE
    /\ Contents(d, s)' = Append(Contents(d, s), m)
    /\ \A e, t \in Procs : e # d \/ t # s => Same(e, t)
ReceivesFrom(d, s) ==
    /\ Contents(d, s) # <<>>
    /\ Contents(d, s)' = Tail(Contents(d, s))
    /\ \A e, t \in Procs : e # d \/ t # s => Same(e, t)
ChannelStep ==
    \/ Stutters
    \/ \E p \in Procs : Closes(p)
    \/ \E d, s \in Procs : ReceivesFrom(d, s)
    \/ \E d, s \in Procs, m \in Messages : SendsTo(d, s, m)

LEMMA SameCell ==
    ASSUME NEW d \in Procs, NEW s \in Procs,
           reads'[d][s] = reads[d][s], writes'[d][s] = writes[d][s],
           cbufs'[d][s] = cbufs[d][s]
    PROVE  Same(d, s)
BY ContentsIsRing DEF Same

LEMMA CalmChannels ==
    ASSUME UNCHANGED bufVars
    PROVE  Stutters
BY SameCell DEF Stutters, bufVars

LEMMA CellType ==
    ASSUME IpcInv, NEW d \in Procs, NEW s \in Procs
    PROVE  cbufs[d][s] \in Slots
BY DEF IpcInv, TypeOK, Slots

LEMMA StoreChannel ==
    ASSUME IpcInv, BoundsInv, SendersHaveMessage,
           NEW p \in Procs, NEW c \in Contexts, Store(p, c)
    PROVE  \/ Stutters
           \/ /\ frame[p][c].target \in Procs /\ frame[p][c].msg \in Messages
              /\ SendsTo(frame[p][c].target, p, frame[p][c].msg)
<1>0. PICK d \in Procs : d = frame[p][c].target
  BY FrameTarget
<1>. DEFINE m == frame[p][c].msg
            w == writes[d][p]
            r == reads[d][p]
            n == (w - r) % CountMod
<1>1. /\ pc[p][c] = "store" /\ m \in Messages
      /\ UNCHANGED reads
      /\ cbufs' = [cbufs EXCEPT ![d][p][w % IPC_CBUF_SIZE] = m]
      /\ writes' = [writes EXCEPT ![d][p] = (w + 1) % CountMod]
  BY <1>0 DEF Store, At, SendersHaveMessage
<1>2. \A e, t \in Procs : e # d \/ t # p => Same(e, t)
  <2>. SUFFICES ASSUME NEW e \in Procs, NEW t \in Procs, e # d \/ t # p
                PROVE  Same(e, t)
    OBVIOUS
  <2>1. /\ reads'[e][t] = reads[e][t]
        /\ writes'[e][t] = writes[e][t]
        /\ cbufs'[e][t] = cbufs[e][t]
    BY <1>1 DEF IpcInv, TypeOK
  <2>. QED  BY <2>1, SameCell
<1>3. /\ reads'[d][p] = r
      /\ writes'[d][p] = (w + 1) % CountMod
      /\ cbufs'[d][p] = [cbufs[d][p] EXCEPT ![w % IPC_CBUF_SIZE] = m]
  BY <1>1 DEF IpcInv, TypeOK
<1>4. r \in 0 .. CountMod - 1 /\ w \in 0 .. CountMod - 1
  BY CountsType
<1>5. Bounded(d, p) /\ Storing(d, p)
  BY <1>0, <1>1 DEF BoundsInv, Storing
<1>6. CASE Closed(d)
  <2>1. n = 2 * IPC_CBUF_SIZE
    BY <1>5, <1>6 DEF Bounded, Entries
  <2>2. (((w + 1) % CountMod) - r) % CountMod = n + 1
    <3>1. n < CountMod - 1
      <4>. HIDE DEF n
      <4>. QED  BY <2>1, Sizes
    <3>. QED  BY <1>4, <3>1, EntriesAfterStore
  <2>3. Contents(d, p) = <<>> /\ Contents(d, p)' = <<>>
    BY <1>3, <2>1, <2>2, ContentsIsRing, RingEmpty, Sizes
  <2>. QED  BY <1>2, <2>3 DEF Stutters, Same
<1>7. CASE ~Closed(d)
  <2>1. n < IPC_CBUF_SIZE
    BY <1>5, <1>7 DEF Bounded, Entries
  <2>2. /\ Len(Ring(r, w, cbufs[d][p])) < IPC_CBUF_SIZE
        /\ Ring(r, (w + 1) % CountMod,
                [cbufs[d][p] EXCEPT ![w % IPC_CBUF_SIZE] = m])
              = Append(Ring(r, w, cbufs[d][p]), m)
    BY <1>1, <1>4, <2>1, RingStore, CellType
  <2>3. /\ Contents(d, p) = Ring(r, w, cbufs[d][p])
        /\ Contents(d, p)' = Ring(r, (w + 1) % CountMod,
                                  [cbufs[d][p] EXCEPT ![w % IPC_CBUF_SIZE] = m])
    BY <1>3, ContentsIsRing
  <2>4. Len(Contents(d, p)) < IPC_CBUF_SIZE /\ Contents(d, p)' = Append(Contents(d, p), m)
    BY <2>2, <2>3
  <2>5. SendsTo(d, p, m)
    BY <1>2, <2>4 DEF SendsTo
  <2>. QED  BY <1>0, <1>1, <2>5
<1>. QED  BY <1>6, <1>7

LEMMA TakeChannel ==
    ASSUME IpcInv, BoundsInv, NEW p \in Procs, NEW m \in Messages, Take(p, m)
    PROVE  \E s \in Procs :
              ReceivesFrom(p, s) /\ Head(Contents(p, s)) = m
<1>0. PICK s \in Procs : s = sender[p]
  BY DEF IpcInv, TypeOK
<1>. DEFINE w == writes[p][s]
            r == reads[p][s]
<1>1. /\ pc[p]["handler"] = "drain" /\ r # w
      /\ m = cbufs[p][s][r % IPC_CBUF_SIZE]
      /\ UNCHANGED <<writes, cbufs>>
      /\ reads' = [reads EXCEPT ![p][s] = (reads[p][s] + 1) % CountMod]
  BY <1>0 DEF Take, At, IpcInv, TypeOK
<1>2. \A e, t \in Procs : e # p \/ t # s => Same(e, t)
  <2>. SUFFICES ASSUME NEW e \in Procs, NEW t \in Procs, e # p \/ t # s
                PROVE  Same(e, t)
    OBVIOUS
  <2>1. reads'[e][t] = reads[e][t]
    BY <1>1 DEF IpcInv, TypeOK
  <2>. QED  BY <1>1, <2>1, SameCell
<1>3. reads'[p][s] = (r + 1) % CountMod
  BY <1>1 DEF IpcInv, TypeOK
<1>4. r \in 0 .. CountMod - 1 /\ w \in 0 .. CountMod - 1
  BY CountsType
<1>5. (w - r) % CountMod <= IPC_CBUF_SIZE
  BY <1>1, Sizes, SMTT(60) DEF BoundsInv, Bounded, Entries, IpcInv, ClosedIsMasked,
                     Closed, ClosedLabels
<1>6. /\ Ring(r, w, cbufs[p][s]) # <<>>
      /\ Head(Ring(r, w, cbufs[p][s])) = m
      /\ Ring((r + 1) % CountMod, w, cbufs[p][s])
            = Tail(Ring(r, w, cbufs[p][s]))
  BY <1>1, <1>4, <1>5, RingTake, CellType
<1>7. /\ Contents(p, s) = Ring(r, w, cbufs[p][s])
      /\ Contents(p, s)' = Ring((r + 1) % CountMod, w, cbufs[p][s])
  BY <1>1, <1>3, ContentsIsRing
<1>. HIDE DEF r, w
<1>8. ReceivesFrom(p, s) /\ Head(Contents(p, s)) = m
  BY <1>2, <1>6, <1>7 DEF ReceivesFrom
<1>. QED  BY <1>8

LEMMA DisableChannel ==
    ASSUME IpcInv, BoundsInv, NEW p \in Procs, Disable(p) \/ EnableOpen(p)
    PROVE  Closes(p)
<1>1. UNCHANGED <<writes, cbufs>>
  BY DEF Disable, EnableOpen
<1>2. ASSUME NEW e \in Procs, NEW t \in Procs, e # p
      PROVE  Same(e, t)
  <2>1. reads'[e][t] = reads[e][t]
    BY <1>2 DEF Disable, EnableOpen, IpcInv, TypeOK
  <2>. QED  BY <1>1, <2>1, SameCell
<1>3. ASSUME NEW t \in Procs PROVE Contents(p, t)' = <<>>
  <2>. DEFINE w == writes[p][t]
  <2>1. w \in 0 .. CountMod - 1
    BY CountsType
  <2>2. CASE Disable(p)
    <3>1. reads'[p][t] = (w - (2 * IPC_CBUF_SIZE)) % CountMod
      BY <2>2 DEF Disable, IpcInv, TypeOK
    <3>2. (w - reads'[p][t]) % CountMod = 2 * IPC_CBUF_SIZE
      BY <2>1, <3>1, EntriesAfterDisable
    <3>. QED  BY <1>1, <3>2, ContentsIsRing, RingEmpty, Sizes
  <2>3. CASE EnableOpen(p)
    <3>1. reads'[p][t] = w
      BY <2>3 DEF EnableOpen, IpcInv, TypeOK
    <3>2. (w - reads'[p][t]) % CountMod = 0
      BY <2>1, <3>1, EntriesWhenEmpty
    <3>. QED  BY <1>1, <3>2, ContentsIsRing, RingEmpty
  <2>. QED  BY <2>2, <2>3
<1>. QED  BY <1>2, <1>3 DEF Closes

LEMMA NextChannel ==
    ASSUME IpcInv, BoundsInv, SendersHaveMessage, [Next]_vars
    PROVE  ChannelStep
<1>1. ASSUME NEW p \in Procs, HandlerStep(p) PROVE ChannelStep
  <2>1. CASE \/ HandlerEnter(p) \/ HandlerSnapshot(p) \/ HandlerScan(p)
             \/ HandlerExit(p) \/ BufferDone(p)
             \/ Sample(p, "handler") \/ Raise(p, "handler")
    BY <2>1, CalmChannels DEF ChannelStep, HandlerEnter, HandlerSnapshot,
       HandlerScan, HandlerExit, BufferDone, Sample, Raise
  <2>2. CASE \E m \in Messages : TakeResponse(p, m) \/ TakeCommand(p, m)
    BY <2>2, TakeChannel DEF TakeResponse, TakeCommand, ChannelStep
  <2>3. CASE Store(p, "handler")
    BY <2>3, StoreChannel DEF Contexts, ChannelStep
  <2>. QED  BY <1>1, <2>1, <2>2, <2>3 DEF HandlerStep
<1>2. ASSUME NEW p \in Procs,
             \/ CallStep(p) \/ Disable(p) \/ Recv(p) \/ RecvTimeout(p)
             \/ \E m \in Messages : SendCmd(p, m)
      PROVE  ChannelStep
  <2>1. CASE \/ EnableClear(p) \/ SendCmdReturn(p) \/ RecvWoken(p)
             \/ Release(p) \/ Respond(p) \/ Recv(p) \/ RecvTimeout(p)
             \/ Sample(p, "thread") \/ Raise(p, "thread")
             \/ \E m \in Messages : SendCmd(p, m)
    BY <2>1, CalmChannels DEF ChannelStep, EnableClear, SendCmdReturn,
       RecvWoken, Release, Respond, Recv, RecvTimeout, Sample, Raise, SendCmd
  <2>2. CASE Disable(p) \/ EnableOpen(p)
    BY <2>2, DisableChannel DEF ChannelStep
  <2>3. CASE Store(p, "thread")
    BY <2>3, StoreChannel DEF Contexts, ChannelStep
  <2>. QED  BY <1>2, <2>1, <2>2, <2>3 DEF CallStep
<1>3. CASE UNCHANGED vars
  BY <1>3, CalmChannels DEF vars, ChannelStep
<1>. QED  BY <1>1, <1>2, <1>3 DEF Next

-----------------------------------------------------------------------------
(* Who sends has a message: no step takes it away from him.                *)
KeepsMessages(p, c) ==
    \A q \in Procs, e \in Contexts :
        (q # p \/ e # c) /\ pc'[q][e] \in {"sample", "store"}
        => pc[q][e] = pc'[q][e] /\ frame'[q][e] = frame[q][e]

LEMMA SendsHasMessage ==
    ASSUME IpcInv, SendersHaveMessage, NEW p \in Procs, NEW c \in Contexts,
           NEW label, Goto(p, c, label), OtherFrames(p, c),
           label \in {"sample", "store"} => frame'[p][c].msg \in Messages
    PROVE  SendersHaveMessage'
<1>1. /\ pc'[p][c] = label
      /\ \A q \in Procs, e \in Contexts :
            q # p \/ e # c => pc'[q][e] = pc[q][e]
  BY GotoFields DEF IpcInv
<1>. QED  BY <1>1 DEF SendersHaveMessage, OtherFrames

LEMMA SendRspMessage ==
    ASSUME IpcInv, NEW p \in Procs, NEW c \in Contexts, NEW m \in Messages,
           NEW code, SendRsp(p, c, m, code)
    PROVE  /\ OtherFrames(p, c)
           /\ frame'[p][c].msg = m
<1>1. Sends(p, c, m, Owner[m], "response")
  BY DEF SendRsp
<1>2. frame' = [frame EXCEPT ![p][c] = Frame(m, Owner[m], "response")]
  BY <1>1 DEF Sends
<1>. QED  BY <1>2 DEF OtherFrames, Frame, IpcInv, TypeOK

LEMMA HandlerMessages ==
    ASSUME IpcInv, SendersHaveMessage, NEW p \in Procs, HandlerStep(p)
    PROVE  SendersHaveMessage'
<1>1. CASE \/ HandlerEnter(p) \/ HandlerSnapshot(p) \/ HandlerScan(p)
           \/ HandlerExit(p) \/ BufferDone(p)
  <2>1. /\ \E label \in {"snapshot", "scan", "drain", "idle"} :
              Goto(p, "handler", label)
        /\ UNCHANGED frame
    BY <1>1 DEF HandlerEnter, HandlerSnapshot, HandlerScan, HandlerExit,
                BufferDone
  <2>. QED  BY <2>1, SendsHasMessage DEF OtherFrames, Contexts
<1>2. ASSUME NEW m \in Messages, TakeResponse(p, m) \/ TakeCommand(p, m)
      PROVE  SendersHaveMessage'
  <2>1. \/ Enqueue(p, m) /\ UNCHANGED frame
        \/ UNCHANGED <<pc, frame>>
        \/ \E code \in Answers : SendRsp(p, "handler", m, code)
    BY <1>2 DEF TakeResponse, TakeCommand
  <2>2. CASE Enqueue(p, m) /\ UNCHANGED frame
    <3>1. \A q \in Procs :
             /\ pc'[q]["handler"] = pc[q]["handler"]
             /\ pc'[q]["thread"] = pc[q]["thread"] \/ pc'[q]["thread"] = "woken"
      BY <2>2, EnqueueFields DEF IpcInv
    <3>. QED  BY <2>2, <3>1 DEF SendersHaveMessage, Contexts
  <2>3. CASE UNCHANGED <<pc, frame>>
    BY <2>3 DEF SendersHaveMessage
  <2>4. CASE \E code \in Answers : SendRsp(p, "handler", m, code)
    <3>1. Goto(p, "handler", "sample")
      BY <2>4 DEF SendRsp
    <3>2. OtherFrames(p, "handler") /\ frame'[p]["handler"].msg = m
      BY <2>4, SendRspMessage DEF Contexts
    <3>. QED  BY <3>1, <3>2, SendsHasMessage DEF Contexts
  <2>. QED  BY <2>1, <2>2, <2>3, <2>4
<1>3. CASE Sample(p, "handler") \/ Store(p, "handler") \/ Raise(p, "handler")
  <2>1. UNCHANGED frame /\ \E label : Goto(p, "handler", label)
    BY <1>3 DEF Sample, Store, Raise
  <2>2. pc[p]["handler"] = "raise" => Raise(p, "handler")
    BY <1>3 DEF Sample, Store, At
  <2>3. Raise(p, "handler") => Goto(p, "handler", "drain")
    BY DEF Raise, AfterSend
  <2>4. pc[p]["handler"] \in {"sample", "store"} =>
           frame[p]["handler"].msg \in Messages
    BY DEF SendersHaveMessage, Contexts
  <2>5. pc[p]["handler"] \in {"sample", "store", "raise"}
    BY <1>3 DEF Sample, Store, Raise, At
  <2>. QED  BY <2>1, <2>2, <2>3, <2>4, <2>5, SendsHasMessage
            DEF OtherFrames, Contexts
<1>. QED  BY <1>1, <1>2, <1>3 DEF HandlerStep

LEMMA ThreadMessages ==
    ASSUME IpcInv, SendersHaveMessage, NEW p \in Procs,
           \/ CallStep(p) \/ Disable(p) \/ Recv(p) \/ RecvTimeout(p)
           \/ \E m \in Messages : SendCmd(p, m)
    PROVE  SendersHaveMessage'
<1>1. CASE \/ Disable(p) \/ EnableClear(p) \/ EnableOpen(p)
           \/ SendCmdReturn(p) \/ Release(p) \/ RecvTimeout(p)
  <2>1. /\ \E label \in {"disabled", "cleared", "run"} :
              Goto(p, "thread", label)
        /\ UNCHANGED frame
    BY <1>1 DEF Disable, EnableClear, EnableOpen, SendCmdReturn, Release,
                RecvTimeout
  <2>. QED  BY <2>1, SendsHasMessage DEF OtherFrames, Contexts
<1>2. CASE Sample(p, "thread") \/ Store(p, "thread")
  <2>1. UNCHANGED frame /\ \E label : Goto(p, "thread", label)
    BY <1>2 DEF Sample, Store
  <2>2. frame[p]["thread"].msg \in Messages
    BY <1>2 DEF SendersHaveMessage, Contexts, Sample, Store, At
  <2>. QED  BY <2>1, <2>2, SendsHasMessage DEF OtherFrames, Contexts
<1>3. CASE Raise(p, "thread")
  <2>1. AfterSend(p, "thread", "IPC_RC_SUCCESS") \notin {"sample", "store"}
    BY DEF AfterSend
  <2>. QED  BY <1>3, <2>1, SendsHasMessage DEF Raise, OtherFrames, Contexts
<1>4. CASE Recv(p) \/ RecvWoken(p)
  <2>1. \E label \in {"received", "woken", "pend", "run"} :
           Goto(p, "thread", label)
    BY <1>4 DEF Recv, RecvWoken
  <2>2. OtherFrames(p, "thread")
    BY <1>4, FrameOthers DEF Recv, RecvWoken, Contexts
  <2>. QED  BY <2>1, <2>2, SendsHasMessage DEF Contexts
<1>5. CASE Respond(p)
  <2>. DEFINE m == frame[p]["thread"].msg
  <2>1. m \in Messages
    BY <1>5 DEF Respond, At, IpcInv, ReceivedIsMessage
  <2>2. CASE Goto(p, "thread", "run") /\ UNCHANGED frame
    BY <2>2, SendsHasMessage DEF OtherFrames, Contexts
  <2>3. CASE \E code \in Answers : SendRsp(p, "thread", m, code)
    <3>1. Goto(p, "thread", "sample")
      BY <2>3 DEF SendRsp
    <3>2. OtherFrames(p, "thread") /\ frame'[p]["thread"].msg = m
      BY <2>1, <2>3, SendRspMessage DEF Contexts
    <3>. QED  BY <2>1, <3>1, <3>2, SendsHasMessage DEF Contexts
  <2>. QED  BY <1>5, <2>2, <2>3 DEF Respond
<1>6. ASSUME NEW m \in Messages, SendCmd(p, m) PROVE SendersHaveMessage'
  <2>1. /\ frame' = [frame EXCEPT ![p]["thread"] =
                        Frame(m, Target[m], "command")]
        /\ Goto(p, "thread", "sample")
    BY <1>6 DEF SendCmd, Sends
  <2>2. OtherFrames(p, "thread") /\ frame'[p]["thread"].msg = m
    BY <2>1, ZenonT(60) DEF OtherFrames, Frame, IpcInv, TypeOK, Contexts
  <2>. QED  BY <2>1, <2>2, SendsHasMessage DEF Contexts
<1>. QED  BY <1>1, <1>2, <1>3, <1>4, <1>5, <1>6 DEF CallStep

LEMMA MessagesInvariant == Spec => []SendersHaveMessage
<1>1. Init => SendersHaveMessage
  BY DEF Init, SendersHaveMessage, Contexts
<1>2. IpcInv /\ SendersHaveMessage /\ [Next]_vars => SendersHaveMessage'
  <2>. SUFFICES ASSUME IpcInv, SendersHaveMessage, [Next]_vars
                PROVE  SendersHaveMessage'
    OBVIOUS
  <2>1. CASE Next
    BY <2>1, HandlerMessages, ThreadMessages DEF Next
  <2>2. CASE UNCHANGED vars
    BY <2>2 DEF vars, SendersHaveMessage
  <2>. QED  BY <2>1, <2>2
<1>. QED  BY <1>1, <1>2, IpcInvariant, PTL DEF Spec

-----------------------------------------------------------------------------
(* The state of the abstract channels.                                     *)
Channels == [d \in Procs |-> [s \in Procs |-> Contents(d, s)]]

LEMMA InitChannel == Init => Channel!Init
<1>. SUFFICES ASSUME Init PROVE Channel!Init
  OBVIOUS
<1>1. ASSUME NEW d \in Procs, NEW s \in Procs PROVE Contents(d, s) = <<>>
  <2>1. writes[d][s] = 0 /\ reads[d][s] = 0
    BY DEF Init
  <2>2. (writes[d][s] - reads[d][s]) % CountMod = 0
    BY <2>1, Sizes, EntriesWhenEmpty
  <2>. QED  BY <2>2, ContentsIsRing, RingEmpty
<1>. QED  BY <1>1 DEF Channel!Init

LEMMA ChannelStepIsNext ==
    ASSUME ChannelStep
    PROVE  [Channel!Next]_Channels
<1>1. CASE Stutters
  BY <1>1 DEF Stutters, Same, Channels
<1>2. ASSUME NEW p \in Procs, Closes(p) PROVE Channel!Next
  <2>1. Channels' = [Channels EXCEPT ![p] = [s \in Procs |-> <<>>]]
    BY <1>2 DEF Channels, Closes, Same
  <2>. QED  BY <2>1 DEF Channels, Channel!Close, Channel!Next
<1>3. ASSUME NEW d \in Procs, NEW s \in Procs, ReceivesFrom(d, s)
      PROVE  Channel!Next
  <2>1. Channels[d][s] = Contents(d, s)
    BY DEF Channels
  <2>2. Contents(d, s)' = Tail(Channels[d][s])
    BY <1>3, <2>1 DEF ReceivesFrom
  <2>3. Channels' = [Channels EXCEPT ![d][s] = Tail(Channels[d][s])]
    <3>. DEFINE next == Tail(Channels[d][s])
    <3>1. Contents(d, s)' = next
      BY <2>2
    <3>. HIDE DEF next
    <3>2. \A e, t \in Procs : e # d \/ t # s => Same(e, t)
      BY <1>3 DEF ReceivesFrom
    <3>3. Channels' = [Channels EXCEPT ![d][s] = next]
      BY <3>1, <3>2 DEF Channels, Same
    <3>. QED  BY <3>3 DEF next
  <2>4. Channels[d][s] # <<>>
    BY <1>3, <2>1 DEF ReceivesFrom
  <2>5. Channel!Receive(d, s)
    BY <2>3, <2>4 DEF Channels, Channel!Receive
  <2>. QED  BY <2>5 DEF Channel!Next
<1>4. ASSUME NEW d \in Procs, NEW s \in Procs, NEW m \in Messages,
             SendsTo(d, s, m)
      PROVE  Channel!Next
  <2>1. Channels[d][s] = Contents(d, s)
    BY DEF Channels
  <2>2. Channels' = [Channels EXCEPT ![d][s] = Append(Channels[d][s], m)]
    <3>. DEFINE next == Append(Channels[d][s], m)
    <3>1. Contents(d, s)' = next
      BY <1>4, <2>1 DEF SendsTo
    <3>. HIDE DEF next
    <3>2. Channels' = [Channels EXCEPT ![d][s] = next]
      BY <1>4, <3>1 DEF Channels, SendsTo, Same
    <3>. QED  BY <3>2 DEF next
  <2>3. Len(Channels[d][s]) < IPC_CBUF_SIZE
    BY <1>4, <2>1 DEF SendsTo
  <2>4. Channel!Send(s, d, m)
    BY <2>2, <2>3 DEF Channels, Channel!Send
  <2>. QED  BY <2>4 DEF Channel!Next
<1>. QED  BY <1>1, <1>2, <1>3, <1>4 DEF ChannelStep

(* The circular buffers implement the bounded FIFO channels: what a take   *)
(* hands out is what was stored first and not yet taken, nothing is lost   *)
(* or duplicated except by closing, and a channel never holds more than    *)
(* IPC_CBUF_SIZE messages (ipc_send_msg, ipc_process_cbuf, ipc_disable).   *)
THEOREM BuffersAreFifo == Spec => FifoChannel
<1>1. Init => Channel!Init
  BY InitChannel
<1>2. IpcInv /\ BoundsInv /\ SendersHaveMessage /\ [Next]_vars
      => [Channel!Next]_Channels
  BY NextChannel, ChannelStepIsNext
<1>. QED  BY <1>1, <1>2, IpcInvariant, BoundsInvariant, MessagesInvariant, PTL
          DEF Spec, FifoChannel, Channel!Spec, Channels
-----------------------------------------------------------------------------
(* Where a message is, without counting: a channel, a queue or a hand.     *)
HandLabels == {"sample", "store", "received"}
Has(q, m) == \E i \in DOMAIN q : q[i] = m
Once(q) == \A i, j \in DOMAIN q : q[i] = q[j] => i = j
InB(d, s, m) == Has(Contents(d, s), m)
InQ(p, m) == Has(msgq[p], m)
InH(p, c, m) == pc[p][c] \in HandLabels /\ frame[p][c].msg = m

OnceEach ==
    /\ \A d, s \in Procs : Once(Contents(d, s))
    /\ \A p \in Procs : Once(msgq[p])
Apart(m) ==
    /\ \A d, s, e, t \in Procs : InB(d, s, m) /\ InB(e, t, m) => d = e /\ s = t
    /\ \A p, q \in Procs : InQ(p, m) /\ InQ(q, m) => p = q
    /\ \A p, q \in Procs, c, e \in Contexts :
          InH(p, c, m) /\ InH(q, e, m) => p = q /\ c = e
    /\ \A d, s, p \in Procs, c \in Contexts :
          InB(d, s, m) => ~InQ(p, m) /\ ~InH(p, c, m)
    /\ \A q, p \in Procs, c \in Contexts : InQ(q, m) => ~InH(p, c, m)

(* Who holds a message that is not active is its owner, about to send it.  *)
InUse(m) ==
    /\ \A d, s \in Procs : InB(d, s, m) \/ InQ(d, m) => active[m]
    /\ \A p \in Procs, c \in Contexts :
          InH(p, c, m) /\ ~active[m] => c = "thread" /\ p = Owner[m]

PlaceInv == OnceEach /\ \A m \in Messages : Apart(m) /\ InUse(m)

-----------------------------------------------------------------------------
(* A sequence that holds each of its elements once.                        *)
LEMMA OnceAppend ==
    ASSUME NEW S, NEW q \in Seq(S), NEW m \in S, Once(q), ~Has(q, m)
    PROVE  /\ Once(Append(q, m))
           /\ \A x : Has(Append(q, m), x) <=> Has(q, x) \/ x = m
<1>. DEFINE n == Len(q)
            a == Append(q, m)
<1>1. /\ n \in Nat /\ DOMAIN q = 1 .. n
      /\ DOMAIN a = 1 .. n + 1
      /\ \A i \in 1 .. n : a[i] = q[i]
      /\ a[n + 1] = m
  OBVIOUS
<1>. HIDE DEF n, a
<1>2. Once(a)
  BY <1>1 DEF Once, Has
<1>3. ASSUME NEW x PROVE Has(a, x) <=> Has(q, x) \/ x = m
  BY <1>1 DEF Has
<1>. QED  BY <1>2, <1>3 DEF a

LEMMA OnceTail ==
    ASSUME NEW S, NEW q \in Seq(S), Once(q), q # <<>>
    PROVE  /\ Once(Tail(q)) /\ Has(q, Head(q))
           /\ \A x : Has(Tail(q), x) <=> Has(q, x) /\ x # Head(q)
<1>. DEFINE n == Len(q)
            a == Tail(q)
<1>1. /\ n \in Nat \ {0} /\ DOMAIN q = 1 .. n
      /\ DOMAIN a = 1 .. n - 1
      /\ \A i \in 1 .. n - 1 : a[i] = q[i + 1]
      /\ Head(q) = q[1]
  OBVIOUS
<1>. HIDE DEF n, a
<1>2. Once(a)
  BY <1>1, SMTT(60) DEF Once
<1>3. Has(q, Head(q))
  BY <1>1 DEF Has
<1>4. ASSUME NEW x PROVE Has(a, x) <=> Has(q, x) /\ x # Head(q)
  <2>1. Has(a, x) => Has(q, x) /\ x # Head(q)
    BY <1>1 DEF Has, Once
  <2>2. ASSUME NEW i \in 1 .. n, q[i] = x, x # Head(q) PROVE Has(a, x)
    <3>1. i - 1 \in 1 .. n - 1
      BY <1>1, <2>2
    <3>2. a[i - 1] = x
      BY <1>1, <2>2, <3>1
    <3>. QED  BY <1>1, <3>1, <3>2 DEF Has
  <2>. QED  BY <1>1, <2>1, <2>2 DEF Has
<1>. QED  BY <1>2, <1>3, <1>4 DEF a

LEMMA OnceEmpty == Once(<<>>) /\ \A x : ~Has(<<>>, x)
BY DEF Once, Has

LEMMA ContentsType ==
    ASSUME IpcInv, BoundsInv, NEW d \in Procs, NEW s \in Procs
    PROVE  Contents(d, s) \in Seq(Messages \union {NULL})
<1>. DEFINE r == reads[d][s]
            w == writes[d][s]
<1>1. r \in 0 .. CountMod - 1 /\ w \in 0 .. CountMod - 1
  BY CountsType
<1>2. CASE (w - r) % CountMod <= IPC_CBUF_SIZE
  BY <1>1, <1>2, RingOpen, CellType, ContentsIsRing
<1>3. CASE (w - r) % CountMod > IPC_CBUF_SIZE
  <2>1. Contents(d, s) = <<>>
    BY <1>3, RingEmpty, ContentsIsRing
  <2>. QED  BY <2>1, EmptySeq
<1>4. (w - r) % CountMod \in Int
  BY <1>1, EntriesOfCounts, Sizes
<1>. QED  BY <1>2, <1>3, <1>4, Sizes

-----------------------------------------------------------------------------
(* A step leaves a message where it is, or takes it away from there.       *)
BShrinks(m) == \A d, s \in Procs : InB(d, s, m)' => InB(d, s, m)
QShrinks(m) == \A p \in Procs : InQ(p, m)' => InQ(p, m)
HShrinks(m) == \A p \in Procs, c \in Contexts : InH(p, c, m)' => InH(p, c, m)
Shrinks(m) ==
    /\ BShrinks(m) /\ QShrinks(m) /\ HShrinks(m)
    /\ active'[m] = active[m]

LEMMA ShrinkStep ==
    ASSUME NEW m \in Messages, Apart(m), InUse(m), Shrinks(m)
    PROVE  Apart(m)' /\ InUse(m)'
<1>1. Apart(m)'
  BY DEF Apart, Shrinks, BShrinks, QShrinks, HShrinks
<1>2. InUse(m)'
  BY DEF InUse, Shrinks, BShrinks, QShrinks, HShrinks
<1>. QED  BY <1>1, <1>2

(* A context goes to a label at which it holds nothing, or what it held.   *)
LEMMA HandGoto ==
    ASSUME IpcInv, NEW p \in Procs, NEW c \in Contexts, NEW label,
           Goto(p, c, label), OtherFrames(p, c)
    PROVE  \A x :
              /\ \A q \in Procs, e \in Contexts :
                    InH(q, e, x)' => InH(q, e, x) \/ (q = p /\ e = c)
              /\ InH(p, c, x)' <=> label \in HandLabels
                                   /\ frame'[p][c].msg = x
              /\ \A q \in Procs, e \in Contexts :
                    q # p \/ e # c => (InH(q, e, x)' <=> InH(q, e, x))
<1>1. /\ pc'[p][c] = label
      /\ \A q \in Procs, e \in Contexts :
            q # p \/ e # c => pc'[q][e] = pc[q][e]
  BY GotoFields DEF IpcInv
<1>. QED  BY <1>1 DEF InH, OtherFrames

LEMMA HandShrinks ==
    ASSUME IpcInv, NEW p \in Procs, NEW c \in Contexts, NEW label,
           Goto(p, c, label), OtherFrames(p, c),
           \/ label \notin HandLabels
           \/ pc[p][c] \in HandLabels /\ frame'[p][c].msg = frame[p][c].msg
    PROVE  \A x : HShrinks(x)
<1>. TAKE x
<1>1. /\ \A q \in Procs, e \in Contexts :
            InH(q, e, x)' => InH(q, e, x) \/ (q = p /\ e = c)
      /\ InH(p, c, x)' => label \in HandLabels /\ frame'[p][c].msg = x
  BY HandGoto
<1>2. InH(p, c, x)' => InH(p, c, x)
  BY <1>1 DEF InH
<1>. QED  BY <1>1, <1>2 DEF HShrinks

LEMMA BufferStutters ==
    ASSUME PlaceInv, Stutters
    PROVE  /\ \A d, s \in Procs : Once(Contents(d, s))'
           /\ \A x : BShrinks(x)
BY DEF PlaceInv, OnceEach, Once, Stutters, Same, BShrinks, InB, Has

LEMMA BufferCloses ==
    ASSUME PlaceInv, NEW p \in Procs, Closes(p)
    PROVE  /\ \A d, s \in Procs : Once(Contents(d, s))'
           /\ \A x : BShrinks(x)
<1>1. \A d, s \in Procs :
         Contents(d, s)' = Contents(d, s) \/ Contents(d, s)' = <<>>
  BY DEF Closes, Same
<1>. QED  BY <1>1, OnceEmpty DEF PlaceInv, OnceEach, Once, BShrinks, InB, Has

LEMMA QueuesStay ==
    ASSUME PlaceInv, UNCHANGED msgq
    PROVE  /\ \A p \in Procs : Once(msgq[p])'
           /\ \A x : QShrinks(x)
BY DEF PlaceInv, OnceEach, Once, QShrinks, InQ, Has

(* A step that moves no message anywhere.                                  *)
LEMMA CalmPlaces ==
    ASSUME IpcInv, PlaceInv, NEW p \in Procs, NEW c \in Contexts, NEW label,
           Stutters \/ Closes(p), UNCHANGED <<msgq, active>>,
           Goto(p, c, label), OtherFrames(p, c),
           \/ label \notin HandLabels
           \/ pc[p][c] \in HandLabels /\ frame'[p][c].msg = frame[p][c].msg
    PROVE  PlaceInv'
<1>1. /\ \A d, s \in Procs : Once(Contents(d, s))'
      /\ \A x : BShrinks(x)
  BY BufferStutters, BufferCloses
<1>2. (\A q \in Procs : Once(msgq[q])') /\ \A x : QShrinks(x)
  BY QueuesStay
<1>3. \A x : HShrinks(x)
  BY HandShrinks
<1>4. \A x \in Messages : Shrinks(x)
  BY <1>1, <1>2, <1>3 DEF Shrinks
<1>. QED  BY <1>1, <1>2, <1>4, ShrinkStep DEF PlaceInv, OnceEach

-----------------------------------------------------------------------------
(* A step that moves m, and leaves the others.                             *)
OnlyInB(d, s, m) ==
    /\ \A e, t \in Procs : InB(e, t, m)' => e = d /\ t = s
    /\ \A q \in Procs : ~InQ(q, m)'
    /\ \A q \in Procs, e \in Contexts : ~InH(q, e, m)'
    /\ active'[m]
OnlyInQ(p, m) ==
    /\ \A e, t \in Procs : ~InB(e, t, m)'
    /\ \A q \in Procs : InQ(q, m)' => q = p
    /\ \A q \in Procs, e \in Contexts : ~InH(q, e, m)'
    /\ active'[m]
OnlyInH(p, c, m) ==
    /\ \A e, t \in Procs : ~InB(e, t, m)'
    /\ \A q \in Procs : ~InQ(q, m)'
    /\ \A q \in Procs, e \in Contexts : InH(q, e, m)' => q = p /\ e = c
    /\ active'[m] \/ (c = "thread" /\ p = Owner[m])
Nowhere(m) ==
    /\ \A e, t \in Procs : ~InB(e, t, m)'
    /\ \A q \in Procs : ~InQ(q, m)'
    /\ \A q \in Procs, e \in Contexts : ~InH(q, e, m)'

LEMMA OnePlaceAfter ==
    ASSUME NEW m \in Messages,
           \/ \E d, s \in Procs : OnlyInB(d, s, m)
           \/ \E p \in Procs : OnlyInQ(p, m)
           \/ \E p \in Procs, c \in Contexts : OnlyInH(p, c, m)
           \/ Nowhere(m)
    PROVE  Apart(m)' /\ InUse(m)'
<1>1. CASE \E d, s \in Procs : OnlyInB(d, s, m)
  BY <1>1 DEF OnlyInB, Apart, InUse
<1>2. CASE \E p \in Procs : OnlyInQ(p, m)
  BY <1>2 DEF OnlyInQ, Apart, InUse
<1>3. CASE \E p \in Procs, c \in Contexts : OnlyInH(p, c, m)
  BY <1>3 DEF OnlyInH, Apart, InUse
<1>4. CASE Nowhere(m)
  BY <1>4 DEF Nowhere, Apart, InUse
<1>. QED  BY <1>1, <1>2, <1>3, <1>4

LEMMA MoveStep ==
    ASSUME PlaceInv, OnceEach', NEW m \in Messages,
           \A x \in Messages : x # m => Shrinks(x),
           \/ \E d, s \in Procs : OnlyInB(d, s, m)
           \/ \E p \in Procs : OnlyInQ(p, m)
           \/ \E p \in Procs, c \in Contexts : OnlyInH(p, c, m)
           \/ Nowhere(m)
    PROVE  PlaceInv'
<1>1. \A x \in Messages : x # m => Apart(x)' /\ InUse(x)'
  BY ShrinkStep DEF PlaceInv
<1>2. Apart(m)' /\ InUse(m)'
  BY OnePlaceAfter
<1>. QED  BY <1>1, <1>2 DEF PlaceInv

(* A message in a hand is nowhere else; so is one in a buffer or a queue.  *)
LEMMA InHandOnly ==
    ASSUME PlaceInv, NEW m \in Messages, NEW p \in Procs, NEW c \in Contexts,
           InH(p, c, m)
    PROVE  /\ \A e, t \in Procs : ~InB(e, t, m)
           /\ \A q \in Procs : ~InQ(q, m)
           /\ \A q \in Procs, e \in Contexts : InH(q, e, m) => q = p /\ e = c
BY DEF PlaceInv, Apart

LEMMA InBufferOnly ==
    ASSUME PlaceInv, NEW m \in Messages, NEW d \in Procs, NEW s \in Procs,
           InB(d, s, m)
    PROVE  /\ active[m]
           /\ \A e, t \in Procs : InB(e, t, m) => e = d /\ t = s
           /\ \A q \in Procs : ~InQ(q, m)
           /\ \A q \in Procs, e \in Contexts : ~InH(q, e, m)
<1>1. active[m]
  BY DEF PlaceInv, InUse
<1>2. Apart(m)
  BY DEF PlaceInv
<1>3. \A e, t \in Procs : InB(e, t, m) => e = d /\ t = s
  BY <1>2 DEF Apart
<1>4. /\ \A q \in Procs : ~InQ(q, m)
      /\ \A q \in Procs, e \in Contexts : ~InH(q, e, m)
  BY <1>2 DEF Apart, Contexts
<1>. QED  BY <1>1, <1>3, <1>4

LEMMA InQueueOnly ==
    ASSUME PlaceInv, NEW m \in Messages, NEW p \in Procs, InQ(p, m)
    PROVE  /\ active[m]
           /\ \A e, t \in Procs : ~InB(e, t, m)
           /\ \A q \in Procs : InQ(q, m) => q = p
           /\ \A q \in Procs, e \in Contexts : ~InH(q, e, m)
<1>1. active[m]
  BY DEF PlaceInv, InUse
<1>2. Apart(m)
  BY DEF PlaceInv
<1>3. \A q \in Procs : InQ(q, m) => q = p
  BY <1>2 DEF Apart
<1>4. /\ \A e, t \in Procs : ~InB(e, t, m)
      /\ \A q \in Procs, e \in Contexts : ~InH(q, e, m)
  BY <1>2 DEF Apart, Contexts
<1>. QED  BY <1>1, <1>3, <1>4

-----------------------------------------------------------------------------
LEMMA SendCmdPlaces ==
    ASSUME IpcInv, PlaceInv, NEW p \in Procs, NEW m \in Messages,
           SendCmd(p, m)
    PROVE  PlaceInv'
<1>1. /\ pc[p]["thread"] = "run" /\ p = Owner[m] /\ ~active[m]
      /\ UNCHANGED <<bufVars, msgq, active>>
      /\ Goto(p, "thread", "sample")
      /\ frame' = [frame EXCEPT ![p]["thread"] =
                      Frame(m, Target[m], "command")]
  BY DEF SendCmd, At, Sends, queueVars
<1>2. OtherFrames(p, "thread") /\ frame'[p]["thread"].msg = m
  BY <1>1, ZenonT(90) DEF OtherFrames, Frame, IpcInv, TypeOK, Contexts
<1>3. /\ \A d, s \in Procs : Once(Contents(d, s))'
      /\ \A x : BShrinks(x)
  BY <1>1, BufferStutters, CalmChannels
<1>4. (\A q \in Procs : Once(msgq[q])') /\ \A x : QShrinks(x)
  BY <1>1, QueuesStay
<1>5. \A x : /\ \A q \in Procs, e \in Contexts :
                   InH(q, e, x)' => InH(q, e, x) \/ (q = p /\ e = "thread")
             /\ InH(p, "thread", x)' => m = x
  BY <1>1, <1>2, HandGoto DEF Contexts
<1>6. \A x \in Messages : x # m => Shrinks(x)
  BY <1>1, <1>3, <1>4, <1>5 DEF Shrinks, HShrinks
<1>7. /\ \A e, t \in Procs : ~InB(e, t, m)
      /\ \A q \in Procs : ~InQ(q, m)
      /\ \A q \in Procs, e \in Contexts : ~InH(q, e, m)
  BY <1>1 DEF PlaceInv, InUse, InH, HandLabels
<1>8. OnlyInH(p, "thread", m)
  BY <1>1, <1>3, <1>4, <1>5, <1>7 DEF OnlyInH, BShrinks, QShrinks
<1>. QED  BY <1>3, <1>4, <1>6, <1>8, MoveStep DEF OnceEach, Contexts

LEMMA StorePlaces ==
    ASSUME IpcInv, BoundsInv, SendersHaveMessage, PlaceInv,
           NEW p \in Procs, NEW c \in Contexts, Store(p, c)
    PROVE  PlaceInv'
<1>0. PICK m \in Messages : m = frame[p][c].msg
  BY DEF Store, At, SendersHaveMessage
<1>1. /\ pc[p][c] = "store" /\ UNCHANGED <<msgq, frame>>
      /\ active' = [active EXCEPT ![m] = TRUE]
      /\ Goto(p, c, "raise")
  BY <1>0 DEF Store, At, queueVars
<1>3. InH(p, c, m)
  BY <1>0, <1>1 DEF InH, HandLabels
<1>4. \A x : HShrinks(x) /\ ~InH(p, c, x)'
  BY <1>1, HandShrinks, HandGoto DEF HandLabels, OtherFrames
<1>5. (\A q \in Procs : Once(msgq[q])') /\ \A x : QShrinks(x)
  BY <1>1, QueuesStay
<1>6. /\ \A x \in Messages : x # m => active'[x] = active[x]
      /\ active'[m] = TRUE
  BY <1>1 DEF IpcInv, TypeOK
<1>7. /\ \A e, t \in Procs : ~InB(e, t, m)
      /\ \A q \in Procs : ~InQ(q, m)'
      /\ \A q \in Procs, e \in Contexts : ~InH(q, e, m)'
  BY <1>3, <1>4, <1>5, InHandOnly, SMTT(60) DEF QShrinks, HShrinks
<1>8. CASE Stutters
  <2>1. /\ \A d, s \in Procs : Once(Contents(d, s))'
        /\ \A x : BShrinks(x)
    BY <1>8, BufferStutters
  <2>2. Nowhere(m)
    BY <1>7, <2>1 DEF Nowhere, BShrinks
  <2>3. \A x \in Messages : x # m => Shrinks(x)
    BY <1>4, <1>5, <1>6, <2>1 DEF Shrinks
  <2>. QED  BY <1>5, <2>1, <2>2, <2>3, MoveStep DEF OnceEach
<1>9. ASSUME NEW d \in Procs, SendsTo(d, p, m)
      PROVE  PlaceInv'
  <2>1. Contents(d, p) \in Seq(Messages \union {NULL}) /\ Once(Contents(d, p))
    BY ContentsType DEF PlaceInv, OnceEach
  <2>2. ~Has(Contents(d, p), m)
    BY <1>7 DEF InB
  <2>3. /\ Once(Append(Contents(d, p), m))
        /\ \A x : Has(Append(Contents(d, p), m), x)
                     <=> Has(Contents(d, p), x) \/ x = m
    BY <2>1, <2>2, OnceAppend
  <2>4. /\ Contents(d, p)' = Append(Contents(d, p), m)
        /\ \A e, t \in Procs :
              e # d \/ t # p => Contents(e, t)' = Contents(e, t)
    BY <1>9 DEF SendsTo, Same
  <2>5. \A e, t \in Procs : Once(Contents(e, t))'
    BY <2>3, <2>4 DEF PlaceInv, OnceEach, Once
  <2>6. \A x, e, t : e \in Procs /\ t \in Procs /\ InB(e, t, x)' =>
                        InB(e, t, x) \/ (e = d /\ t = p /\ x = m)
    BY <2>3, <2>4 DEF InB, Has
  <2>7. OnlyInB(d, p, m)
    BY <1>6, <1>7, <2>6 DEF OnlyInB
  <2>8. \A x \in Messages : x # m => Shrinks(x)
    BY <1>4, <1>5, <1>6, <2>6 DEF Shrinks, BShrinks
  <2>. QED  BY <1>5, <2>5, <2>7, <2>8, MoveStep DEF OnceEach
<1>. QED  BY <1>0, <1>8, <1>9, StoreChannel

LEMMA TakePlaces ==
    ASSUME IpcInv, BoundsInv, PlaceInv, NEW p \in Procs, NEW m \in Messages,
           Take(p, m)
    PROVE  /\ \A d, s \in Procs : Once(Contents(d, s))'
           /\ \A x : BShrinks(x)
           /\ \A e, t \in Procs : ~InB(e, t, m)'
           /\ \A q \in Procs : ~InQ(q, m)
           /\ \A q \in Procs, e \in Contexts : ~InH(q, e, m)
           /\ active[m]
<1>1. PICK s \in Procs : ReceivesFrom(p, s) /\ Head(Contents(p, s)) = m
  BY TakeChannel
<1>2. Contents(p, s) \in Seq(Messages \union {NULL}) /\ Once(Contents(p, s))
  BY ContentsType DEF PlaceInv, OnceEach
<1>3. /\ Contents(p, s) # <<>>
      /\ Contents(p, s)' = Tail(Contents(p, s))
      /\ \A e, t \in Procs :
            e # p \/ t # s => Contents(e, t)' = Contents(e, t)
  BY <1>1 DEF ReceivesFrom, Same
<1>4. /\ Once(Tail(Contents(p, s))) /\ Has(Contents(p, s), m)
      /\ \A x : Has(Tail(Contents(p, s)), x)
                   <=> Has(Contents(p, s), x) /\ x # m
  BY <1>1, <1>2, <1>3, OnceTail
<1>5. InB(p, s, m)
  BY <1>4 DEF InB
<1>6. \A e, t \in Procs : Once(Contents(e, t))'
  BY <1>3, <1>4 DEF PlaceInv, OnceEach, Once
<1>7. \A x : BShrinks(x)
  BY <1>3, <1>4 DEF BShrinks, InB, Has
<1>8. ~InB(p, s, m)'
  BY <1>3, <1>4 DEF InB, Has
<1>9. \A e, t \in Procs : ~InB(e, t, m)'
  BY <1>5, <1>7, <1>8, InBufferOnly DEF BShrinks
<1>. QED  BY <1>5, <1>6, <1>7, <1>9, InBufferOnly

(* The post of a queue wakes the thread; nobody holds more than before.    *)
LEMMA EnqueuePlaces ==
    ASSUME IpcInv, BoundsInv, PlaceInv, NEW p \in Procs, NEW m \in Messages,
           Take(p, m), Enqueue(p, m), UNCHANGED <<active, frame>>
    PROVE  PlaceInv'
<1>1. /\ \A d, s \in Procs : Once(Contents(d, s))'
      /\ \A x : BShrinks(x)
      /\ \A e, t \in Procs : ~InB(e, t, m)'
      /\ \A q \in Procs : ~InQ(q, m)
      /\ \A q \in Procs, e \in Contexts : ~InH(q, e, m)
      /\ active[m]
  BY TakePlaces
<1>2. \A x : HShrinks(x)
  <2>1. \A q \in Procs :
           /\ pc'[q]["handler"] = pc[q]["handler"]
           /\ pc'[q]["thread"] = pc[q]["thread"] \/ pc'[q]["thread"] = "woken"
    BY EnqueueFields DEF IpcInv
  <2>. QED  BY <2>1 DEF HShrinks, InH, HandLabels, Contexts
<1>3. msgq[p] \in Seq(Messages) /\ Once(msgq[p]) /\ ~Has(msgq[p], m)
  BY <1>1 DEF IpcInv, TypeOK, PlaceInv, OnceEach, InQ
<1>4. /\ msgq'[p] = Append(msgq[p], m)
      /\ \A q \in Procs : q # p => msgq'[q] = msgq[q]
  BY DEF Enqueue, IpcInv, TypeOK
<1>5. /\ Once(Append(msgq[p], m))
      /\ \A x : Has(Append(msgq[p], m), x) <=> Has(msgq[p], x) \/ x = m
  BY <1>3, OnceAppend
<1>6. \A q \in Procs : Once(msgq[q])'
  BY <1>4, <1>5 DEF PlaceInv, OnceEach, Once
<1>7. \A x, q : q \in Procs /\ InQ(q, x)' => InQ(q, x) \/ (q = p /\ x = m)
  BY <1>4, <1>5 DEF InQ, Has
<1>8. OnlyInQ(p, m)
  BY <1>1, <1>2, <1>7 DEF OnlyInQ, HShrinks
<1>9. \A x \in Messages : x # m => Shrinks(x)
  BY <1>1, <1>2, <1>7 DEF Shrinks, QShrinks
<1>. QED  BY <1>1, <1>6, <1>8, <1>9, MoveStep DEF OnceEach

LEMMA TakeResponsePlaces ==
    ASSUME IpcInv, BoundsInv, PlaceInv, NEW p \in Procs, NEW m \in Messages,
           TakeResponse(p, m)
    PROVE  PlaceInv'
<1>1. Take(p, m) /\ UNCHANGED frame
  BY DEF TakeResponse
<1>2. CASE Enqueue(p, m) /\ UNCHANGED active
  BY <1>1, <1>2, EnqueuePlaces
<1>3. CASE /\ active' = [active EXCEPT ![m] = FALSE]
           /\ UNCHANGED <<pc, queueVars>>
  <2>1. /\ \A d, s \in Procs : Once(Contents(d, s))'
        /\ \A x : BShrinks(x)
        /\ \A e, t \in Procs : ~InB(e, t, m)'
        /\ \A q \in Procs : ~InQ(q, m)
        /\ \A q \in Procs, e \in Contexts : ~InH(q, e, m)
    BY <1>1, TakePlaces
  <2>2. (\A q \in Procs : Once(msgq[q])') /\ \A x : QShrinks(x)
    BY <1>3, QueuesStay DEF queueVars
  <2>3. \A x : HShrinks(x)
    BY <1>1, <1>3 DEF HShrinks, InH
  <2>4. \A x \in Messages : x # m => active'[x] = active[x]
    BY <1>3 DEF IpcInv, TypeOK
  <2>5. Nowhere(m)
    BY <2>1, <2>2, <2>3 DEF Nowhere, QShrinks, HShrinks
  <2>6. \A x \in Messages : x # m => Shrinks(x)
    BY <2>1, <2>2, <2>3, <2>4 DEF Shrinks
  <2>. QED  BY <2>1, <2>2, <2>5, <2>6, MoveStep DEF OnceEach
<1>. QED  BY <1>2, <1>3 DEF TakeResponse

LEMMA TakeCommandPlaces ==
    ASSUME IpcInv, BoundsInv, PlaceInv, NEW p \in Procs, NEW m \in Messages,
           TakeCommand(p, m)
    PROVE  PlaceInv'
<1>1. Take(p, m)
  BY DEF TakeCommand
<1>2. /\ \A d, s \in Procs : Once(Contents(d, s))'
      /\ \A x : BShrinks(x)
      /\ \A e, t \in Procs : ~InB(e, t, m)'
      /\ \A q \in Procs : ~InQ(q, m)
      /\ \A q \in Procs, e \in Contexts : ~InH(q, e, m)
      /\ active[m]
  BY <1>1, TakePlaces
<1>3. CASE Enqueue(p, m) /\ UNCHANGED <<msgVars, frame>>
  BY <1>1, <1>3, EnqueuePlaces DEF msgVars
<1>4. ASSUME NEW code, SendRsp(p, "handler", m, code), UNCHANGED queueVars
      PROVE  PlaceInv'
  <2>1. Goto(p, "handler", "sample") /\ UNCHANGED <<active, msgq>>
    BY <1>4 DEF SendRsp, queueVars
  <2>2. OtherFrames(p, "handler") /\ frame'[p]["handler"].msg = m
    BY <1>4, SendRspMessage DEF Contexts
  <2>3. (\A q \in Procs : Once(msgq[q])') /\ \A x : QShrinks(x)
    BY <2>1, QueuesStay
  <2>4. \A x : /\ \A q \in Procs, e \in Contexts :
                     InH(q, e, x)' => InH(q, e, x) \/ (q = p /\ e = "handler")
               /\ InH(p, "handler", x)' => m = x
    BY <2>1, <2>2, HandGoto DEF Contexts
  <2>5. \A x \in Messages : x # m => Shrinks(x)
    BY <1>2, <2>1, <2>3, <2>4 DEF Shrinks, HShrinks
  <2>6. OnlyInH(p, "handler", m)
    BY <1>2, <2>1, <2>3, <2>4 DEF OnlyInH, QShrinks
  <2>. QED  BY <1>2, <2>3, <2>5, <2>6, MoveStep DEF OnceEach, Contexts
<1>. QED  BY <1>2, <1>3, <1>4 DEF TakeCommand

(* ipc_msgq_recv, with or without a pend: the first message is taken.      *)
LEMMA DequeuePlaces ==
    ASSUME IpcInv, PlaceInv, NEW p \in Procs, msgq[p] # <<>>,
           pc[p]["thread"] \notin HandLabels,
           Holds(p, "thread", Head(msgq[p])),
           msgq' = [msgq EXCEPT ![p] = Tail(@)],
           Goto(p, "thread", "received"), UNCHANGED <<bufVars, active>>
    PROVE  PlaceInv'
<1>1. msgq[p] \in Seq(Messages) /\ Once(msgq[p])
  BY DEF IpcInv, TypeOK, PlaceInv, OnceEach
<1>0. PICK m \in Messages : m = Head(msgq[p])
  BY <1>1
<1>2. /\ msgq'[p] = Tail(msgq[p])
      /\ \A q \in Procs : q # p => msgq'[q] = msgq[q]
  BY DEF IpcInv, TypeOK
<1>3. /\ Once(Tail(msgq[p])) /\ Has(msgq[p], m)
      /\ \A x : Has(Tail(msgq[p]), x) <=> Has(msgq[p], x) /\ x # m
  BY <1>0, <1>1, OnceTail
<1>4. InQ(p, m)
  BY <1>3 DEF InQ
<1>5. OtherFrames(p, "thread") /\ frame'[p]["thread"].msg = m
  <2>1. frame' = [frame EXCEPT ![p]["thread"] = Frame(m, p, "none")]
    BY <1>0 DEF Holds
  <2>. QED  BY <2>1, ZenonT(90) DEF OtherFrames, Frame, IpcInv, TypeOK, Contexts
<1>6. /\ \A d, s \in Procs : Once(Contents(d, s))'
      /\ \A x : BShrinks(x)
  BY BufferStutters, CalmChannels
<1>7. \A q \in Procs : Once(msgq[q])'
  BY <1>2, <1>3 DEF PlaceInv, OnceEach, Once
<1>8. \A x : QShrinks(x)
  BY <1>2, <1>3 DEF QShrinks, InQ, Has
<1>9. ~InQ(p, m)'
  BY <1>2, <1>3 DEF InQ, Has
<1>10. \A x : /\ \A q \in Procs, e \in Contexts :
                    InH(q, e, x)' => InH(q, e, x) \/ (q = p /\ e = "thread")
              /\ InH(p, "thread", x)' => m = x
  BY <1>5, HandGoto DEF Contexts
<1>11. \A x \in Messages : x # m => Shrinks(x)
  BY <1>6, <1>8, <1>10 DEF Shrinks, HShrinks
<1>12. OnlyInH(p, "thread", m)
  <2>1. /\ active[m]
        /\ \A e, t \in Procs : ~InB(e, t, m)
        /\ \A q \in Procs : InQ(q, m) => q = p
        /\ \A q \in Procs, e \in Contexts : ~InH(q, e, m)
    BY <1>4, InQueueOnly
  <2>2. active'[m]
    BY <2>1
  <2>. QED  BY <1>6, <1>8, <1>9, <1>10, <2>1, <2>2
            DEF OnlyInH, BShrinks, QShrinks
<1>. QED  BY <1>6, <1>7, <1>11, <1>12, MoveStep DEF OnceEach, Contexts

LEMMA ReleasePlaces ==
    ASSUME IpcInv, PlaceInv, NEW p \in Procs, Release(p)
    PROVE  PlaceInv'
<1>0. PICK m \in Messages : m = frame[p]["thread"].msg
  BY DEF Release, At, IpcInv, ReceivedIsMessage
<1>1. /\ pc[p]["thread"] = "received"
      /\ UNCHANGED <<bufVars, msgq, frame>>
      /\ active' = [active EXCEPT ![m] = FALSE]
      /\ Goto(p, "thread", "run")
  BY <1>0 DEF Release, At, queueVars
<1>3. InH(p, "thread", m)
  BY <1>0, <1>1 DEF InH, HandLabels
<1>4. \A x : HShrinks(x) /\ ~InH(p, "thread", x)'
  BY <1>1, HandShrinks, HandGoto DEF HandLabels, OtherFrames, Contexts
<1>5. (\A q \in Procs : Once(msgq[q])') /\ \A x : QShrinks(x)
  BY <1>1, QueuesStay
<1>6. /\ \A d, s \in Procs : Once(Contents(d, s))'
      /\ \A x : BShrinks(x)
  BY <1>1, BufferStutters, CalmChannels
<1>7. \A x \in Messages : x # m => active'[x] = active[x]
  BY <1>1 DEF IpcInv, TypeOK
<1>8. Nowhere(m)
  BY <1>3, <1>4, <1>5, <1>6, InHandOnly
     DEF Nowhere, BShrinks, QShrinks, HShrinks, Contexts
<1>9. \A x \in Messages : x # m => Shrinks(x)
  BY <1>4, <1>5, <1>6, <1>7 DEF Shrinks
<1>. QED  BY <1>5, <1>6, <1>8, <1>9, MoveStep DEF OnceEach

LEMMA RespondPlaces ==
    ASSUME IpcInv, PlaceInv, NEW p \in Procs, Respond(p)
    PROVE  PlaceInv'
<1>0. PICK m \in Messages : m = frame[p]["thread"].msg
  BY DEF Respond, At, IpcInv, ReceivedIsMessage
<1>1. /\ pc[p]["thread"] = "received" /\ UNCHANGED <<bufVars, msgq>>
  BY DEF Respond, At, queueVars
<1>2. Stutters
  BY <1>1, CalmChannels
<1>4. CASE \E code \in Answers : SendRsp(p, "thread", m, code)
  <2>1. Goto(p, "thread", "sample") /\ UNCHANGED active
    BY <1>4 DEF SendRsp
  <2>2. OtherFrames(p, "thread") /\ frame'[p]["thread"].msg = m
    BY <1>4, SendRspMessage DEF Contexts
  <2>. QED  BY <1>0, <1>1, <1>2, <2>1, <2>2, CalmPlaces
            DEF Contexts, HandLabels
<1>5. CASE Goto(p, "thread", "run") /\ UNCHANGED <<msgVars, frame>>
  BY <1>1, <1>2, <1>5, CalmPlaces
     DEF Contexts, HandLabels, OtherFrames, msgVars
<1>. QED  BY <1>0, <1>4, <1>5 DEF Respond

LEMMA SendPlaces ==
    ASSUME IpcInv, PlaceInv, NEW p \in Procs, NEW c \in Contexts,
           Sample(p, c) \/ Raise(p, c)
    PROVE  PlaceInv'
<1>1. /\ UNCHANGED <<msgq, active, frame>> /\ Stutters
      /\ OtherFrames(p, c)
  BY CalmChannels DEF Sample, Raise, queueVars, msgVars, OtherFrames
<1>2. CASE Sample(p, c)
  <2>1. pc[p][c] \in HandLabels /\ \E label : Goto(p, c, label)
    BY <1>2 DEF Sample, At, HandLabels
  <2>. QED  BY <1>1, <2>1, CalmPlaces
<1>3. CASE Raise(p, c)
  <2>1. AfterSend(p, c, "IPC_RC_SUCCESS") \notin HandLabels
    BY DEF AfterSend, HandLabels, Contexts
  <2>. QED  BY <1>1, <1>3, <2>1, CalmPlaces DEF Raise
<1>. QED  BY <1>2, <1>3

LEMMA HandlerPlaces ==
    ASSUME IpcInv, BoundsInv, SendersHaveMessage, PlaceInv, NEW p \in Procs,
           HandlerStep(p)
    PROVE  PlaceInv'
<1>1. CASE \/ HandlerEnter(p) \/ HandlerSnapshot(p) \/ HandlerScan(p)
           \/ HandlerExit(p) \/ BufferDone(p)
  <2>1. /\ \E label \in {"snapshot", "scan", "drain", "idle"} :
              Goto(p, "handler", label)
        /\ UNCHANGED <<frame, msgq, active, bufVars>>
    BY <1>1 DEF HandlerEnter, HandlerSnapshot, HandlerScan, HandlerExit,
                BufferDone, queueVars, msgVars
  <2>2. Stutters
    BY <2>1, CalmChannels
  <2>. QED  BY <2>1, <2>2, CalmPlaces DEF Contexts, HandLabels, OtherFrames
<1>. QED  BY <1>1, SendPlaces, StorePlaces, TakeResponsePlaces,
             TakeCommandPlaces DEF HandlerStep, Contexts

LEMMA ThreadPlaces ==
    ASSUME IpcInv, BoundsInv, SendersHaveMessage, PlaceInv, NEW p \in Procs,
           \/ CallStep(p) \/ Disable(p) \/ Recv(p) \/ RecvTimeout(p)
           \/ \E m \in Messages : SendCmd(p, m)
    PROVE  PlaceInv'
<1>1. CASE Disable(p) \/ EnableOpen(p)
  <2>1. /\ \E label \in {"disabled", "run"} : Goto(p, "thread", label)
        /\ UNCHANGED <<frame, msgq, active>>
    BY <1>1 DEF Disable, EnableOpen, queueVars, msgVars
  <2>2. Closes(p)
    BY <1>1, DisableChannel
  <2>. QED  BY <2>1, <2>2, CalmPlaces DEF Contexts, HandLabels, OtherFrames
<1>2. CASE EnableClear(p) \/ SendCmdReturn(p) \/ RecvTimeout(p)
  <2>1. /\ \E label \in {"cleared", "run"} : Goto(p, "thread", label)
        /\ UNCHANGED <<frame, msgq, active, bufVars>>
    BY <1>2 DEF EnableClear, SendCmdReturn, RecvTimeout, queueVars, msgVars
  <2>2. Stutters
    BY <2>1, CalmChannels
  <2>. QED  BY <2>1, <2>2, CalmPlaces DEF Contexts, HandLabels, OtherFrames
<1>3. CASE Recv(p) \/ RecvWoken(p)
  <2>1. /\ UNCHANGED <<bufVars, active>>
        /\ pc[p]["thread"] \notin HandLabels
    BY <1>3 DEF Recv, RecvWoken, At, msgVars, HandLabels
  <2>2. \/ /\ msgq[p] # <<>>
           /\ Holds(p, "thread", Head(msgq[p]))
           /\ msgq' = [msgq EXCEPT ![p] = Tail(@)]
           /\ Goto(p, "thread", "received")
        \/ /\ \E label \in {"woken", "pend", "run"} : Goto(p, "thread", label)
           /\ UNCHANGED <<frame, msgq>>
    BY <1>3 DEF Recv, RecvWoken, queueVars
  <2>3. CASE /\ \E label \in {"woken", "pend", "run"} :
                   Goto(p, "thread", label)
             /\ UNCHANGED <<frame, msgq>>
    <3>1. Stutters
      BY <2>1, CalmChannels
    <3>. QED  BY <2>1, <2>3, <3>1, CalmPlaces
              DEF Contexts, HandLabels, OtherFrames
  <2>. QED  BY <2>1, <2>2, <2>3, DequeuePlaces
<1>4. CASE Sample(p, "thread") \/ Store(p, "thread") \/ Raise(p, "thread")
  BY <1>4, SendPlaces, StorePlaces DEF Contexts
<1>. QED  BY <1>1, <1>2, <1>3, <1>4, SendCmdPlaces, ReleasePlaces,
             RespondPlaces DEF CallStep

LEMMA InitPlaces == Init => PlaceInv
<1>. SUFFICES ASSUME Init PROVE PlaceInv
  OBVIOUS
<1>1. ASSUME NEW d \in Procs, NEW s \in Procs PROVE Contents(d, s) = <<>>
  <2>1. writes[d][s] = 0 /\ reads[d][s] = 0
    BY DEF Init
  <2>2. (writes[d][s] - reads[d][s]) % CountMod = 0
    BY <2>1, Sizes, EntriesWhenEmpty
  <2>. QED  BY <2>2, ContentsIsRing, RingEmpty
<1>2. \A d, s, m : d \in Procs /\ s \in Procs => ~InB(d, s, m)
  BY <1>1, OnceEmpty DEF InB
<1>3. \A p, m : p \in Procs => ~InQ(p, m) /\ Once(msgq[p])
  BY OnceEmpty DEF InQ, Init
<1>4. \A p, c, m : p \in Procs /\ c \in Contexts => ~InH(p, c, m)
  BY DEF InH, Init, HandLabels, Contexts
<1>5. OnceEach
  BY <1>1, <1>3, OnceEmpty DEF OnceEach
<1>. QED  BY <1>2, <1>3, <1>4, <1>5 DEF PlaceInv, Apart, InUse

LEMMA PlaceInvariant == Spec => []PlaceInv
<1>1. Init => PlaceInv
  BY InitPlaces
<1>2. IpcInv /\ BoundsInv /\ SendersHaveMessage /\ PlaceInv /\ [Next]_vars
      => PlaceInv'
  <2>. SUFFICES ASSUME IpcInv, BoundsInv, SendersHaveMessage, PlaceInv,
                       [Next]_vars
                PROVE  PlaceInv'
    OBVIOUS
  <2>1. CASE Next
    BY <2>1, HandlerPlaces, ThreadPlaces DEF Next
  <2>2. CASE UNCHANGED vars
    <3>1. UNCHANGED <<bufVars, msgq, pc, frame, active>>
      BY <2>2 DEF vars, msgVars, queueVars
    <3>2. /\ \A d, s \in Procs : Once(Contents(d, s))'
          /\ \A x : BShrinks(x)
      BY <3>1, BufferStutters, CalmChannels
    <3>3. (\A q \in Procs : Once(msgq[q])') /\ \A x : QShrinks(x)
      BY <3>1, QueuesStay
    <3>4. \A x \in Messages : Shrinks(x)
      BY <3>1, <3>2, <3>3 DEF Shrinks, HShrinks, InH
    <3>. QED  BY <3>2, <3>3, <3>4, ShrinkStep DEF PlaceInv, OnceEach
  <2>. QED  BY <2>1, <2>2
<1>. QED  BY <1>1, <1>2, IpcInvariant, BoundsInvariant, MessagesInvariant,
             PTL DEF Spec

-----------------------------------------------------------------------------
(* Counting the places.                                                    *)
LEMMA AtMostOne ==
    ASSUME NEW S, \A x, y \in S : x = y
    PROVE  /\ Cardinality(S) \in {0, 1}
           /\ Cardinality(S) = 0 <=> S = {}
<1>1. CASE S = {}
  BY <1>1, FS_EmptySet
<1>2. CASE S # {}
  <2>1. PICK x : S = {x}
    BY <1>2
  <2>2. Cardinality(S) = 1
    BY <2>1, FS_Singleton
  <2>. QED  BY <1>2, <2>2
<1>. QED  BY <1>1, <1>2

(* A slot of the buffer that holds m is a place of m in the channel.       *)
LEMMA SlotOfMessage ==
    ASSUME IpcInv, BoundsInv, NEW m \in Messages, NEW slot \in InBuffer(m)
    PROVE  \E d, s \in Procs, k \in Nat :
              /\ k \in DOMAIN Contents(d, s) /\ Contents(d, s)[k] = m
              /\ slot = <<d, s, (reads[d][s] + (k - 1)) % IPC_CBUF_SIZE>>
<1>1. PICK d \in Procs, s \in Procs, i \in 0 .. IPC_CBUF_SIZE - 1 :
         slot = <<d, s, i>>
  BY DEF InBuffer
<1>. DEFINE r == reads[d][s]
            w == writes[d][s]
            n == (w - r) % CountMod
<1>2. /\ ~(n > IPC_CBUF_SIZE) /\ cbufs[d][s][i] = m
      /\ \E j \in 0 .. n - 1 : (r + j) % IPC_CBUF_SIZE = i
  BY <1>1 DEF InBuffer, Blocked, Entries
<1>3. r \in 0 .. CountMod - 1 /\ w \in 0 .. CountMod - 1
  BY CountsType
<1>4. n \in Int /\ n <= IPC_CBUF_SIZE
  BY <1>2, <1>3, EntriesOfCounts, Sizes
<1>5. /\ n \in 0 .. IPC_CBUF_SIZE
      /\ Contents(d, s) \in Seq(Messages \union {NULL})
      /\ Len(Contents(d, s)) = n
      /\ \A k \in 1 .. n : Contents(d, s)[k]
                              = cbufs[d][s][(r + k - 1) % IPC_CBUF_SIZE]
  <2>1. n = (w - r) % CountMod
    OBVIOUS
  <2>. HIDE DEF n, r, w
  <2>2. cbufs[d][s] \in Slots /\ Contents(d, s) = Ring(r, w, cbufs[d][s])
    BY CellType, ContentsIsRing DEF r, w
  <2>3. Opens(Contents(d, s), r, cbufs[d][s], n)
    BY <1>3, <1>4, <2>1, <2>2, RingOpens
  <2>. QED  BY <2>3 DEF Opens
<1>. HIDE DEF n, r, w
<1>6. PICK j \in 0 .. n - 1 : (r + j) % IPC_CBUF_SIZE = i
  BY <1>2
<1>. DEFINE k == j + 1
<1>7. k \in Nat /\ k \in 1 .. n /\ r + k - 1 = r + j /\ k - 1 = j
  BY <1>3, <1>5, <1>6
<1>8. DOMAIN Contents(d, s) = 1 .. n
  BY <1>5
<1>. HIDE DEF k
<1>9. Contents(d, s)[k] = m
  BY <1>2, <1>5, <1>6, <1>7
<1>10. slot = <<d, s, (r + (k - 1)) % IPC_CBUF_SIZE>>
  BY <1>1, <1>6, <1>7
<1>. QED  BY <1>7, <1>8, <1>9, <1>10 DEF r

LEMMA PlacesCounted ==
    ASSUME IpcInv, BoundsInv, PlaceInv
    PROVE  OnePlace
<1>. SUFFICES ASSUME NEW m \in Messages
              PROVE  LET places == Cardinality(InBuffer(m))
                                   + Cardinality(InQueue(m))
                                   + Cardinality(InHand(m))
                     IN places <= 1
                        /\ (~active[m] /\ InHand(m) = {} => places = 0)
  BY DEF OnePlace
<1>1. \A x, y \in InBuffer(m) : x = y
  <2>. SUFFICES ASSUME NEW x \in InBuffer(m), NEW y \in InBuffer(m)
                PROVE  x = y
    OBVIOUS
  <2>1. PICK d \in Procs, s \in Procs, k \in Nat :
              /\ k \in DOMAIN Contents(d, s) /\ Contents(d, s)[k] = m
              /\ x = <<d, s, (reads[d][s] + (k - 1)) % IPC_CBUF_SIZE>>
    BY SlotOfMessage
  <2>2. PICK e \in Procs, t \in Procs, j \in Nat :
              /\ j \in DOMAIN Contents(e, t) /\ Contents(e, t)[j] = m
              /\ y = <<e, t, (reads[e][t] + (j - 1)) % IPC_CBUF_SIZE>>
    BY SlotOfMessage
  <2>3. InB(d, s, m) /\ InB(e, t, m)
    BY <2>1, <2>2 DEF InB, Has
  <2>4. d = e /\ s = t
    BY <2>3, InBufferOnly
  <2>5. k = j
    BY <2>1, <2>2, <2>4 DEF PlaceInv, OnceEach, Once
  <2>. QED  BY <2>1, <2>2, <2>4, <2>5
<1>2. InBuffer(m) # {} => \E d, s \in Procs : InB(d, s, m)
  BY SlotOfMessage DEF InB, Has
<1>3. \A x \in InQueue(m) :
         /\ x = <<x[1], x[2]>> /\ x[1] \in Procs /\ InQ(x[1], m)
         /\ x[2] \in DOMAIN msgq[x[1]] /\ msgq[x[1]][x[2]] = m
  BY DEF InQueue, InQ, Has
<1>4. \A x, y \in InQueue(m) : x = y
  <2>. SUFFICES ASSUME NEW x \in InQueue(m), NEW y \in InQueue(m)
                PROVE  x = y
    OBVIOUS
  <2>1. x[1] = y[1]
    BY <1>3, InQueueOnly
  <2>2. x[2] = y[2]
    BY <1>3, <2>1 DEF PlaceInv, OnceEach, Once
  <2>. QED  BY <1>3, <2>1, <2>2
<1>5. InQueue(m) # {} => \E p \in Procs : InQ(p, m)
  BY <1>3
<1>6. \A x \in InHand(m) :
         /\ x = <<x[1], x[2]>> /\ x[1] \in Procs /\ x[2] \in Contexts
         /\ InH(x[1], x[2], m)
  BY DEF InHand, InH, HandLabels
<1>7. \A x, y \in InHand(m) : x = y
  BY <1>6, InHandOnly
<1>8. /\ ~(InBuffer(m) # {} /\ InQueue(m) # {})
      /\ ~(InBuffer(m) # {} /\ InHand(m) # {})
      /\ ~(InQueue(m) # {} /\ InHand(m) # {})
  BY <1>2, <1>5, <1>6, InBufferOnly, InQueueOnly
<1>9. ~active[m] => InBuffer(m) = {} /\ InQueue(m) = {}
  BY <1>2, <1>5, InBufferOnly, InQueueOnly
<1>10. /\ Cardinality(InBuffer(m)) \in {0, 1}
       /\ Cardinality(InBuffer(m)) = 0 <=> InBuffer(m) = {}
  BY <1>1, AtMostOne
<1>11. /\ Cardinality(InQueue(m)) \in {0, 1}
       /\ Cardinality(InQueue(m)) = 0 <=> InQueue(m) = {}
  BY <1>4, AtMostOne
<1>12. /\ Cardinality(InHand(m)) \in {0, 1}
       /\ Cardinality(InHand(m)) = 0 <=> InHand(m) = {}
  BY <1>7, AtMostOne
<1>. QED  BY <1>8, <1>9, <1>10, <1>11, <1>12

(* A message object is linked in one place at a time, and in none while it *)
(* is free, whoever sends, answers, closes and opens (ipc_send_cmd,        *)
(* ipc_free_msg).                                                          *)
THEOREM MessageInOnePlace == Spec => []OnePlace
<1>1. IpcInv /\ BoundsInv /\ PlaceInv => OnePlace
  BY PlacesCounted
<1>. QED  BY <1>1, IpcInvariant, BoundsInvariant, PlaceInvariant, PTL
=============================================================================
