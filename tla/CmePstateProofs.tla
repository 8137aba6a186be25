-------------------------- MODULE CmePstateProofs --------------------------
(***************************************************************************)
(* Proofs about CmePstate: for any Pstates, clips, operations and droops,  *)
(* with every window open: the types.  Then what the two CMEs of a quad    *)
(* and the PGPE keep of each other (Kept), and that every step of the quad *)
(* manager keeps it: its interrupts, its scripts, its side of the          *)
(* exchanges with the sibling and the PGPE.                                *)
(***************************************************************************)
EXTENDS CmePstate, FiniteSets, SequenceTheorems, FiniteSetTheorems, TLAPS

(* What the PGPE writes into doorbells 0 and 3.                            *)
Db0Messages ==
    {d \in [msg : {"NONE", "START", "GLB", "PAYLOAD", "CLIP", "STOP", "PMSR",
                   "REGISTER_DONE"},
            field : {"none", "quadPstate", "pmin", "pmax", "set", "clear"},
            value : Values] : d.msg = "PMSR" => d.field \in {"set", "clear"}}
Db3Messages == {"HIGH", "REPLAY", "ENTER_SAFE", "HANDOFF", "SUSPEND",
                "UNSUSPEND", "CLIP"}
MsgTypes == {"INIT", "LOCK", "SYNC"}
Acks == {"ok", "suspended", "unsuspended", "error"}
Awaited == [expected : Acks, replay : Db3Messages \union {"none"},
            nacked : BOOLEAN]

(* The steps, by what their argument is.                                   *)
PlainKinds == {"Register", "Ready", "PowerOn", "Spin", "CheckIn0", "SiblingDb0",
               "ClearDb0", "ReadDb0", "Pmsr", "NotifySibling", "Db0Started",
               "AckUpdate", "Db0Stop", "Registered", "EndDb0", "ToFsafe",
               "PollDroop"}
SignalKinds == {"Raise", "AwaitAnswer", "AwaitAnswerOrRetry", "AwaitSignal",
                "Answer"}
MsgKinds == {"Send", "AwaitMsgAck", "Receive"}
RegisterKinds == {"AwaitDb0", "RegisterDb0"}
Steps ==
    (PlainKinds \X {""}) \union (SignalKinds \X Signals)
    \union ({"ClearBit"} \X (Signals \union {"RECVD"}))
    \union (MsgKinds \X MsgTypes) \union ({"SendAck"} \X Acks)
    \union ({"Store"} \X Db0Messages) \union ({"Suspended"} \X {"set", "clear"})
    \union ({"UpdateAnalog"} \X Values) \union ({"EndDb3"} \X Db3Messages)
    \union (RegisterKinds \X (1 .. 3))
    \union ({"Write0"} \X ((SUBSET Cmes) \X Db0Messages))
    \union ({"Write3"} \X (Cmes \X Db3Messages))
    \union ({"AwaitAck"} \X Awaited)
    \union ({"Become"} \X {"stopped", "active", "safe"})

Processes == {"pgpe", "qm", "sib"}
TodoType == todo \in [Processes -> Seq(Steps)]
IrqType ==
    /\ busy \subseteq Cmes
    /\ eisr \in [Cmes -> SUBSET Bits]
    /\ masked \in [Cmes -> SUBSET {"HB", "PMCR"}]
    /\ ticks \in [{"DB0", "RECVD", "IN0"} -> 0 .. DB0_FIT_TICK_THRESHOLD + 1]
Records == [quadPstate : Values, pmin : Values, pmax : Values]
PmsrValues == [quadPstate : Values, pmin : Values, pmax : Values,
               suspended : BOOLEAN]
DoorbellType ==
    /\ db0 \in [Cmes -> Db0Messages]
    /\ db3 \in [Cmes -> Db3Messages \union {"NONE"}]
    /\ icrr \in {"NONE", "INIT", "LOCK", "SYNC"} \X Values
    /\ type4 \in {"none", "available", "nack"} \union Acks
CmeType ==
    /\ record \in [Cmes -> Records]
    /\ pmsr \in [Cmes -> PmsrValues]
    /\ flags \in [Cmes -> SUBSET Flags]
    /\ vdmDroop \subseteq Cmes /\ skipLock \subseteq Cmes
    /\ analogError \in BOOLEAN /\ frequency \in Values
PgpeType ==
    /\ mode \in {"stopped", "active", "safe"}
    /\ registered \in BOOLEAN /\ alive \in BOOLEAN
    /\ wanted \in Targets
    /\ droops \in 0 .. MaxDroops
    /\ panic \subseteq Cmes \union {"pgpe"}

(* A pending doorbell 3 has been written.                                  *)
Db3Written == \A c \in Cmes : "DB3" \in eisr[c] => db3[c] \in Db3Messages

TypeInv ==
    TodoType /\ IrqType /\ DoorbellType /\ CmeType /\ PgpeType /\ Db3Written

-----------------------------------------------------------------------------
(* Scripts: what a handler puts into todo is made of steps.                *)

LEMMA Joined ==
    ASSUME NEW a \in Seq(Steps), NEW b \in Seq(Steps)
    PROVE  a \o b \in Seq(Steps)
  BY ConcatProperties

LEMMA OneStep ==
    ASSUME NEW x \in Steps PROVE <<x>> \in Seq(Steps)
  OBVIOUS

LEMMA TwoSteps ==
    ASSUME NEW x \in Steps, NEW y \in Steps PROVE <<x, y>> \in Seq(Steps)
  OBVIOUS

LEMMA PlainSteps ==
    /\ \A k \in PlainKinds : Step(k) \in Seq(Steps)
    /\ \A i \in Signals : Notify(i) \in Seq(Steps) /\ Serve(i) \in Seq(Steps)
    /\ \A m \in MsgTypes : MsgSend(m) \in Seq(Steps) /\ MsgRecv(m) \in Seq(Steps)
    /\ \A a \in Acks : SendAck(a) \in Seq(Steps)
    /\ \A m \in Db3Messages : EndDb3(m) \in Seq(Steps)
  <1>1. ASSUME NEW k \in PlainKinds PROVE Step(k) \in Seq(Steps)
    <2>1. <<k, "">> \in Steps
      BY DEF Steps
    <2> QED BY <2>1, OneStep DEF Step
  <1>2. ASSUME NEW i \in Signals
        PROVE  Notify(i) \in Seq(Steps) /\ Serve(i) \in Seq(Steps)
    <2>1. \A k \in SignalKinds : <<k, i>> \in Steps
      BY DEF Steps
    <2> QED BY <2>1, TwoSteps DEF Notify, Serve, SignalKinds
  <1>3. ASSUME NEW m \in MsgTypes
        PROVE  MsgSend(m) \in Seq(Steps) /\ MsgRecv(m) \in Seq(Steps)
    <2>1. \A k \in MsgKinds : <<k, m>> \in Steps
      BY DEF Steps
    <2> QED BY <2>1, OneStep, TwoSteps DEF MsgSend, MsgRecv, MsgKinds
  <1>4. ASSUME NEW a \in Acks PROVE SendAck(a) \in Seq(Steps)
    <2>1. <<"SendAck", a>> \in Steps
      BY DEF Steps
    <2> QED BY <2>1, OneStep DEF SendAck
  <1>5. ASSUME NEW m \in Db3Messages PROVE EndDb3(m) \in Seq(Steps)
    <2>1. <<"EndDb3", m>> \in Steps
      BY DEF Steps
    <2> QED BY <2>1, OneStep DEF EndDb3
  <1> QED BY <1>1, <1>2, <1>3, <1>4, <1>5

(* What a step carries follows from its kind.                              *)
LEMMA Arguments ==
    ASSUME NEW s \in Steps
    PROVE  /\ s[1] \in SignalKinds => s[2] \in Signals
           /\ s[1] = "ClearBit" => s[2] \in Signals \union {"RECVD"}
           /\ s[1] \in MsgKinds => s[2] \in MsgTypes
           /\ s[1] = "SendAck" => s[2] \in Acks
           /\ s[1] = "Store" => s[2] \in Db0Messages
           /\ s[1] = "Suspended" => s[2] \in {"set", "clear"}
           /\ s[1] = "UpdateAnalog" => s[2] \in Values
           /\ s[1] = "EndDb3" => s[2] \in Db3Messages
           /\ s[1] \in RegisterKinds => s[2] \in 1 .. 3
           /\ s[1] = "Write0" => s[2] \in (SUBSET Cmes) \X Db0Messages
           /\ s[1] = "Write3" => s[2] \in Cmes \X Db3Messages
           /\ s[1] = "AwaitAck" => s[2] \in Awaited
           /\ s[1] = "Become" => s[2] \in {"stopped", "active", "safe"}
  <1>1. CASE s \in PlainKinds \X {""}
    BY <1>1 DEF PlainKinds, SignalKinds, MsgKinds, RegisterKinds
  <1>2. CASE s \in SignalKinds \X Signals
    BY <1>2 DEF PlainKinds, SignalKinds, MsgKinds, RegisterKinds
  <1>3. CASE s \in {"ClearBit"} \X (Signals \union {"RECVD"})
    BY <1>3 DEF PlainKinds, SignalKinds, MsgKinds, RegisterKinds
  <1>4. CASE s \in MsgKinds \X MsgTypes
    BY <1>4 DEF PlainKinds, SignalKinds, MsgKinds, RegisterKinds
  <1>5. CASE s \in {"SendAck"} \X Acks
    BY <1>5 DEF PlainKinds, SignalKinds, MsgKinds, RegisterKinds
  <1>6. CASE s \in {"Store"} \X Db0Messages
    BY <1>6 DEF PlainKinds, SignalKinds, MsgKinds, RegisterKinds
  <1>7. CASE s \in {"Suspended"} \X {"set", "clear"}
    BY <1>7 DEF PlainKinds, SignalKinds, MsgKinds, RegisterKinds
  <1>8. CASE s \in {"UpdateAnalog"} \X Values
    BY <1>8 DEF PlainKinds, SignalKinds, MsgKinds, RegisterKinds
  <1>9. CASE s \in {"EndDb3"} \X Db3Messages
    BY <1>9 DEF PlainKinds, SignalKinds, MsgKinds, RegisterKinds
  <1>10. CASE s \in RegisterKinds \X (1 .. 3)
    BY <1>10 DEF PlainKinds, SignalKinds, MsgKinds, RegisterKinds
  <1>11. CASE s \in {"Write0"} \X ((SUBSET Cmes) \X Db0Messages)
    BY <1>11 DEF PlainKinds, SignalKinds, MsgKinds, RegisterKinds
  <1>12. CASE s \in {"Write3"} \X (Cmes \X Db3Messages)
    BY <1>12 DEF PlainKinds, SignalKinds, MsgKinds, RegisterKinds
  <1>13. CASE s \in {"AwaitAck"} \X Awaited
    BY <1>13 DEF PlainKinds, SignalKinds, MsgKinds, RegisterKinds
  <1>14. CASE s \in {"Become"} \X {"stopped", "active", "safe"}
    BY <1>14 DEF PlainKinds, SignalKinds, MsgKinds, RegisterKinds
  <1> QED BY <1>1, <1>2, <1>3, <1>4, <1>5, <1>6, <1>7, <1>8, <1>9, <1>10, <1>11, <1>12, <1>13, <1>14
     DEF Steps

LEMMA CurrentStep ==
    ASSUME TodoType, NEW p \in Processes, NEW k, At(p, k)
    PROVE  /\ todo[p] # <<>> /\ todo[p] \in Seq(Steps)
           /\ todo[p][1] \in Steps /\ todo[p][1][1] = k
           /\ todo[p][1][2] = Argument(p)
           /\ Tail(todo[p]) \in Seq(Steps)
  <1>1. todo[p] # <<>> /\ todo[p] \in Seq(Steps)
    BY DEF TodoType, At
  <1>2. Len(todo[p]) \in Nat /\ Len(todo[p]) # 0
    BY <1>1
  <1>3. todo[p][1] \in Steps
    BY <1>1, <1>2
  <1>4. Tail(todo[p]) \in Seq(Steps)
    BY <1>1, HeadTailProperties
  <1> QED BY <1>1, <1>3, <1>4 DEF At, Argument

LEMMA ThenTyped ==
    ASSUME TodoType, NEW p \in Processes, todo[p] # <<>>,
           NEW more \in Seq(Steps), Then(p, more)
    PROVE  TodoType'
  <1>1. Tail(todo[p]) \in Seq(Steps)
    BY HeadTailProperties DEF TodoType
  <1>2. more \o Tail(todo[p]) \in Seq(Steps)
    BY <1>1, Joined
  <1>3. todo' = [todo EXCEPT ![p] = more \o Tail(todo[p])]
    BY DEF Then
  <1> QED BY <1>2, <1>3 DEF TodoType

LEMMA ContinueTyped ==
    ASSUME TodoType, NEW p \in Processes, NEW k, At(p, k), Continue(p)
    PROVE  TodoType'
  <1>1. <<>> \in Seq(Steps)
    OBVIOUS
  <1> QED BY <1>1, CurrentStep, ThenTyped DEF Continue

LEMMA BitsRaised ==
    ASSUME NEW e \in [Cmes -> SUBSET Bits], NEW c \in Cmes, NEW b \in Bits
    PROVE  /\ Raising(c, b, e) \in [Cmes -> SUBSET Bits]
           /\ b # "DB3" => \A d \in Cmes :
                  "DB3" \in Raising(c, b, e)[d] => "DB3" \in e[d]
  BY DEF Raising

LEMMA BitsCleared ==
    ASSUME NEW e \in [Cmes -> SUBSET Bits], NEW c \in Cmes, NEW bs
    PROVE  /\ Clearing(c, bs, e) \in [Cmes -> SUBSET Bits]
           /\ \A d \in Cmes : Clearing(c, bs, e)[d] \subseteq e[d]
  BY DEF Clearing

LEMMA Others == \A c \in Cmes : Other(c) \in Cmes
  BY DEF Cmes, Other

(* The scripts of the quad manager and of the sibling.                     *)
LEMMA LockScripts ==
    /\ LockAndIntercme \in Seq(Steps) /\ SiblingLock \in Seq(Steps)
    /\ ProcessDb0Sibling \in Seq(Steps) /\ ProcessDb0 \in Seq(Steps)
  <1>1. LockAndIntercme \in Seq(Steps)
    BY PlainSteps, Joined DEF LockAndIntercme, PlainKinds
  <1>2. SiblingLock \in Seq(Steps)
    BY <1>1, PlainSteps, Joined DEF SiblingLock, MsgTypes
  <1>3. ProcessDb0Sibling \in Seq(Steps)
    <2>1. <<<<"Answer", "IN0">>>> \in Seq(Steps)
      BY OneStep, ZenonT(60) DEF Steps, SignalKinds, Signals
    <2>2. Step("SiblingDb0") \in Seq(Steps)
      BY PlainSteps DEF PlainKinds
    <2> QED BY <2>1, <2>2, Joined DEF ProcessDb0Sibling
  <1>4. ProcessDb0 \in Seq(Steps)
    BY PlainSteps, Joined DEF ProcessDb0, PlainKinds
  <1> QED BY <1>1, <1>2, <1>3, <1>4

LEMMA UpdateScript ==
    ASSUME NEW d \in Db0Messages
    PROVE  Update(d) \in Seq(Steps)
  <1>1. d.value \in Values
    BY DEF Db0Messages
  <1>2. <<"UpdateAnalog", d.value>> \in Steps
    BY <1>1 DEF Steps
  <1>3. <<<<"UpdateAnalog", d.value>>>> \in Seq(Steps)
    BY <1>2, OneStep
  <1>4. <<<<"Pmsr", "">>, <<"NotifySibling", "">>>> \in Seq(Steps)
    <2>1. <<"Pmsr", "">> \in Steps /\ <<"NotifySibling", "">> \in Steps
      BY DEF Steps, PlainKinds
    <2> QED BY <2>1, TwoSteps
  <1>5. <<>> \in Seq(Steps) /\ MsgSend("LOCK") \in Seq(Steps)
    BY PlainSteps DEF MsgTypes
  <1> DEFINE lock == IF "qm" \in skipLock THEN <<>> ELSE MsgSend("LOCK")
             move == IF d.value # record["qm"].quadPstate
                        \/ "REGISTERING" \in flags["qm"]
                     THEN lock \o <<<<"UpdateAnalog", d.value>>>> ELSE <<>>
  <1>6. lock \in Seq(Steps)
    BY <1>5
  <1>7. move \in Seq(Steps)
    BY <1>3, <1>5, <1>6, Joined
  <1>8. Update(d) = move \o <<<<"Pmsr", "">>, <<"NotifySibling", "">>>>
    BY DEF Update
  <1> HIDE DEF move
  <1> QED BY <1>4, <1>7, <1>8, Joined

LEMMA Db0Scripts ==
    ASSUME NEW d \in Db0Messages
    PROVE  /\ Db0Start(d) \in Seq(Steps) /\ Db0GlbBcast(d) \in Seq(Steps)
           /\ Db0ClipBcast(d) \in Seq(Steps) /\ Db0Stop \in Seq(Steps)
           /\ d.msg = "PMSR" => Db0PmsrUpdt(d) \in Seq(Steps)
  <1>1. /\ Step("Db0Started") \in Seq(Steps) /\ Step("AckUpdate") \in Seq(Steps)
        /\ Step("Pmsr") \in Seq(Steps) /\ Step("Db0Stop") \in Seq(Steps)
    BY PlainSteps DEF PlainKinds
  <1>2. /\ Notify("IN0") \in Seq(Steps) /\ MsgSend("LOCK") \in Seq(Steps)
        /\ SendAck("ok") \in Seq(Steps) /\ SendAck("suspended") \in Seq(Steps)
    BY PlainSteps DEF Signals, MsgTypes, Acks
  <1>3. Db0Start(d) \in Seq(Steps) /\ Db0GlbBcast(d) \in Seq(Steps)
    BY <1>1, UpdateScript, Joined DEF Db0Start, Db0GlbBcast
  <1>4. <<<<"Store", d>>>> \in Seq(Steps)
    <2>1. <<"Store", d>> \in Steps
      BY DEF Steps
    <2> QED BY <2>1, OneStep
  <1>5. Db0ClipBcast(d) \in Seq(Steps)
    BY <1>1, <1>2, <1>4, Joined DEF Db0ClipBcast
  <1>6. Db0Stop \in Seq(Steps)
    BY <1>1, <1>2, Joined DEF Db0Stop
  <1>7. ASSUME d.msg = "PMSR" PROVE Db0PmsrUpdt(d) \in Seq(Steps)
    <2>1. d.field \in {"set", "clear"}
      BY <1>7 DEF Db0Messages
    <2>2. <<"Suspended", d.field>> \in Steps
      BY <2>1 DEF Steps
    <2>3. <<<<"Suspended", d.field>>>> \in Seq(Steps)
      BY <2>2, OneStep
    <2> QED BY <1>2, <2>3, Joined DEF Db0PmsrUpdt
  <1> QED BY <1>3, <1>5, <1>6, <1>7

LEMMA RegistrationScript ==
    ASSUME NEW n \in 0 .. 3
    PROVE  Registration(n) \in Seq(Steps)
  <1>1. CASE n = 0
    BY <1>1, PlainSteps DEF Registration, PlainKinds
  <1>2. CASE n # 0
    <2>1. n \in 1 .. 3
      BY <1>2
    <2>2. \A k \in RegisterKinds : <<k, n>> \in Steps
      BY <2>1 DEF Steps
    <2>3. <<<<"AwaitDb0", n>>, <<"RegisterDb0", n>>>> \in Seq(Steps)
      BY <2>2, TwoSteps DEF RegisterKinds
    <2> QED BY <1>2, <2>3 DEF Registration
  <1> QED BY <1>1, <1>2

LEMMA Db3Script ==
    ASSUME NEW c \in Cmes, NEW m \in Db3Messages, db0[c] \in Db0Messages
    PROVE  Db3Steps(c, m) \in Seq(Steps)
  <1>1. /\ Notify("IN2") \in Seq(Steps) /\ Serve("IN2") \in Seq(Steps)
        /\ SendAck("ok") \in Seq(Steps) /\ SendAck("unsuspended") \in Seq(Steps)
        /\ EndDb3(m) \in Seq(Steps) /\ <<>> \in Seq(Steps)
    BY PlainSteps DEF Signals, Acks
  <1>2. <<<<"Store", db0[c]>>, <<"Pmsr", "">>>> \in Seq(Steps)
    <2>1. <<"Store", db0[c]>> \in Steps /\ <<"Pmsr", "">> \in Steps
      BY DEF Steps, PlainKinds
    <2> QED BY <2>1, TwoSteps
  <1>3. CASE m \in {"HIGH", "REPLAY", "ENTER_SAFE"}
    BY <1>1, <1>3, LockScripts, Joined DEF Db3Steps
  <1>4. CASE m \in {"HANDOFF", "SUSPEND", "UNSUSPEND"}
    BY <1>1, <1>4, Joined DEF Db3Steps
  <1>5. CASE m = "CLIP"
    BY <1>1, <1>2, <1>5, Joined DEF Db3Steps
  <1> QED BY <1>3, <1>4, <1>5 DEF Db3Messages

LEMMA BootScripts == BootQuadManager \in Seq(Steps) /\ BootSibling \in Seq(Steps)
  <1>1. /\ Step("Register") \in Seq(Steps) /\ Step("Ready") \in Seq(Steps)
        /\ Step("PowerOn") \in Seq(Steps)
    BY PlainSteps DEF PlainKinds
  <1>2. \A m \in {"INIT", "SYNC"} :
            MsgSend(m) \in Seq(Steps) /\ MsgRecv(m) \in Seq(Steps)
    BY PlainSteps DEF MsgTypes
  <1>3. <<<<"Raise", "IN1">>, <<"AwaitAnswerOrRetry", "IN1">>>> \in Seq(Steps)
    <2>1. <<"Raise", "IN1">> \in Steps /\ <<"AwaitAnswerOrRetry", "IN1">> \in Steps
      BY DEF Steps, SignalKinds, Signals
    <2> QED BY <2>1, TwoSteps
  <1>4. Serve("IN1") \in Seq(Steps)
    BY PlainSteps DEF Signals
  <1> QED BY <1>1, <1>2, <1>3, <1>4, Joined DEF BootQuadManager, BootSibling

(* The scripts of the PGPE.                                                *)
LEMMA PgpeSteps ==
    /\ \A d \in Db0Messages : \A cs \in SUBSET Cmes : Write0(cs, d) \in Seq(Steps)
    /\ \A d \in Db0Messages : Unicast(d) \in Seq(Steps) /\ Multicast(d) \in Seq(Steps)
    /\ \A m \in Db3Messages : Write3(m) \in Seq(Steps)
    /\ \A e \in Acks, r \in Db3Messages \union {"none"}, n \in BOOLEAN :
           Await(e, r, n) \in Seq(Steps)
    /\ \A m \in {"stopped", "active", "safe"} : Becomes(m) \in Seq(Steps)
  <1>1. ASSUME NEW d \in Db0Messages, NEW cs \in SUBSET Cmes
        PROVE  Write0(cs, d) \in Seq(Steps)
    <2>1. <<"Write0", <<cs, d>>>> \in Steps
      BY DEF Steps
    <2> QED BY <2>1, OneStep DEF Write0
  <1>2. ASSUME NEW d \in Db0Messages
        PROVE  Unicast(d) \in Seq(Steps) /\ Multicast(d) \in Seq(Steps)
    BY <1>1, Joined DEF Unicast, Multicast, Cmes
  <1>3. ASSUME NEW m \in Db3Messages PROVE Write3(m) \in Seq(Steps)
    <2>1. \A c \in Cmes : <<"Write3", <<c, m>>>> \in Steps
      BY DEF Steps
    <2> QED BY <2>1, TwoSteps DEF Write3, Cmes
  <1>4. ASSUME NEW e \in Acks, NEW r \in Db3Messages \union {"none"},
               NEW n \in BOOLEAN
        PROVE  Await(e, r, n) \in Seq(Steps)
    <2>1. <<"AwaitAck", [expected |-> e, replay |-> r, nacked |-> n]>> \in Steps
      BY DEF Steps, Awaited
    <2> QED BY <2>1, OneStep DEF Await
  <1>5. ASSUME NEW m \in {"stopped", "active", "safe"}
        PROVE  Becomes(m) \in Seq(Steps)
    <2>1. <<"Become", m>> \in Steps
      BY DEF Steps
    <2> QED BY <2>1, OneStep DEF Becomes
  <1> QED BY <1>1, <1>2, <1>3, <1>4, <1>5

LEMMA Doorbells ==
    /\ \A d \in Db0Messages : Doorbell0(d) \in Seq(Steps)
    /\ \A m \in Db3Messages, d \in Db0Messages,
          r \in Db3Messages \union {"none"} : Doorbell3(m, d, r) \in Seq(Steps)
    /\ Throttle \in Seq(Steps) /\ Unthrottle \in Seq(Steps)
  <1>1. ASSUME NEW d \in Db0Messages PROVE Doorbell0(d) \in Seq(Steps)
    BY PgpeSteps, Joined DEF Doorbell0, Acks, Db3Messages
  <1>2. ASSUME NEW m \in Db3Messages, NEW d \in Db0Messages,
               NEW r \in Db3Messages \union {"none"}
        PROVE  Doorbell3(m, d, r) \in Seq(Steps)
    <2>1. \A c \in Cmes : <<"Write3", <<c, m>>>> \in Steps
      BY DEF Steps
    <2>2. /\ <<<<"Write3", <<"qm", m>>>>>> \in Seq(Steps)
          /\ <<<<"Write3", <<"sib", m>>>>>> \in Seq(Steps)
      BY <2>1, OneStep DEF Cmes
    <2>3. Write0({"qm"}, d) \in Seq(Steps) /\ Write0({"sib"}, d) \in Seq(Steps)
      BY PgpeSteps DEF Cmes
    <2>4. Await("ok", r, FALSE) \in Seq(Steps)
      BY PgpeSteps DEF Acks
    <2> QED BY <2>2, <2>3, <2>4, Joined DEF Doorbell3
  <1>3. Throttle \in Seq(Steps)
    BY PgpeSteps, PlainSteps, Joined DEF Throttle, Db3Messages, PlainKinds
  <1>4. Unthrottle \in Seq(Steps)
    <2>1. Message("PMSR", "clear", 0) \in Db0Messages
      BY DEF Message, Db0Messages, Values
    <2>2. Write3("UNSUSPEND") \in Seq(Steps)
      BY PgpeSteps DEF Db3Messages
    <2>3. Await("unsuspended", "none", FALSE) \in Seq(Steps)
      BY PgpeSteps DEF Acks
    <2> QED BY <1>1, <2>1, <2>2, <2>3, Joined DEF Unthrottle
  <1> QED BY <1>1, <1>2, <1>3, <1>4

LEMMA StartScript ==
    ASSUME NEW w \in Targets
    PROVE  StartPstates(w) \in Seq(Steps)
  <1>1. w.quadPstate \in Values /\ w.pmin \in Values /\ w.pmax \in Values
    BY DEF Targets, Values
  <1>2. /\ Message("START", "quadPstate", w.quadPstate) \in Db0Messages
        /\ Message("CLIP", "pmin", w.pmin) \in Db0Messages
        /\ Message("CLIP", "pmax", w.pmax) \in Db0Messages
    BY <1>1 DEF Message, Db0Messages
  <1> QED BY <1>2, Doorbells, Joined DEF StartPstates, Clips

LEMMA ProtocolScript ==
    ASSUME NEW op \in AllOperations, NEW field \in Fields(op), NEW w \in Targets
    PROVE  Protocol(op, field, w) \in Seq(Steps)
  <1>1. w.quadPstate \in Values
    BY DEF Targets, Values
  <1>2. CASE op = "start"
    BY <1>2, StartScript, PgpeSteps, Joined DEF Protocol
  <1>3. CASE op = "freq"
    <2>1. Message("GLB", "quadPstate", w.quadPstate) \in Db0Messages
      BY <1>1 DEF Message, Db0Messages
    <2>2. Await("ok", "REPLAY", FALSE) \in Seq(Steps)
      BY PgpeSteps DEF Acks, Db3Messages
    <2> QED BY <1>3, <2>1, <2>2, PgpeSteps, Joined DEF Protocol
  <1>4. Payload("quadPstate", w.quadPstate) \in Db0Messages
    BY <1>1 DEF Payload, Message, Db0Messages
  <1>5. CASE op = "high"
    BY <1>4, <1>5, Doorbells DEF Protocol, Db3Messages
  <1>6. CASE op = "clip"
    <2>1. field \in {"pmin", "pmax"}
      BY <1>6 DEF Fields
    <2>2. w[field] \in Values
      BY <2>1 DEF Targets, Values
    <2>3. Payload(field, w[field]) \in Db0Messages
      BY <2>1, <2>2 DEF Payload, Message, Db0Messages
    <2> QED BY <1>6, <2>3, Doorbells DEF Protocol, Db3Messages
  <1>7. CASE op = "stop"
    <2>1. Message("STOP", "none", 0) \in Db0Messages
      BY DEF Message, Db0Messages, Values
    <2>2. Await("suspended", "REPLAY", FALSE) \in Seq(Steps)
      BY PgpeSteps DEF Acks, Db3Messages
    <2>3. Unicast(Message("STOP", "none", 0)) \in Seq(Steps)
      BY <2>1, PgpeSteps
    <2>4. Becomes("stopped") \in Seq(Steps)
      BY PgpeSteps
    <2> QED BY <1>7, <2>2, <2>3, <2>4, Joined DEF Protocol
  <1>8. CASE op = "safe"
    BY <1>4, <1>8, Doorbells, PgpeSteps, Joined DEF Db3Messages, Protocol
  <1>9. CASE op = "handoff"
    BY <1>9, PgpeSteps, Joined DEF Protocol, Acks, Db3Messages
  <1> QED BY <1>2, <1>3, <1>5, <1>6, <1>7, <1>8, <1>9 DEF AllOperations
-----------------------------------------------------------------------------
(* Type correctness, action by action.                                     *)

LEMMA TypesKept ==
    ASSUME TypeInv
    PROVE  /\ UNCHANGED irqVars => IrqType'
           /\ UNCHANGED doorbellVars => DoorbellType'
           /\ UNCHANGED <<db0, db3, icrr, type4>> => DoorbellType'
           /\ UNCHANGED cmeVars => CmeType'
           /\ UNCHANGED sysVars => PgpeType'
           /\ UNCHANGED <<eisr, db3>> => Db3Written'
  BY DEF TypeInv, IrqType, DoorbellType, CmeType, PgpeType, Db3Written,
         irqVars, doorbellVars, cmeVars, sysVars, pgpeVars

LEMMA EisrTyped ==
    ASSUME TypeInv, NEW c \in Cmes, UNCHANGED <<busy, masked, ticks, db3>>,
           \/ \E b \in Bits \ {"DB3"} : eisr' = Raising(c, b, eisr)
           \/ \E bs : eisr' = Clearing(c, bs, eisr)
    PROVE  IrqType' /\ Db3Written'
  <1>1. eisr \in [Cmes -> SUBSET Bits]
    BY DEF TypeInv, IrqType
  <1>2. /\ eisr' \in [Cmes -> SUBSET Bits]
        /\ \A d \in Cmes : "DB3" \in eisr'[d] => "DB3" \in eisr[d]
    <2>1. CASE \E b \in Bits \ {"DB3"} : eisr' = Raising(c, b, eisr)
      BY <1>1, <2>1, BitsRaised
    <2>2. CASE \E bs : eisr' = Clearing(c, bs, eisr)
      BY <1>1, <2>2, BitsCleared
    <2> QED BY <2>1, <2>2
  <1> QED BY <1>2 DEF TypeInv, IrqType, Db3Written

LEMMA SignalBits == Signals \subseteq Bits \ {"DB3"} /\ {"RECVD", "ACK"} \subseteq Bits \ {"DB3"}
  BY DEF Bits, Signals

LEMMA CmesAre == Cmes \subseteq Processes /\ "qm" \in Cmes /\ "sib" \in Cmes
                 /\ "pgpe" \in Processes
  BY DEF Cmes, Processes

LEMMA TypesSignals ==
    ASSUME TypeInv, NEW c \in Cmes,
           \/ RaiseSignal(c) \/ AwaitAnswer(c) \/ AwaitSignal(c) \/ Answer(c)
           \/ ClearBit(c)
    PROVE  TypeInv'
  <1> USE CmesAre
  <1>0. TodoType /\ c \in Processes /\ Other(c) \in Cmes
    BY Others DEF TypeInv
  <1>1. CASE RaiseSignal(c)
    <2>1. At(c, "Raise") /\ Continue(c) /\ eisr' = Raising(Other(c), Argument(c), eisr)
      BY <1>1 DEF RaiseSignal, Running
    <2>2. Argument(c) \in Signals
      BY <1>0, <2>1, CurrentStep, Arguments DEF SignalKinds
    <2>3. UNCHANGED <<busy, masked, ticks, db3>>
      BY <1>1 DEF RaiseSignal, doorbellVars
    <2>4. IrqType' /\ Db3Written'
      BY <1>0, <2>1, <2>2, <2>3, EisrTyped, SignalBits
    <2>5. TodoType'
      BY <1>0, <2>1, ContinueTyped
    <2> QED BY <1>1, <2>4, <2>5, TypesKept DEF RaiseSignal, TypeInv
  <1>2. CASE AwaitAnswer(c)
    <2>1. /\ At(c, "AwaitAnswer") \/ At(c, "AwaitAnswerOrRetry")
          /\ Continue(c) /\ eisr' = Clearing(c, {Argument(c)}, eisr)
      BY <1>2 DEF AwaitAnswer, Running
    <2>3. UNCHANGED <<busy, masked, ticks, db3>>
      BY <1>2 DEF AwaitAnswer, doorbellVars
    <2>4. IrqType' /\ Db3Written'
      BY <2>1, <2>3, EisrTyped
    <2>5. TodoType'
      BY <1>0, <2>1, ContinueTyped
    <2> QED BY <1>2, <2>4, <2>5, TypesKept DEF AwaitAnswer, TypeInv
  <1>3. CASE AwaitSignal(c)
    <2>1. At(c, "AwaitSignal") /\ Continue(c)
      BY <1>3 DEF AwaitSignal, Running
    <2>2. TodoType'
      BY <1>0, <2>1, ContinueTyped
    <2>3. UNCHANGED <<eisr, db3>>
      BY <1>3 DEF AwaitSignal, irqVars, doorbellVars
    <2> QED BY <1>3, <2>2, <2>3, TypesKept DEF AwaitSignal, TypeInv
  <1>4. CASE Answer(c)
    <2>1. /\ At(c, "Answer") /\ Then(c, <<<<"ClearBit", Argument(c)>>>>)
          /\ eisr' = Raising(Other(c), Argument(c), eisr)
      BY <1>4 DEF Answer, Running
    <2>2. Argument(c) \in Signals
      BY <1>0, <2>1, CurrentStep, Arguments DEF SignalKinds
    <2>3. UNCHANGED <<busy, masked, ticks, db3>>
      BY <1>4 DEF Answer, doorbellVars
    <2>4. IrqType' /\ Db3Written'
      BY <1>0, <2>1, <2>2, <2>3, EisrTyped, SignalBits
    <2>5. <<"ClearBit", Argument(c)>> \in Steps
      BY <2>2 DEF Steps
    <2>6. <<<<"ClearBit", Argument(c)>>>> \in Seq(Steps)
      BY <2>5, OneStep
    <2>7. todo[c] # <<>>
      BY <2>1 DEF At
    <2>8. TodoType'
      BY <1>0, <2>1, <2>6, <2>7, ThenTyped
    <2> QED BY <1>4, <2>4, <2>8, TypesKept DEF Answer, TypeInv
  <1>5. CASE ClearBit(c)
    <2>1. At(c, "ClearBit") /\ Continue(c) /\ eisr' = Clearing(c, {Argument(c)}, eisr)
      BY <1>5 DEF ClearBit, Running
    <2>3. UNCHANGED <<busy, masked, ticks, db3>>
      BY <1>5 DEF ClearBit, doorbellVars
    <2>4. IrqType' /\ Db3Written'
      BY <2>1, <2>3, EisrTyped
    <2>5. TodoType'
      BY <1>0, <2>1, ContinueTyped
    <2> QED BY <1>5, <2>4, <2>5, TypesKept DEF ClearBit, TypeInv
  <1> QED BY <1>1, <1>2, <1>3, <1>4, <1>5

(* PMSR, for whatever the record and the flags have become.                *)
LEMMA PmsrTyped ==
    ASSUME NEW c \in Cmes, pmsr \in [Cmes -> PmsrValues],
           record' \in [Cmes -> Records], PmsrUpdt(c)
    PROVE  pmsr' \in [Cmes -> PmsrValues]
  <1>1. PmsrOf(record'[c], flags'[c]) \in PmsrValues
    <2>1. PICK r \in Records : r = record'[c]
      OBVIOUS
    <2>2. PmsrOf(r, flags'[c]) \in PmsrValues
      BY DEF PmsrOf, PmsrValues, Records
    <2> QED BY <2>1, <2>2
  <1> QED BY <1>1 DEF PmsrUpdt

LEMMA FieldStored ==
    ASSUME NEW r \in [Cmes -> Records], NEW c \in Cmes,
           NEW f \in {"none", "quadPstate", "pmin", "pmax", "set", "clear"},
           NEW v \in Values
    PROVE  [r EXCEPT ![c][f] = v] \in [Cmes -> Records]
  <1>1. PICK s \in Records : s = r[c]
    OBVIOUS
  <1>2. [s EXCEPT ![f] = v] \in Records
    <2>1. CASE f \in {"quadPstate", "pmin", "pmax"}
      BY <2>1 DEF Records
    <2>2. CASE f \in {"none", "set", "clear"}
      BY <2>2 DEF Records
    <2> QED BY <2>1, <2>2
  <1>3. [r EXCEPT ![c][f] = v] = [r EXCEPT ![c] = [s EXCEPT ![f] = v]]
    BY <1>1
  <1> QED BY <1>2, <1>3

LEMMA SuspendedTyped ==
    ASSUME NEW command \in {"set", "clear"}, NEW f \in SUBSET Flags
    PROVE  SuspendedFlag(command, f) \in SUBSET Flags
  BY DEF SuspendedFlag, Flags

LEMMA TypesSteps ==
    ASSUME TypeInv, NEW c \in Cmes,
           \/ StoreField(c) \/ UpdatePmsr(c) \/ SuspendPstates(c) \/ Ready(c)
           \/ FinishDb3(c) \/ ToFsafe(c)
    PROVE  TypeInv'
  <1> USE CmesAre
  <1>0. TodoType /\ c \in Processes
    BY DEF TypeInv
  <1>1. CASE StoreField(c)
    <2>1. At(c, "Store") /\ Continue(c)
          /\ record' = [record EXCEPT ![c][Argument(c).field] = Argument(c).value]
      BY <1>1 DEF StoreField, Running
    <2>2. Argument(c) \in Db0Messages
      BY <1>0, <2>1, CurrentStep, Arguments
    <2>3. record' \in [Cmes -> Records]
      BY <2>1, <2>2, FieldStored, ZenonT(60) DEF TypeInv, CmeType, Db0Messages
    <2>4. TodoType'
      BY <1>0, <2>1, ContinueTyped
    <2>5. CmeType'
      BY <1>1, <2>3 DEF StoreField, TypeInv, CmeType
    <2>6. UNCHANGED <<eisr, db3>>
      BY <1>1 DEF StoreField, irqVars, doorbellVars
    <2> QED BY <1>1, <2>4, <2>5, <2>6, TypesKept DEF StoreField, TypeInv
  <1>2. CASE UpdatePmsr(c)
    <2>1. At(c, "Pmsr") /\ Continue(c) /\ PmsrUpdt(c)
      BY <1>2 DEF UpdatePmsr, Running
    <2>2. pmsr' \in [Cmes -> PmsrValues]
      BY <1>2, <2>1, PmsrTyped DEF UpdatePmsr, TypeInv, CmeType
    <2>4. TodoType'
      BY <1>0, <2>1, ContinueTyped
    <2>5. CmeType'
      BY <1>2, <2>2 DEF UpdatePmsr, TypeInv, CmeType
    <2>6. UNCHANGED <<eisr, db3>>
      BY <1>2 DEF UpdatePmsr, irqVars, doorbellVars
    <2> QED BY <1>2, <2>4, <2>5, <2>6, TypesKept DEF UpdatePmsr, TypeInv
  <1>3. CASE SuspendPstates(c)
    <2>1. /\ At(c, "Suspended") /\ Continue(c) /\ PmsrUpdt(c)
          /\ flags' = [flags EXCEPT ![c] = SuspendedFlag(Argument(c), @)]
      BY <1>3 DEF SuspendPstates, Running
    <2>2. Argument(c) \in {"set", "clear"}
      BY <1>0, <2>1, CurrentStep, Arguments
    <2>3. flags' \in [Cmes -> SUBSET Flags]
      BY <2>1, <2>2, SuspendedTyped DEF TypeInv, CmeType
    <2>4. TodoType'
      BY <1>0, <2>1, ContinueTyped
    <2>7. pmsr' \in [Cmes -> PmsrValues]
      BY <1>3, <2>1, PmsrTyped DEF SuspendPstates, TypeInv, CmeType
    <2>5. CmeType'
      BY <1>3, <2>3, <2>7 DEF SuspendPstates, TypeInv, CmeType
    <2>6. UNCHANGED <<eisr, db3>>
      BY <1>3 DEF SuspendPstates, irqVars, doorbellVars
    <2> QED BY <1>3, <2>4, <2>5, <2>6, TypesKept DEF SuspendPstates, TypeInv
  <1>4. CASE Ready(c)
    <2>1. At(c, "Ready") /\ Continue(c)
      BY <1>4 DEF Ready, Running
    <2>4. TodoType'
      BY <1>0, <2>1, ContinueTyped
    <2>5. CmeType'
      BY <1>4 DEF Ready, TypeInv, CmeType, Flags
    <2>6. UNCHANGED <<eisr, db3>>
      BY <1>4 DEF Ready, irqVars, doorbellVars
    <2> QED BY <1>4, <2>4, <2>5, <2>6, TypesKept DEF Ready, TypeInv
  <1>5. CASE FinishDb3(c)
    <2>1. At(c, "EndDb3") /\ Continue(c)
      BY <1>5 DEF FinishDb3, Running
    <2>4. TodoType'
      BY <1>0, <2>1, ContinueTyped
    <2>5. CmeType'
      BY <1>5 DEF FinishDb3, TypeInv, CmeType, Flags
    <2>6. UNCHANGED <<eisr, db3>>
      BY <1>5 DEF FinishDb3, irqVars, doorbellVars
    <2> QED BY <1>5, <2>4, <2>5, <2>6, TypesKept DEF FinishDb3, TypeInv
  <1>6. CASE ToFsafe(c)
    <2>1. At(c, "ToFsafe") /\ Continue(c)
      BY <1>6 DEF ToFsafe, Running
    <2>4. TodoType'
      BY <1>0, <2>1, ContinueTyped
    <2>5. CmeType'
      BY <1>6 DEF ToFsafe, TypeInv, CmeType, Flags, Values, Fsafe
    <2>6. UNCHANGED <<eisr, db3>>
      BY <1>6 DEF ToFsafe, irqVars, doorbellVars
    <2> QED BY <1>6, <2>4, <2>5, <2>6, TypesKept DEF ToFsafe, TypeInv
  <1> QED BY <1>1, <1>2, <1>3, <1>4, <1>5, <1>6

LEMMA TypesRegister ==
    ASSUME TypeInv, NEW c \in Cmes, Register(c)
    PROVE  TypeInv'
  <1> USE CmesAre
  <1>0. TodoType /\ c \in Processes /\ At(c, "Register") /\ todo[c] # <<>>
    BY DEF TypeInv, Register, Running, At
  <1>1. UNCHANGED <<busy, masked, ticks, db0, db3, icrr, record, pmsr, vdmDroop,
                    skipLock, analogError, frequency>> /\ UNCHANGED sysVars
    BY DEF Register
  <1>2. PgpeType'
    BY <1>1, TypesKept
  <1>3. CASE c = "qm"
    <2>1. /\ eisr' = Clearing("qm", {"DB0"}, eisr) /\ type4' = "available"
          /\ flags' = [flags EXCEPT !["qm"] = @ \union {"REGISTERING"}]
          /\ Then("qm", Registration(IF "INTERLOCK" \in flags[c] THEN 3 ELSE 0))
      BY <1>3 DEF Register
    <2>2. IrqType' /\ Db3Written'
      BY <1>1, <2>1, EisrTyped
    <2>3. Registration(IF "INTERLOCK" \in flags[c] THEN 3 ELSE 0) \in Seq(Steps)
      BY RegistrationScript
    <2>4. TodoType'
      BY <1>0, <1>3, <2>1, <2>3, ThenTyped
    <2>5. CmeType' /\ DoorbellType'
      BY <1>1, <2>1 DEF TypeInv, CmeType, DoorbellType, Flags
    <2> QED BY <1>2, <2>2, <2>4, <2>5 DEF TypeInv
  <1>4. CASE c = "sib"
    <2>1. UNCHANGED <<eisr, type4, flags>>
      BY <1>4 DEF Register
    <2> DEFINE more == IF "INTERLOCK" \in flags["sib"]
                       THEN SiblingLock \o SiblingLock \o SiblingLock ELSE <<>>
    <2>2. Then("sib", more)
      BY <1>4 DEF Register
    <2>3. more \in Seq(Steps)
      BY LockScripts, Joined
    <2> HIDE DEF more
    <2>4. TodoType'
      BY <1>0, <1>4, <2>2, <2>3, ThenTyped
    <2>5. UNCHANGED irqVars /\ UNCHANGED cmeVars /\ UNCHANGED <<eisr, db3>>
          /\ UNCHANGED <<db0, db3, icrr, type4>>
      BY <1>1, <2>1 DEF irqVars, cmeVars
    <2> QED BY <1>2, <2>4, <2>5, TypesKept DEF TypeInv
  <1> QED BY <1>3, <1>4 DEF Cmes
LEMMA TypesMessages ==
    ASSUME TypeInv, Send \/ AwaitMsgAck \/ Receive \/ Retry
    PROVE  TypeInv'
  <1> USE CmesAre
  <1>0. TodoType /\ {"qm", "sib"} \subseteq Processes
    BY DEF TypeInv
  <1>1. CASE Send
    <2>1. /\ At("qm", "Send") /\ Continue("qm") /\ eisr' = Raising("sib", "RECVD", eisr)
          /\ icrr' = <<Argument("qm"), record["qm"].quadPstate>>
          /\ UNCHANGED <<busy, masked, ticks, db0, db3, type4>>
          /\ UNCHANGED cmeVars /\ UNCHANGED sysVars
      BY <1>1 DEF Send, Running
    <2>2. Argument("qm") \in MsgTypes
      BY <1>0, <2>1, CurrentStep, Arguments DEF MsgKinds
    <2>3. record["qm"].quadPstate \in Values
      BY DEF TypeInv, CmeType, Records
    <2>4. IrqType' /\ Db3Written'
      BY <2>1, EisrTyped, SignalBits
    <2>5. DoorbellType'
      BY <2>1, <2>2, <2>3 DEF TypeInv, DoorbellType, MsgTypes
    <2>6. TodoType'
      BY <1>0, <2>1, ContinueTyped
    <2> QED BY <2>1, <2>4, <2>5, <2>6, TypesKept DEF TypeInv
  <1>2. CASE AwaitMsgAck
    <2>1. /\ At("qm", "AwaitMsgAck") /\ Continue("qm") /\ eisr' = Clearing("qm", {"ACK"}, eisr)
          /\ UNCHANGED <<busy, masked, ticks>> /\ UNCHANGED doorbellVars
          /\ UNCHANGED cmeVars /\ UNCHANGED sysVars
      BY <1>2 DEF AwaitMsgAck, Running
    <2>4. IrqType' /\ Db3Written'
      BY <2>1, EisrTyped DEF doorbellVars
    <2>6. TodoType'
      BY <1>0, <2>1, ContinueTyped
    <2> QED BY <2>1, <2>4, <2>6, TypesKept DEF TypeInv
  <1>3. CASE Receive
    <2>1. /\ At("sib", "Receive") /\ todo["sib"] # <<>>
          /\ UNCHANGED <<busy, masked, ticks, db3, pmsr, flags, vdmDroop, skipLock,
                         analogError, frequency, droops>>
          /\ UNCHANGED doorbellVars /\ UNCHANGED pgpeVars
      BY <1>3 DEF Receive, Running, At, doorbellVars
    <2>2. CASE UNCHANGED <<eisr, record>> /\ Panics("sib")
      <3>1. TodoType' /\ IrqType' /\ Db3Written' /\ DoorbellType' /\ CmeType'
        BY <2>1, <2>2 DEF TypeInv, TodoType, IrqType, Db3Written, DoorbellType,
                          CmeType, Panics, doorbellVars
      <3>2. PgpeType'
        BY <2>1, <2>2 DEF TypeInv, PgpeType, Panics, pgpeVars
      <3> QED BY <3>1, <3>2 DEF TypeInv
    <2>3. CASE /\ eisr' = Raising("qm", "ACK", eisr)
               /\ Then("sib", <<<<"ClearBit", "RECVD">>>>)
               /\ record' = IF Argument("sib") = "INIT"
                            THEN [record EXCEPT !["sib"].quadPstate = icrr[2]]
                            ELSE record
               /\ UNCHANGED panic
      <3>1. IrqType' /\ Db3Written'
        BY <2>1, <2>3, EisrTyped, SignalBits
      <3>2. <<"ClearBit", "RECVD">> \in Steps
        BY DEF Steps
      <3>3. <<<<"ClearBit", "RECVD">>>> \in Seq(Steps)
        BY <3>2, OneStep
      <3>4. TodoType'
        BY <1>0, <2>1, <2>3, <3>3, ThenTyped
      <3>5. icrr[2] \in Values
        BY DEF TypeInv, DoorbellType
      <3>6. record' \in [Cmes -> Records]
        BY <2>3, <3>5 DEF TypeInv, CmeType, Records
      <3>7. CmeType' /\ DoorbellType' /\ PgpeType'
        BY <2>1, <2>3, <3>6 DEF TypeInv, CmeType, DoorbellType, PgpeType,
                                doorbellVars, pgpeVars
      <3> QED BY <3>1, <3>4, <3>7 DEF TypeInv
    <2> QED BY <1>3, <2>2, <2>3 DEF Receive
  <1>4. CASE Retry
    <2>1. /\ eisr' = Raising("sib", "IN1", eisr)
          /\ UNCHANGED <<todo, busy, masked, ticks>> /\ UNCHANGED doorbellVars
          /\ UNCHANGED cmeVars /\ UNCHANGED sysVars
      BY <1>4 DEF Retry
    <2>2. "IN1" \in Bits \ {"DB3"}
      BY DEF Bits, Signals
    <2>3. IrqType' /\ Db3Written'
      BY <2>1, <2>2, EisrTyped DEF doorbellVars
    <2>4. TodoType'
      BY <1>0, <2>1 DEF TodoType
    <2> QED BY <2>1, <2>3, <2>4, TypesKept DEF TypeInv
  <1> QED BY <1>1, <1>2, <1>3, <1>4

LEMMA TypesSibling ==
    ASSUME TypeInv, PowerOn \/ Spin \/ CheckIn0 \/ SiblingDb0
    PROVE  TypeInv'
  <1> USE CmesAre
  <1>0. TodoType /\ "sib" \in Processes
    BY DEF TypeInv
  <1>1. CASE PowerOn
    <2>1. /\ At("sib", "PowerOn") /\ Continue("sib") /\ eisr' = [eisr EXCEPT !["sib"] = {}]
          /\ UNCHANGED <<busy, masked, ticks>> /\ UNCHANGED doorbellVars
          /\ UNCHANGED cmeVars /\ UNCHANGED sysVars
      BY <1>1 DEF PowerOn, Running
    <2>2. IrqType'
      BY <2>1 DEF TypeInv, IrqType
    <2>3. Db3Written'
      BY <2>1 DEF TypeInv, IrqType, Db3Written, doorbellVars
    <2>4. TodoType'
      BY <1>0, <2>1, ContinueTyped
    <2> QED BY <2>1, <2>2, <2>3, <2>4, TypesKept DEF TypeInv
  <1>2. CASE Spin \/ CheckIn0
    <2>1. PICK more : /\ more = <<<<"Suspended", "set">>, <<"Answer", "IN1">>>>
                         \/ more = ProcessDb0Sibling \/ more = <<>>
                      /\ Then("sib", more)
      <3>1. CASE Spin
        <4>1. \/ Then("sib", <<<<"Suspended", "set">>, <<"Answer", "IN1">>>>)
              \/ Then("sib", <<>>)
          <5>1. CASE "IN1" \in eisr["sib"]
            BY <3>1, <5>1 DEF Spin
          <5>2. CASE "IN1" \notin eisr["sib"]
            BY <3>1, <5>2 DEF Spin
          <5> QED BY <5>1, <5>2
        <4> QED BY <4>1
      <3>2. CASE CheckIn0
        <4>1. Then("sib", ProcessDb0Sibling) \/ Then("sib", <<>>)
          <5>1. CASE "IN0" \in eisr["sib"]
            BY <3>2, <5>1 DEF CheckIn0
          <5>2. CASE "IN0" \notin eisr["sib"]
            BY <3>2, <5>2 DEF CheckIn0
          <5> QED BY <5>1, <5>2
        <4> QED BY <4>1
      <3> QED BY <1>2, <3>1, <3>2
    <2>2. <<<<"Suspended", "set">>, <<"Answer", "IN1">>>> \in Seq(Steps)
      <3>1. <<"Suspended", "set">> \in Steps /\ <<"Answer", "IN1">> \in Steps
        BY DEF Steps, SignalKinds, Signals
      <3> QED BY <3>1, TwoSteps
    <2>3. more \in Seq(Steps)
      <3>1. <<>> \in Seq(Steps)
        OBVIOUS
      <3>2. CASE more = ProcessDb0Sibling
        BY <3>2, LockScripts
      <3> QED BY <2>1, <2>2, <3>1, <3>2
    <2>4. todo["sib"] # <<>>
      BY <1>2 DEF Spin, CheckIn0, Running, At
    <2>5. TodoType'
      BY <1>0, <2>1, <2>3, <2>4, ThenTyped
    <2>6. UNCHANGED irqVars /\ UNCHANGED doorbellVars /\ UNCHANGED cmeVars
          /\ UNCHANGED sysVars
      BY <1>2 DEF Spin, CheckIn0
    <2>7. UNCHANGED <<eisr, db3>>
      BY <2>6 DEF irqVars, doorbellVars
    <2> QED BY <2>5, <2>6, <2>7, TypesKept DEF TypeInv
  <1>3. CASE SiblingDb0
    <2>1. /\ At("sib", "SiblingDb0") /\ eisr' = Clearing("sib", {"DB0"}, eisr)
          /\ PmsrUpdt("sib") /\ UNCHANGED doorbellVars
          /\ UNCHANGED <<busy, ticks, vdmDroop, skipLock, analogError, frequency, droops>>
          /\ UNCHANGED pgpeVars
      BY <1>3 DEF SiblingDb0, Running
    <2>2. db0["sib"] \in Db0Messages
      BY DEF TypeInv, DoorbellType
    <2>3. db0["sib"].value \in Values
          /\ db0["sib"].field \in {"none", "quadPstate", "pmin", "pmax", "set", "clear"}
      BY <2>2 DEF Db0Messages
    <2>4. record' \in [Cmes -> Records]
      BY <1>3, <2>3, FieldStored DEF SiblingDb0, TypeInv, CmeType
    <2>5. flags' \in [Cmes -> SUBSET Flags]
      <3>1. \/ flags' = flags
            \/ flags' = [flags EXCEPT !["sib"] = @ \union {"STARVE"}]
            \/ /\ db0["sib"].msg = "PMSR"
               /\ flags' = [flags EXCEPT !["sib"] = SuspendedFlag(db0["sib"].field, @)]
        BY <1>3 DEF SiblingDb0
      <3>2. db0["sib"].msg = "PMSR" => db0["sib"].field \in {"set", "clear"}
        BY <2>2 DEF Db0Messages
      <3> QED BY <3>1, <3>2, SuspendedTyped DEF TypeInv, CmeType, Flags
    <2>6. masked' \in [Cmes -> SUBSET {"HB", "PMCR"}]
      BY <1>3 DEF SiblingDb0, TypeInv, IrqType
    <2>7. IrqType' /\ Db3Written'
      BY <2>1, <2>6, BitsCleared DEF TypeInv, IrqType, Db3Written, doorbellVars
    <2>8. pmsr' \in [Cmes -> PmsrValues]
      BY <2>1, <2>4, PmsrTyped DEF TypeInv, CmeType
    <2>9. CmeType'
      BY <2>1, <2>4, <2>5, <2>8 DEF TypeInv, CmeType
    <2>10. TodoType' /\ PgpeType'
      <3>1. CASE Panics("sib")
        BY <2>1, <3>1 DEF TypeInv, TodoType, PgpeType, Panics, pgpeVars
      <3>2. CASE Continue("sib") /\ UNCHANGED panic
        BY <1>0, <2>1, <3>2, ContinueTyped DEF TypeInv, PgpeType, pgpeVars
      <3> QED BY <1>3, <3>1, <3>2 DEF SiblingDb0
    <2> QED BY <2>1, <2>7, <2>9, <2>10, TypesKept DEF TypeInv
  <1> QED BY <1>1, <1>2, <1>3
LEMMA TypesQuadManager ==
    ASSUME TypeInv,
           \/ ClearDb0 \/ UpdateAnalog \/ Db0Started \/ AckUpdate \/ Db0StopFlags
           \/ SendAckToPgpe \/ AwaitDb0 \/ Registered \/ FinishDb0
    PROVE  TypeInv'
  <1> USE CmesAre
  <1>0. TodoType /\ "qm" \in Processes
    BY DEF TypeInv
  <1>1. CASE ClearDb0
    <2>1. /\ At("qm", "ClearDb0") /\ Continue("qm") /\ analogError' = FALSE
          /\ ticks' = [ticks EXCEPT !["DB0"] = 0] /\ eisr' = Clearing("qm", {"DB0"}, eisr)
          /\ UNCHANGED <<busy, masked, record, pmsr, flags, vdmDroop, skipLock,
                         frequency>>
          /\ UNCHANGED doorbellVars /\ UNCHANGED sysVars
      BY <1>1 DEF ClearDb0, Running
    <2>2. /\ eisr' \in [Cmes -> SUBSET Bits]
          /\ \A d \in Cmes : eisr'[d] \subseteq eisr[d]
      BY <2>1, BitsCleared DEF TypeInv, IrqType
    <2>3. IrqType' /\ Db3Written'
      BY <2>1, <2>2 DEF TypeInv, IrqType, Db3Written, DB0_FIT_TICK_THRESHOLD,
                        doorbellVars
    <2>4. CmeType'
      BY <2>1 DEF TypeInv, CmeType
    <2>5. TodoType'
      BY <1>0, <2>1, ContinueTyped
    <2> QED BY <2>1, <2>3, <2>4, <2>5, TypesKept DEF TypeInv
  <1>2. CASE UpdateAnalog
    <2>1. /\ At("qm", "UpdateAnalog") /\ Continue("qm")
          /\ UNCHANGED irqVars /\ UNCHANGED doorbellVars
          /\ UNCHANGED <<pmsr, vdmDroop, skipLock, panic>> /\ UNCHANGED pgpeVars
      BY <1>2 DEF UpdateAnalog, Running
    <2>2. Argument("qm") \in Values
      BY <1>0, <2>1, CurrentStep, Arguments
    <2>3. \/ /\ frequency' = Argument("qm")
             /\ record' = [record EXCEPT !["qm"].quadPstate = Argument("qm")]
             /\ UNCHANGED <<analogError, flags, droops>>
          \/ /\ droops > 0 /\ droops' = droops - 1 /\ analogError' = TRUE
             /\ flags' = [flags EXCEPT !["qm"] = @ \union {"SUSPENDED"}]
             /\ frequency' \in {frequency, Argument("qm")} /\ UNCHANGED record
      BY <1>2 DEF UpdateAnalog
    <2>4. CmeType'
      BY <2>1, <2>2, <2>3, ZenonT(60) DEF TypeInv, CmeType, Records, Flags
    <2>5. PgpeType'
      BY <2>1, <2>3, CmeAssumption DEF TypeInv, PgpeType, pgpeVars
    <2>6. TodoType'
      BY <1>0, <2>1, ContinueTyped
    <2>7. UNCHANGED <<eisr, db3>>
      BY <2>1 DEF irqVars, doorbellVars
    <2> QED BY <2>1, <2>4, <2>5, <2>6, <2>7, TypesKept DEF TypeInv
  <1>3. CASE Db0Started
    <2>1. /\ At("qm", "Db0Started") /\ Continue("qm") /\ type4' = UpdateAck
          /\ eisr' = Clearing("qm", {"DB0"}, eisr)
          /\ masked' = [masked EXCEPT !["qm"] =
                            @ \ (IF analogError THEN {"HB"} ELSE {"HB", "PMCR"})]
          /\ flags' = [flags EXCEPT !["qm"] =
                           @ \union IF analogError THEN {} ELSE {"ENABLED", "STARVE"}]
          /\ analogError' = FALSE
          /\ UNCHANGED <<busy, ticks, db0, db3, icrr, record, pmsr, vdmDroop,
                         skipLock, frequency>> /\ UNCHANGED sysVars
      BY <1>3 DEF Db0Started, Running
    <2>2. /\ eisr' \in [Cmes -> SUBSET Bits]
          /\ \A d \in Cmes : eisr'[d] \subseteq eisr[d]
      BY <2>1, BitsCleared DEF TypeInv, IrqType
    <2>3. IrqType' /\ Db3Written'
      BY <2>1, <2>2 DEF TypeInv, IrqType, Db3Written
    <2>4. CmeType'
      BY <2>1 DEF TypeInv, CmeType, Flags
    <2>5. DoorbellType'
      BY <2>1 DEF TypeInv, DoorbellType, UpdateAck, Acks
    <2>6. TodoType'
      BY <1>0, <2>1, ContinueTyped
    <2> QED BY <2>1, <2>3, <2>4, <2>5, <2>6, TypesKept DEF TypeInv
  <1>4. CASE AckUpdate \/ SendAckToPgpe
    <2>1. /\ Continue("qm") /\ UNCHANGED irqVars /\ UNCHANGED cmeVars
          /\ UNCHANGED sysVars /\ UNCHANGED <<db0, db3, icrr>>
      BY <1>4 DEF AckUpdate, SendAckToPgpe
    <2>2. PICK k : At("qm", k)
      BY <1>4 DEF AckUpdate, SendAckToPgpe, Running
    <2>3. type4' \in {"ok", "nack"} \/ type4' \in Acks
      <3>1. CASE AckUpdate
        BY <3>1 DEF AckUpdate, UpdateAck
      <3>2. CASE SendAckToPgpe
        BY <3>2, <1>0, CurrentStep, Arguments DEF SendAckToPgpe, Running
      <3> QED BY <1>4, <3>1, <3>2
    <2>4. DoorbellType'
      BY <2>1, <2>3 DEF TypeInv, DoorbellType, Acks
    <2>5. TodoType'
      BY <1>0, <2>1, <2>2, ContinueTyped
    <2>6. UNCHANGED <<eisr, db3>>
      BY <2>1 DEF irqVars
    <2> QED BY <2>1, <2>4, <2>5, <2>6, TypesKept DEF TypeInv
  <1>5. CASE Db0StopFlags
    <2>1. /\ At("qm", "Db0Stop") /\ Continue("qm")
          /\ flags' = [flags EXCEPT !["qm"] = @ \ {"ENABLED"}]
          /\ masked' = [masked EXCEPT !["qm"] = @ \union {"HB", "PMCR"}]
          /\ UNCHANGED <<busy, eisr, ticks, record, pmsr, vdmDroop, skipLock,
                         analogError, frequency>>
          /\ UNCHANGED doorbellVars /\ UNCHANGED sysVars
      BY <1>5 DEF Db0StopFlags, Running
    <2>2. IrqType' /\ CmeType'
      BY <2>1 DEF TypeInv, IrqType, CmeType
    <2>3. TodoType'
      BY <1>0, <2>1, ContinueTyped
    <2>4. UNCHANGED <<eisr, db3>>
      BY <2>1 DEF doorbellVars
    <2> QED BY <2>1, <2>2, <2>3, <2>4, TypesKept DEF TypeInv
  <1>6. CASE AwaitDb0
    <2>1. /\ At("qm", "AwaitDb0") /\ Continue("qm") /\ eisr' = Clearing("qm", {"DB0"}, eisr)
          /\ UNCHANGED <<busy, masked, ticks>> /\ UNCHANGED doorbellVars
          /\ UNCHANGED cmeVars /\ UNCHANGED sysVars
      BY <1>6 DEF AwaitDb0, Running
    <2>2. IrqType' /\ Db3Written'
      BY <2>1, EisrTyped DEF doorbellVars
    <2>3. TodoType'
      BY <1>0, <2>1, ContinueTyped
    <2> QED BY <2>1, <2>2, <2>3, TypesKept DEF TypeInv
  <1>7. CASE Registered
    <2>1. /\ At("qm", "Registered") /\ Continue("qm")
          /\ flags' = [flags EXCEPT !["qm"] = @ \ {"REGISTERING"}]
          /\ UNCHANGED <<record, pmsr, vdmDroop, skipLock, analogError, frequency>>
          /\ UNCHANGED irqVars /\ UNCHANGED doorbellVars /\ UNCHANGED sysVars
      BY <1>7 DEF Registered, Running
    <2>2. CmeType'
      BY <2>1 DEF TypeInv, CmeType
    <2>3. TodoType'
      BY <1>0, <2>1, ContinueTyped
    <2>4. UNCHANGED <<eisr, db3>>
      BY <2>1 DEF irqVars, doorbellVars
    <2> QED BY <2>1, <2>2, <2>3, <2>4, TypesKept DEF TypeInv
  <1>8. CASE FinishDb0
    <2>1. /\ At("qm", "EndDb0") /\ Continue("qm")
          /\ masked' = [masked EXCEPT !["qm"] = @ \ {"HB"}]
          /\ UNCHANGED <<busy, eisr, ticks>> /\ UNCHANGED doorbellVars
          /\ UNCHANGED cmeVars /\ UNCHANGED sysVars
      BY <1>8 DEF FinishDb0, Running
    <2>2. IrqType'
      BY <2>1 DEF TypeInv, IrqType
    <2>3. TodoType'
      BY <1>0, <2>1, ContinueTyped
    <2>4. UNCHANGED <<eisr, db3>>
      BY <2>1 DEF doorbellVars
    <2> QED BY <2>1, <2>2, <2>3, <2>4, TypesKept DEF TypeInv
  <1> QED BY <1>1, <1>2, <1>3, <1>4, <1>5, <1>6, <1>7, <1>8

LEMMA TypesReadDb0 ==
    ASSUME TypeInv, ReadDb0 \/ RegisterDb0 \/ NotifySibling
    PROVE  TypeInv'
  <1> USE CmesAre
  <1>0. TodoType /\ "qm" \in Processes
    BY DEF TypeInv
  <1>1. /\ UNCHANGED irqVars /\ UNCHANGED doorbellVars /\ UNCHANGED cmeVars
        /\ UNCHANGED sysVars /\ UNCHANGED <<eisr, db3>>
    BY DEF ReadDb0, RegisterDb0, NotifySibling, irqVars, doorbellVars
  <1>2. todo["qm"] # <<>>
    BY DEF ReadDb0, RegisterDb0, NotifySibling, Running, At
  <1>3. PICK d \in Db0Messages : d = db0["qm"]
    BY DEF TypeInv, DoorbellType
  <1>4. \A a \in Acks : SendAck(a) \in Seq(Steps)
    BY PlainSteps
  <1>5. <<>> \in Seq(Steps)
    OBVIOUS
  <1>6. CASE ReadDb0
    <2>1. PICK handler : /\ Then("qm", handler)
                         /\ \/ handler = <<>> \/ handler = Db0Start(d)
                            \/ handler = Db0GlbBcast(d) \/ handler = Db0Stop
                            \/ handler = Db0ClipBcast(d)
                            \/ d.msg = "PMSR" /\ handler = Db0PmsrUpdt(d)
                            \/ handler = SendAck("ok") \/ handler = SendAck("error")
      BY <1>3, <1>6 DEF ReadDb0
    <2>2. handler \in Seq(Steps)
      BY <1>4, <1>5, <2>1, Db0Scripts DEF Acks
    <2>3. TodoType'
      BY <1>0, <1>2, <2>1, <2>2, ThenTyped
    <2> QED BY <1>1, <2>3, TypesKept DEF TypeInv
  <1>7. CASE RegisterDb0
    <2>1. At("qm", "RegisterDb0")
      BY <1>7 DEF RegisterDb0, Running
    <2>2. PICK n \in 1 .. 3 : n = Argument("qm")
      BY <1>0, <2>1, CurrentStep, Arguments DEF RegisterKinds
    <2>3. /\ Registration(n) \in Seq(Steps) /\ Registration(n - 1) \in Seq(Steps)
          /\ Registration(0) \in Seq(Steps)
      BY <2>2, RegistrationScript
    <2>4. PICK handler : /\ Then("qm", handler)
                         /\ \/ handler = Db0Start(d) \o Registration(n - 1)
                            \/ handler = Db0ClipBcast(d) \o Registration(n - 1)
                            \/ handler = SendAck("ok") \o Registration(0)
                            \/ handler = Registration(n)
      BY <1>3, <1>7, <2>2 DEF RegisterDb0
    <2>5. handler \in Seq(Steps)
      BY <1>4, <2>3, <2>4, Db0Scripts, Joined, ZenonT(60) DEF Acks
    <2>6. TodoType'
      BY <1>0, <1>2, <2>4, <2>5, ThenTyped
    <2> QED BY <1>1, <2>6, TypesKept DEF TypeInv
  <1>8. CASE NotifySibling
    <2>1. PICK i \in Signals : Then("qm", Notify(i))
      BY <1>8 DEF NotifySibling, Signals
    <2>2. Notify(i) \in Seq(Steps)
      BY PlainSteps
    <2>3. TodoType'
      BY <1>0, <1>2, <2>1, <2>2, ThenTyped
    <2> QED BY <1>1, <2>3, TypesKept DEF TypeInv
  <1> QED BY <1>6, <1>7, <1>8
LEMMA TypesTakeDb3 ==
    ASSUME TypeInv, NEW c \in Cmes, TakeDb3(c)
    PROVE  TypeInv'
  <1> USE CmesAre
  <1>0. TodoType /\ c \in Processes
    BY DEF TypeInv
  <1>1. /\ eisr' = Clearing(c, {"DB3"}, eisr)
        /\ todo' = [todo EXCEPT ![c] = Db3Steps(c, db3[c])]
        /\ UNCHANGED <<busy, masked, ticks, record, pmsr, frequency>>
        /\ UNCHANGED doorbellVars /\ UNCHANGED sysVars
    BY DEF TakeDb3
  <1>2. "DB3" \in eisr[c]
    <2>1. Taken(c) = "DB3"
      BY DEF TakeDb3, Takes
    <2>2. CASE "DB3" \notin eisr[c]
      <3>1. \/ Pending(c) = <<>> \/ Head(Pending(c)) # "DB3"
        <4>1. PICK a, b, x, y :
                 /\ a = (IF "HB" \in eisr[c] \ masked[c] THEN <<"HB">> ELSE <<>>)
                 /\ b = (IF c = "qm" /\ "DB0" \in eisr[c] /\ c \notin busy
                         THEN <<"DB0">> ELSE <<>>)
                 /\ x = (IF c = "sib" /\ "IN0" \in eisr[c] /\ c \notin busy
                         THEN <<"IN0">> ELSE <<>>)
                 /\ y = (IF c = "sib" /\ "RECVD" \in eisr[c] /\ c \notin busy
                         THEN <<"RECVD">> ELSE <<>>)
          OBVIOUS
        <4>2. Pending(c) = <<>> \o a \o b \o x \o y
          BY <2>2, <4>1 DEF Pending
        <4>3. /\ a \in {<<"HB">>, <<>>} /\ b \in {<<"DB0">>, <<>>}
              /\ x \in {<<"IN0">>, <<>>} /\ y \in {<<"RECVD">>, <<>>}
          BY <4>1
        <4> HIDE <4>1
        <4>4. PICK s : s = <<>> \o a \o b \o x \o y
          OBVIOUS
        <4>5. s = <<>> \/ Head(s) # "DB3"
          BY <4>3, <4>4
        <4> QED BY <4>2, <4>4, <4>5
      <3> QED BY <2>1, <3>1 DEF Taken
    <2> QED BY <2>2
  <1>3. PICK m \in Db3Messages : m = db3[c]
    BY <1>2 DEF TypeInv, Db3Written
  <1>4. Db3Steps(c, m) \in Seq(Steps)
    BY Db3Script DEF TypeInv, DoorbellType
  <1>5. TodoType'
    BY <1>0, <1>1, <1>3, <1>4 DEF TodoType
  <1>6. IrqType' /\ Db3Written'
    BY <1>1, EisrTyped DEF doorbellVars
  <1>7. CmeType'
    <2>1. \/ skipLock' = skipLock \union {c} /\ analogError' = (analogError /\ c # "qm")
          \/ UNCHANGED <<skipLock, analogError>>
      BY DEF TakeDb3
    <2>2. /\ \/ vdmDroop' = (vdmDroop \ {c}) \union {c}
             \/ vdmDroop' = (vdmDroop \ {c}) \union {}
             \/ UNCHANGED vdmDroop
          /\ \/ UNCHANGED flags
             \/ flags' = [flags EXCEPT ![c] = @ \union {"DROOP"}]
             \/ flags' = [flags EXCEPT ![c] = @ \ {"DROOP"}]
             \/ flags' = [flags EXCEPT ![c] = @ \union {"NO_HANDOFF"}]
             \/ flags' = [flags EXCEPT ![c] = @ \union {}]
      <3>1. CASE m \in {"SUSPEND", "UNSUSPEND"}
        BY <1>3, <3>1 DEF TakeDb3, DroopFlag
      <3>2. CASE m \notin {"SUSPEND", "UNSUSPEND"}
        BY <1>3, <3>2 DEF TakeDb3
      <3> QED BY <3>1, <3>2
    <2>3. flags' \in [Cmes -> SUBSET Flags]
      BY <2>2 DEF TypeInv, CmeType, Flags
    <2>4. vdmDroop' \subseteq Cmes /\ skipLock' \subseteq Cmes /\ analogError' \in BOOLEAN
      BY <2>1, <2>2 DEF TypeInv, CmeType
    <2> QED BY <1>1, <2>3, <2>4 DEF TypeInv, CmeType
  <1> QED BY <1>1, <1>5, <1>6, <1>7, TypesKept DEF TypeInv

LEMMA TypesInterrupts ==
    ASSUME TypeInv, NEW c \in Cmes,
           TakeHeartbeatLoss(c) \/ TakeDb0 \/ TakeIn0 \/ TakeMsg
    PROVE  TypeInv'
  <1> USE CmesAre
  <1>0. TodoType
    BY DEF TypeInv
  <1>1. CASE TakeHeartbeatLoss(c)
    <2>1. /\ eisr' = Clearing(c, {"HB"}, eisr)
          /\ UNCHANGED <<busy, masked, ticks>> /\ UNCHANGED doorbellVars
          /\ UNCHANGED cmeVars /\ UNCHANGED sysVars
      BY <1>1 DEF TakeHeartbeatLoss
    <2>2. IrqType' /\ Db3Written'
      BY <2>1, EisrTyped DEF doorbellVars
    <2>3. /\ Notify("IN2") \o Step("ToFsafe") \o Notify("IN2") \in Seq(Steps)
          /\ Serve("IN2") \o Step("ToFsafe") \o Serve("IN2") \in Seq(Steps)
      BY PlainSteps, Joined DEF Signals, PlainKinds
    <2>4. TodoType'
      <3>1. CASE c = "qm"
        BY <1>1, <3>1, <1>0, <2>3 DEF TakeHeartbeatLoss, TodoType
      <3>2. CASE c # "qm"
        BY <1>1, <3>2, <1>0, <2>3 DEF TakeHeartbeatLoss, TodoType
      <3> QED BY <3>1, <3>2
    <2> QED BY <2>1, <2>2, <2>4, TypesKept DEF TypeInv
  <1>2. CASE TakeDb0
    <2>1. /\ masked' = [masked EXCEPT !["qm"] = @ \union {"HB"}]
          /\ todo' = [todo EXCEPT !["qm"] = ProcessDb0 \o Step("EndDb0")]
          /\ UNCHANGED <<busy, eisr, ticks>> /\ UNCHANGED doorbellVars
          /\ UNCHANGED cmeVars /\ UNCHANGED sysVars
      BY <1>2 DEF TakeDb0
    <2>2. IrqType'
      BY <2>1 DEF TypeInv, IrqType
    <2>3. ProcessDb0 \o Step("EndDb0") \in Seq(Steps)
      BY LockScripts, PlainSteps, Joined DEF PlainKinds
    <2>4. TodoType'
      BY <1>0, <2>1, <2>3 DEF TodoType
    <2>5. UNCHANGED <<eisr, db3>>
      BY <2>1 DEF doorbellVars
    <2> QED BY <2>1, <2>2, <2>4, <2>5, TypesKept DEF TypeInv
  <1>3. CASE TakeIn0 \/ TakeMsg
    <2>1. /\ \/ ticks' = [ticks EXCEPT !["IN0"] = 0]
             \/ ticks' = [ticks EXCEPT !["RECVD"] = 0]
          /\ \/ todo' = [todo EXCEPT !["sib"] = ProcessDb0Sibling]
             \/ todo' = [todo EXCEPT !["sib"] = SiblingLock]
          /\ UNCHANGED <<busy, eisr, masked>> /\ UNCHANGED doorbellVars
          /\ UNCHANGED cmeVars /\ UNCHANGED sysVars
      BY <1>3 DEF TakeIn0, TakeMsg
    <2>2. IrqType'
      BY <2>1 DEF TypeInv, IrqType, DB0_FIT_TICK_THRESHOLD
    <2>3. TodoType'
      BY <1>0, <2>1, LockScripts DEF TodoType
    <2>4. UNCHANGED <<eisr, db3>>
      BY <2>1 DEF doorbellVars
    <2> QED BY <2>1, <2>2, <2>3, <2>4, TypesKept DEF TypeInv
  <1> QED BY <1>1, <1>2, <1>3

LEMMA TypesStop ==
    ASSUME TypeInv, NEW c \in Cmes, FitTick(c) \/ BeginStop(c) \/ EndStop(c)
    PROVE  TypeInv'
  <1>1. UNCHANGED <<todo, eisr, masked>> /\ UNCHANGED doorbellVars /\ UNCHANGED sysVars
    BY DEF FitTick, BeginStop, EndStop
  <1>2. TodoType' /\ UNCHANGED <<eisr, db3>>
    BY <1>1 DEF TypeInv, TodoType, doorbellVars
  <1>3. IrqType'
    <2>1. CASE FitTick(c)
      <3>1. PICK waiting : /\ waiting \subseteq {i \in Counted(c) : ~Starved(i)}
                           /\ ticks' = [i \in DOMAIN ticks |->
                                 IF i \in waiting THEN ticks[i] + 1 ELSE ticks[i]]
        BY <2>1 DEF FitTick
      <3>2. ticks' \in [{"DB0", "RECVD", "IN0"} -> 0 .. DB0_FIT_TICK_THRESHOLD + 1]
        BY <3>1 DEF TypeInv, IrqType, Starved, DB0_FIT_TICK_THRESHOLD
      <3>3. UNCHANGED busy
        BY <2>1 DEF FitTick
      <3> QED BY <1>1, <3>2, <3>3 DEF TypeInv, IrqType
    <2>2. CASE BeginStop(c) \/ EndStop(c)
      BY <2>2, <1>1 DEF BeginStop, EndStop, TypeInv, IrqType
    <2> QED BY <2>1, <2>2
  <1>4. CmeType'
    <2>1. /\ UNCHANGED <<record, pmsr, vdmDroop, skipLock, analogError, frequency>>
          /\ \/ UNCHANGED flags
             \/ flags' = [flags EXCEPT ![c] = @ \union {"DROOP"}]
             \/ flags' = [flags EXCEPT ![c] = @ \ {"DROOP"}]
      <3>1. CASE FitTick(c) \/ BeginStop(c)
        BY <3>1 DEF FitTick, BeginStop, cmeVars
      <3>2. CASE EndStop(c)
        BY <3>2 DEF EndStop, DroopFlag
      <3> QED BY <3>1, <3>2
    <2> QED BY <2>1 DEF TypeInv, CmeType, Flags
  <1> QED BY <1>1, <1>2, <1>3, <1>4, TypesKept DEF TypeInv
LEMMA TypesOperate ==
    ASSUME TypeInv, NEW op \in AllOperations, Operate(op)
    PROVE  TypeInv'
  <1> USE CmesAre
  <1>0. TodoType
    BY DEF TypeInv
  <1>1. /\ UNCHANGED irqVars /\ UNCHANGED doorbellVars /\ UNCHANGED cmeVars
        /\ UNCHANGED <<mode, registered, alive, droops, panic>>
    BY DEF Operate
  <1>2. PICK field \in Fields(op), target \in Targets :
            /\ wanted' = target
            /\ todo' = [todo EXCEPT !["pgpe"] = Protocol(op, field, target)]
    BY DEF Operate
  <1>3. TodoType'
    BY <1>0, <1>2, ProtocolScript DEF TodoType
  <1>4. PgpeType'
    BY <1>1, <1>2 DEF TypeInv, PgpeType
  <1>5. UNCHANGED <<eisr, db3>>
    BY <1>1 DEF irqVars, doorbellVars
  <1> QED BY <1>1, <1>3, <1>4, <1>5, TypesKept DEF TypeInv

LEMMA TypesElsewhere ==
    ASSUME TypeInv, NEW op, OperateElsewhere(op)
    PROVE  TypeInv'
  <1> USE CmesAre
  <1>0. TodoType
    BY DEF TypeInv
  <1>1. /\ UNCHANGED irqVars /\ UNCHANGED doorbellVars /\ UNCHANGED cmeVars
        /\ UNCHANGED <<registered, wanted, alive, droops, panic>>
        /\ mode' \in {mode, "stopped"}
    BY DEF OperateElsewhere
  <1>2. PICK d : d = Message("GLB", "quadPstate", wanted.quadPstate)
    OBVIOUS
  <1>3. d \in Db0Messages
    BY <1>2 DEF TypeInv, PgpeType, Targets, Values, Message, Db0Messages
  <1>4. Multicast(d) \in Seq(Steps) /\ <<>> \in Seq(Steps)
    BY <1>3, PgpeSteps
  <1>5. \/ todo' = [todo EXCEPT !["pgpe"] = Multicast(d)]
        \/ todo' = [todo EXCEPT !["pgpe"] = <<>>]
    BY <1>2 DEF OperateElsewhere
  <1>6. TodoType'
    BY <1>0, <1>4, <1>5 DEF TodoType
  <1>7. PgpeType'
    BY <1>1 DEF TypeInv, PgpeType
  <1>8. UNCHANGED <<eisr, db3>>
    BY <1>1 DEF irqVars, doorbellVars
  <1> QED BY <1>1, <1>6, <1>7, <1>8, TypesKept DEF TypeInv

LEMMA TypesRegistration ==
    ASSUME TypeInv, ProcessRegistration
    PROVE  TypeInv'
  <1> USE CmesAre
  <1>0. TodoType
    BY DEF TypeInv
  <1>1. /\ UNCHANGED irqVars /\ UNCHANGED <<db0, db3, icrr>> /\ UNCHANGED cmeVars
        /\ UNCHANGED <<mode, wanted, alive, droops>>
    BY DEF ProcessRegistration
  <1>2. UNCHANGED <<eisr, db3>>
    BY <1>1 DEF irqVars
  <1>3. CASE Panics("pgpe") /\ UNCHANGED <<type4, registered>>
    <2>1. TodoType' /\ PgpeType'
      BY <1>1, <1>3 DEF TypeInv, TodoType, PgpeType, Panics
    <2>2. UNCHANGED <<db0, db3, icrr, type4>>
      BY <1>1, <1>3
    <2> QED BY <1>1, <1>2, <2>1, <2>2, TypesKept DEF TypeInv
  <1>4. CASE /\ type4' = "none" /\ registered' = TRUE
             /\ todo' = [todo EXCEPT !["pgpe"] =
                            IF mode = "active" THEN StartPstates(wanted)
                            ELSE Doorbell0(Message("REGISTER_DONE", "none", 0))]
             /\ UNCHANGED panic
    <2>1. Message("REGISTER_DONE", "none", 0) \in Db0Messages
      BY DEF Message, Db0Messages, Values
    <2>2. StartPstates(wanted) \in Seq(Steps)
      BY StartScript DEF TypeInv, PgpeType
    <2>3. Doorbell0(Message("REGISTER_DONE", "none", 0)) \in Seq(Steps)
      BY <2>1, Doorbells
    <2>4. TodoType'
      BY <1>0, <1>4, <2>2, <2>3 DEF TodoType
    <2>5. PgpeType' /\ DoorbellType'
      BY <1>1, <1>4 DEF TypeInv, PgpeType, DoorbellType
    <2> QED BY <1>1, <1>2, <2>4, <2>5, TypesKept DEF TypeInv
  <1> QED BY <1>3, <1>4 DEF ProcessRegistration

LEMMA TypesPgpe ==
    ASSUME TypeInv, WriteDb0 \/ WriteDb3 \/ AwaitAck \/ PollDroop \/ Become
    PROVE  TypeInv'
  <1> USE CmesAre
  <1>0. TodoType
    BY DEF TypeInv
  <1>1. CASE WriteDb0
    <2>1. At("pgpe", "Write0") /\ Continue("pgpe")
      BY <1>1 DEF WriteDb0, PgpeAt, Running
    <2>2. Argument("pgpe") \in (SUBSET Cmes) \X Db0Messages
      BY <1>0, <2>1, CurrentStep, Arguments
    <2>3. PICK targets \in SUBSET Cmes, d \in Db0Messages :
             /\ db0' = [c \in Cmes |-> IF c \in targets THEN d ELSE db0[c]]
             /\ eisr' = [c \in Cmes |-> eisr[c] \union
                            IF c \in targets /\ d.msg # "PAYLOAD" THEN {"DB0"} ELSE {}]
      BY <1>1, <2>2 DEF WriteDb0
    <2>4. /\ UNCHANGED <<busy, masked, ticks, db3, icrr, type4>>
          /\ UNCHANGED cmeVars /\ UNCHANGED sysVars
      BY <1>1 DEF WriteDb0
    <2>5. eisr' \in [Cmes -> SUBSET Bits]
          /\ \A c \in Cmes : "DB3" \in eisr'[c] => "DB3" \in eisr[c]
      BY <2>3 DEF TypeInv, IrqType, Bits
    <2>6. IrqType' /\ Db3Written'
      BY <2>4, <2>5 DEF TypeInv, IrqType, Db3Written
    <2>7. DoorbellType'
      BY <2>3, <2>4 DEF TypeInv, DoorbellType
    <2>8. TodoType'
      BY <1>0, <2>1, ContinueTyped
    <2> QED BY <2>4, <2>6, <2>7, <2>8, TypesKept DEF TypeInv
  <1>2. CASE WriteDb3
    <2>1. At("pgpe", "Write3") /\ Continue("pgpe")
      BY <1>2 DEF WriteDb3, PgpeAt, Running
    <2>2. Argument("pgpe") \in Cmes \X Db3Messages
      BY <1>0, <2>1, CurrentStep, Arguments
    <2>3. PICK c \in Cmes, m \in Db3Messages :
             db3' = [db3 EXCEPT ![c] = m] /\ eisr' = Raising(c, "DB3", eisr)
      BY <1>2, <2>2 DEF WriteDb3
    <2>4. /\ UNCHANGED <<busy, masked, ticks, db0, icrr, type4>>
          /\ UNCHANGED cmeVars /\ UNCHANGED sysVars
      BY <1>2 DEF WriteDb3
    <2>5. IrqType' /\ Db3Written' /\ DoorbellType'
      BY <2>3, <2>4 DEF TypeInv, IrqType, Db3Written, DoorbellType, Raising, Bits
    <2>6. TodoType'
      BY <1>0, <2>1, ContinueTyped
    <2> QED BY <2>4, <2>5, <2>6, TypesKept DEF TypeInv
  <1>3. CASE AwaitAck
    <2>1. At("pgpe", "AwaitAck") /\ todo["pgpe"] # <<>>
      BY <1>3 DEF AwaitAck, PgpeAt, Running, At
    <2>2. PICK a \in Awaited : a = Argument("pgpe")
      BY <1>0, <2>1, CurrentStep, Arguments
    <2>3. /\ type4' = "none" /\ UNCHANGED <<db0, db3, icrr, droops>>
          /\ UNCHANGED irqVars /\ UNCHANGED cmeVars /\ UNCHANGED pgpeVars
      BY <1>3 DEF AwaitAck
    <2>4. DoorbellType' /\ UNCHANGED <<eisr, db3>>
      BY <2>3 DEF TypeInv, DoorbellType, irqVars
    <2>5. CASE Panics("pgpe")
      BY <2>3, <2>5, <2>4, TypesKept DEF TypeInv, TodoType, PgpeType, Panics, pgpeVars
    <2>6. CASE ~Panics("pgpe")
      <3> DEFINE again == (IF a.nacked THEN <<>> ELSE Throttle) \o Write3(a.replay)
                              \o Await(a.expected, a.replay, TRUE)
      <3>1. /\ a.expected \in Acks
            /\ a.replay # "none" => a.replay \in Db3Messages
        BY DEF Awaited
      <3>2. <<>> \in Seq(Steps) /\ Throttle \in Seq(Steps) /\ Unthrottle \in Seq(Steps)
        BY Doorbells
      <3>3. ASSUME a.replay # "none" PROVE again \in Seq(Steps)
        <4>1. Write3(a.replay) \in Seq(Steps)
          BY <3>1, <3>3, PgpeSteps
        <4>2. Await(a.expected, a.replay, TRUE) \in Seq(Steps)
          BY <3>1, PgpeSteps
        <4>3. (IF a.nacked THEN <<>> ELSE Throttle) \in Seq(Steps)
          BY <3>2
        <4> QED BY <4>1, <4>2, <4>3, Joined
      <3> HIDE DEF again
      <3>4. /\ \/ Then("pgpe", IF a.nacked THEN Unthrottle ELSE <<>>)
               \/ Then("pgpe", IF a.replay = "none" THEN <<>> ELSE again)
            /\ UNCHANGED panic
        BY <1>3, <2>2, <2>6 DEF AwaitAck, again
      <3>5. PICK more \in Seq(Steps) : Then("pgpe", more)
        <4>1. CASE Then("pgpe", IF a.nacked THEN Unthrottle ELSE <<>>)
          BY <3>2, <4>1
        <4>2. CASE Then("pgpe", IF a.replay = "none" THEN <<>> ELSE again)
          BY <3>2, <3>3, <4>2
        <4> QED BY <3>4, <4>1, <4>2
      <3>6. TodoType'
        BY <1>0, <2>1, <3>5, ThenTyped
      <3>7. PgpeType'
        BY <2>3, <3>4 DEF TypeInv, PgpeType, pgpeVars
      <3> QED BY <2>3, <2>4, <3>6, <3>7, TypesKept DEF TypeInv
    <2> QED BY <2>5, <2>6
  <1>4. CASE PollDroop
    <2>1. At("pgpe", "PollDroop") /\ Continue("pgpe")
      BY <1>4 DEF PollDroop, PgpeAt, Running
    <2>2. TodoType'
      BY <1>0, <2>1, ContinueTyped
    <2>3. /\ UNCHANGED irqVars /\ UNCHANGED doorbellVars /\ UNCHANGED cmeVars
          /\ UNCHANGED sysVars /\ UNCHANGED <<eisr, db3>>
      BY <1>4 DEF PollDroop, irqVars, doorbellVars
    <2> QED BY <2>2, <2>3, TypesKept DEF TypeInv
  <1>5. CASE Become
    <2>1. At("pgpe", "Become") /\ Continue("pgpe") /\ mode' = Argument("pgpe")
      BY <1>5 DEF Become, PgpeAt, Running
    <2>2. mode' \in {"stopped", "active", "safe"}
      BY <1>0, <2>1, CurrentStep, Arguments
    <2>3. TodoType'
      BY <1>0, <2>1, ContinueTyped
    <2>4. /\ UNCHANGED irqVars /\ UNCHANGED doorbellVars /\ UNCHANGED cmeVars
          /\ UNCHANGED <<eisr, db3>>
      BY <1>5 DEF Become, irqVars, doorbellVars
    <2>5. PgpeType'
      BY <1>5, <2>2 DEF Become, TypeInv, PgpeType
    <2> QED BY <2>3, <2>4, <2>5, TypesKept DEF TypeInv
  <1> QED BY <1>1, <1>2, <1>3, <1>4, <1>5

LEMMA TypesDeath ==
    ASSUME TypeInv, NEW when, PgpeDies(when)
    PROVE  TypeInv'
  <1>1. /\ alive' = FALSE /\ eisr' = [c \in Cmes |-> eisr[c] \union {"HB"}]
        /\ UNCHANGED <<todo, busy, masked, ticks, mode, registered, wanted, droops,
                       panic>>
        /\ UNCHANGED doorbellVars /\ UNCHANGED cmeVars
    BY DEF PgpeDies
  <1>2. TodoType' /\ PgpeType' /\ IrqType' /\ Db3Written'
    BY <1>1 DEF TypeInv, TodoType, PgpeType, IrqType, Db3Written, Bits, doorbellVars
  <1> QED BY <1>1, <1>2, TypesKept DEF TypeInv

LEMMA TypesInit == Init => TypeInv
  <1> SUFFICES ASSUME Init PROVE TypeInv
    OBVIOUS
  <1>1. TodoType
    <2>1. todo = [pgpe |-> <<>>, qm |-> BootQuadManager, sib |-> BootSibling]
      BY DEF Init
    <2>2. <<>> \in Seq(Steps)
      OBVIOUS
    <2>3. /\ todo.pgpe \in Seq(Steps) /\ todo.qm \in Seq(Steps)
          /\ todo.sib \in Seq(Steps)
      BY <2>1, <2>2, BootScripts
    <2>4. /\ DOMAIN todo = {"pgpe", "qm", "sib"}
          /\ todo = [p \in DOMAIN todo |-> todo[p]]
      BY <2>1
    <2>5. \A p \in Processes : todo[p] \in Seq(Steps)
      BY <2>3 DEF Processes
    <2>6. todo = [p \in Processes |-> todo[p]]
      BY <2>4 DEF Processes
    <2> QED BY <2>5, <2>6 DEF TodoType
  <1>2. IrqType
    BY DEF Init, IrqType, Cmes, DB0_FIT_TICK_THRESHOLD
  <1>3. DoorbellType
    BY DEF Init, DoorbellType, NoMessage, Message, Db0Messages, Values
  <1>4. record \in [Cmes -> Records] /\ flags \in [Cmes -> SUBSET Flags]
    BY DEF Init, Records, Values, Flags
  <1>5. pmsr \in [Cmes -> PmsrValues]
    <2>1. \A c \in Cmes : PmsrOf(record[c], flags[c]) \in PmsrValues
      <3> SUFFICES ASSUME NEW c \in Cmes PROVE PmsrOf(record[c], flags[c]) \in PmsrValues
        OBVIOUS
      <3>1. PICK r \in Records : r = record[c]
        BY <1>4
      <3>2. PmsrOf(r, flags[c]) \in PmsrValues
        BY DEF PmsrOf, PmsrValues, Records
      <3> QED BY <3>1, <3>2
    <2> QED BY <2>1 DEF Init
  <1>6. CmeType
    BY <1>4, <1>5 DEF Init, CmeType, Values
  <1>7. PgpeType
    <2>1. MaxDroops \in 0 .. MaxDroops
      BY CmeAssumption
    <2> QED BY <2>1 DEF Init, PgpeType
  <1>8. Db3Written
    BY DEF Init, Db3Written
  <1> QED BY <1>1, <1>2, <1>3, <1>6, <1>7, <1>8 DEF TypeInv

LEMMA TypesNext == TypeInv /\ [Next]_vars => TypeInv'
  <1> SUFFICES ASSUME TypeInv, [Next]_vars PROVE TypeInv'
    OBVIOUS
  <1>1. CASE UNCHANGED vars
    <2>1. /\ UNCHANGED irqVars /\ UNCHANGED doorbellVars /\ UNCHANGED cmeVars
          /\ UNCHANGED sysVars /\ UNCHANGED <<eisr, db3>> /\ UNCHANGED todo
      BY <1>1 DEF vars, irqVars, doorbellVars
    <2>2. TodoType'
      BY <2>1 DEF TypeInv, TodoType
    <2> QED BY <2>1, <2>2, TypesKept DEF TypeInv
  <1>2. ASSUME NEW c \in Cmes,
               Handle(c) \/ FitTick(c) \/ BeginStop(c) \/ EndStop(c)
        PROVE  TypeInv'
    BY <1>2, TypesSignals, TypesSteps, TypesRegister, TypesStop DEF Handle
  <1>3. CASE Manage
    BY <1>3, TypesMessages, TypesQuadManager, TypesReadDb0 DEF Manage
  <1>4. CASE Follow
    BY <1>4, TypesMessages, TypesSibling DEF Follow
  <1>5. CASE Interrupts
    BY <1>5, TypesTakeDb3, TypesInterrupts, CmesAre DEF Interrupts
  <1>6. CASE Retry
    BY <1>6, TypesMessages
  <1>7. CASE Pgpe
    BY <1>7, TypesRegistration, TypesPgpe DEF Pgpe
  <1>8. ASSUME NEW op \in Operations, Operate(op) PROVE TypeInv'
    BY <1>8, CmeAssumption, TypesOperate
  <1>9. ASSUME NEW op \in WhileBooting, OperateElsewhere(op) PROVE TypeInv'
    BY <1>9, TypesElsewhere
  <1>10. ASSUME NEW when \in HeartbeatLoss, PgpeDies(when) PROVE TypeInv'
    BY <1>10, TypesDeath
  <1> QED BY <1>1, <1>2, <1>3, <1>4, <1>5, <1>6, <1>7, <1>8, <1>9, <1>10 DEF Next

LEMMA TypesHold == Spec => []TypeInv
  <1> QED BY TypesInit, TypesNext, PTL DEF Spec

(* Whatever the PGPE does with a quad, in whatever order the CMEs take     *)
(* their doorbells, signals and messages, with every window open, every    *)
(* variable keeps its type: no handler runs on a doorbell that was not     *)
(* written (p9_cme_pstate_db3_handler), and the counters of starvation     *)
(* stay where iota_uih looks for them.                                     *)
THEOREM CmeTypeCorrect == Spec => []TypeOK
  <1>1. TypeInv => TypeOK
    BY DEF TypeInv, TypeOK, IrqType, DoorbellType, CmeType, PgpeType, Records,
           PmsrValues, Acks
  <1> QED BY <1>1, TypesHold, PTL

-----------------------------------------------------------------------------
(* What p has still to do, step by step, and as a set.                     *)
End == <<"none", "none">>
Item(s, i) == IF i \in 1 .. Len(s) THEN s[i] ELSE End
StepsOf(s) == {s[i] : i \in 1 .. Len(s)}
Q1 == Item(todo["qm"], 1)
Q2 == Item(todo["qm"], 2)
Q3 == Item(todo["qm"], 3)
S1 == Item(todo["sib"], 1)
S2 == Item(todo["sib"], 2)
S3 == Item(todo["sib"], 3)
G1 == Item(todo["pgpe"], 1)
G2 == Item(todo["pgpe"], 2)
G3 == Item(todo["pgpe"], 3)
RQ == StepsOf(todo["qm"])
RS == StepsOf(todo["sib"])

-----------------------------------------------------------------------------
(* The shape of what the quad manager has still to do: which steps follow  *)
(* x, and which may come anywhere after it.                                *)
AckKinds == {"SendAck", "AckUpdate", "Db0Started", "ReadDb0"}
Openers == {"ClearDb0", "Store", "ToFsafe"}
AnswerKinds == {"AwaitAnswer", "AwaitAnswerOrRetry"}
QmKinds == {"Raise", "AwaitAnswer", "AwaitAnswerOrRetry", "Send", "AwaitMsgAck",
            "Register", "Ready", "ClearDb0", "ReadDb0", "UpdateAnalog", "Pmsr",
            "NotifySibling", "Db0Started", "AckUpdate", "Db0Stop", "SendAck",
            "Store", "Suspended", "AwaitDb0", "RegisterDb0", "Registered",
            "EndDb0", "EndDb3", "ToFsafe"}
Is(x, kind, argument) == x[1] = kind /\ x[2] = argument
In2(x) == x[1] \in {"Raise", "AwaitAnswer"} /\ x[2] = "IN2"
Prelude(x) == x[1] \in {"Raise", "AwaitAnswerOrRetry", "Send", "AwaitMsgAck"}
              /\ x[2] \in {"IN1", "INIT"}
Finale(x) == (x[1] \in {"Send", "AwaitMsgAck"} /\ x[2] = "SYNC") \/ x[1] = "Ready"

QThen(x, y) ==      \* what follows x
    /\ x[1] \in QmKinds
    /\ x[1] = "Raise" => y[1] \in AnswerKinds /\ y[2] = x[2]
    /\ x[1] = "Send" => y[1] = "AwaitMsgAck" /\ y[2] = x[2]
    /\ x[1] \in AnswerKinds /\ x[2] = "IN0" => y[1] \in AckKinds
    /\ x[1] = "AwaitAnswer" /\ x[2] = "IN1" => y[1] \in AckKinds
    /\ x[1] = "AwaitAnswerOrRetry" => x[2] = "IN1" /\ y[1] = "Send" /\ y[2] = "INIT"
    /\ x[1] = "NotifySibling" => y[1] \in AckKinds
    /\ x[1] = "AwaitAnswer" /\ x[2] = "IN2" => y[1] \in Openers \union {"SendAck", "none"}
    /\ x[1] = "Store" => y[1] \in {"Pmsr", "Send"}
    /\ x[1] = "ToFsafe" => y[1] = "Raise" /\ y[2] = "IN2"
    /\ x[1] = "ClearDb0" => y[1] = "ReadDb0"
    /\ x[1] = "ReadDb0" => y[1] \in {"EndDb0", "EndDb3"}
    /\ x[1] \in {"EndDb0", "EndDb3", "Ready"} => y[1] = "none"
    /\ x[1] = "AwaitDb0" => y[1] = "RegisterDb0" /\ y[2] = x[2]
    /\ x[1] \in {"Register", "RegisterDb0", "Registered"} => y[1] = "Send" /\ y[2] = "SYNC"
    /\ x[1] = "AwaitMsgAck" /\ x[2] = "SYNC" => y[1] = "Ready"
    /\ x[1] = "AwaitMsgAck" /\ x[2] = "INIT" => y[1] = "Register"
QWhence(x, y) ==    \* what y follows
    /\ y[1] = "UpdateAnalog" => x[1] = "AwaitMsgAck" /\ x[2] = "LOCK"
    /\ y[1] \in {"ToFsafe", "ClearDb0"} => x[1] = "AwaitAnswer" /\ x[2] = "IN2"
    /\ y[1] = "ReadDb0" => x[1] = "ClearDb0"
    /\ y[1] = "RegisterDb0" => x[1] = "AwaitDb0" /\ x[2] = y[2]
    /\ y[1] = "AwaitMsgAck" => x[1] = "Send" /\ x[2] = y[2]
    /\ y[1] \in AnswerKinds => x[1] = "Raise" /\ x[2] = y[2]
QClip(x, y, z) ==   \* the clip of doorbell 3
    /\ In2(x) /\ x[1] = "AwaitAnswer" /\ y[1] = "Store" => z[1] = "Pmsr"
    /\ x[1] = "Store" /\ y[1] = "Pmsr" => z[1] = "Raise" /\ z[2] = "IN2"
QNext(x, y, z) == QThen(x, y) /\ QWhence(x, y) /\ QClip(x, y, z)

QAfter(x, y) ==     \* y comes, at once or later, after x
    /\ x[1] \in AckKinds => y[1] \notin AckKinds \union {"ClearDb0"} /\ ~In2(y)
    /\ y[1] = "Register" \/ (y[1] = "Send" /\ y[2] = "INIT") => Prelude(x)
    /\ x[1] \in {"Send", "AwaitMsgAck"} => ~Is(y, "Send", x[2])
    /\ x[1] \in {"Register", "RegisterDb0", "Registered"} => Finale(y)
    /\ x[1] = "AwaitDb0" /\ y[1] = "RegisterDb0" => y[2] = x[2]
    /\ x[1] = "AwaitDb0" => y[1] # "AwaitDb0"
    /\ x[1] \in {"Pmsr", "ToFsafe"} => y[1] \notin Openers
    /\ x[1] = "ClearDb0" => ~In2(y)
    /\ y[1] = "EndDb3" => x[1] \notin {"Register", "AwaitDb0", "RegisterDb0"}

(* The same for its sibling.                                               *)
SibKinds == {"PowerOn", "AwaitSignal", "Answer", "ClearBit", "Receive",
             "Register", "Ready", "Spin", "CheckIn0", "SiblingDb0", "Suspended",
             "Store", "Pmsr", "EndDb3", "ToFsafe"}
SNext(x, y) ==
    /\ x[1] \in SibKinds
    /\ x[1] = "Receive" /\ x[2] = "INIT" => y[1] = "Register"
    /\ x[1] = "Receive" /\ x[2] = "LOCK" => y[1] = "Spin"
    /\ x[1] = "Receive" /\ x[2] = "SYNC" => y[1] = "Ready"
    /\ x[1] = "AwaitSignal" => y[1] = "Answer" /\ y[2] = x[2]
    /\ x[1] = "SiblingDb0" => y[1] = "Answer" /\ y[2] = "IN0"
    /\ x[1] = "Suspended" => y[1] = "Answer" /\ y[2] = "IN1"
    /\ y[1] = "Answer" =>
           \/ x[1] = "AwaitSignal" /\ x[2] = y[2]
           \/ x[1] \in {"SiblingDb0", "Suspended"}
    /\ y[1] \notin {"SiblingDb0", "Suspended", "ClearBit", "PowerOn"}
    /\ x[1] \in {"Answer", "ClearBit"} /\ x[2] = "IN2" =>
           y[1] \in {"Spin", "Store", "ToFsafe", "none"}
    /\ x[1] = "Store" => y[1] = "Pmsr"
    /\ x[1] \in {"Pmsr", "ToFsafe"} => y[1] = "AwaitSignal" /\ y[2] = "IN2"
    /\ y[1] = "AwaitSignal" /\ y[2] = "IN2" => x[1] \in {"Pmsr", "ToFsafe"}
    /\ y[1] \in {"Store", "ToFsafe"} => x[1] \in {"Answer", "ClearBit"} /\ x[2] = "IN2"
    /\ y[1] = "Pmsr" => x[1] = "Store"
SAfter(x, y) ==
    /\ x[1] = "Receive" /\ x[2] = "SYNC" => y[1] \notin {"Receive", "Register"}
    /\ x[1] = "Receive" /\ x[2] = "LOCK" => y[1] # "Register"
    /\ x[1] = "Register" =>
           y[1] # "Register" /\ ~(y[1] = "Receive" /\ y[2] \in {"LOCK", "INIT"})
    /\ y[1] = "Receive" /\ y[2] = "INIT" =>
           x[1] = "PowerOn" \/ (x[1] \in {"AwaitSignal", "Answer", "ClearBit"} /\ x[2] = "IN1")
    /\ x[1] \in {"Pmsr", "ToFsafe"} => y[1] \notin {"Spin", "Store", "ToFsafe"}

(* And for the PGPE, r: the quad is registered, l: it boots interlocked.   *)
PgKinds == {"Write0", "Write3", "AwaitAck", "PollDroop", "Become"}
Writes3(x, c, m) == x[1] = "Write3" /\ x[2][1] = c /\ x[2][2] = m
GNext(x, y, z, r, l) ==
    /\ x[1] \in PgKinds
    /\ x[1] = "Write0" => x[2][1] \in {Cmes, {"qm"}, {"sib"}}
    /\ x[1] = "Write0" /\ l => x[2][2].msg # "REGISTER_DONE"
    /\ x[1] = "Write0" /\ "qm" \in x[2][1] /\ x[2][2].msg # "PAYLOAD" =>
           y[1] = "AwaitAck" \/ ~r
    /\ x[1] = "Write0" /\ "qm" \in x[2][1] /\ x[2][2].msg = "PAYLOAD" =>
           y[1] = "Write3" /\ y[2][1] = "qm" /\ y[2][2] # "SUSPEND"
    /\ x[1] = "Write3" => x[2][1] \in Cmes
    /\ x[1] = "Write3" /\ x[2][1] = "qm" /\ x[2][2] # "SUSPEND" =>
           \/ Writes3(y, "sib", x[2][2])
           \/ y[1] = "Write0" /\ y[2][1] = {"sib"} /\ Writes3(z, "sib", x[2][2])
    /\ x[1] = "Write3" /\ x[2][1] = "sib" /\ x[2][2] # "SUSPEND" => y[1] = "AwaitAck"
    /\ y[1] = "Write3" /\ y[2][1] = "sib" =>
           \/ Writes3(x, "qm", y[2][2])
           \/ x[1] = "Write0" /\ x[2][1] = {"sib"}
    /\ y[1] = "Write0" /\ y[2][1] = {"sib"} =>
           x[1] = "Write3" /\ x[2][1] = "qm" /\ x[2][2] # "SUSPEND"

Follows(p, x, y, z, r, l) ==
    CASE p = "qm" -> QNext(x, y, z)
      [] p = "sib" -> SNext(x, y)
      [] p = "pgpe" -> GNext(x, y, z, r, l)
After(p, x, y) ==
    CASE p = "qm" -> QAfter(x, y) [] p = "sib" -> SAfter(x, y) [] p = "pgpe" -> TRUE
Form(p, s, r, l) ==
    /\ \A i \in 1 .. Len(s) : Follows(p, s[i], Item(s, i + 1), Item(s, i + 2), r, l)
    /\ \A i \in 1 .. Len(s) : \A j \in i + 1 .. Len(s) : After(p, s[i], s[j])
QForm(s) == Form("qm", s, TRUE, TRUE)
SForm(s) == Form("sib", s, TRUE, TRUE)
GForm(s, r, l) == Form("pgpe", s, r, l)

-----------------------------------------------------------------------------
(* Signals and messages: a signal is pending on the quad manager only      *)
(* where it awaits it (W1), on the sibling only while the quad manager     *)
(* awaits its answer or the sibling is about to clear it (W2), the same of *)
(* the acknowledgement of a message and of the message (W3, W4); and the   *)
(* sibling answers only what is awaited (W5).                              *)
MTypes == {"INIT", "LOCK", "SYNC"}
Awaits(x) == Q1[1] \in AnswerKinds /\ Q1[2] = x
Unanswered(x) == Awaits(x) /\ x \notin eisr["qm"]
Unacked(m) == Is(Q1, "AwaitMsgAck", m) /\ "ACK" \notin eisr["qm"]
W1 == \A x \in Signals : x \in eisr["qm"] => Awaits(x)
W2 == \A x \in Signals : x \in eisr["sib"] => Unanswered(x) \/ Is(S1, "ClearBit", x)
W3 == "ACK" \in eisr["qm"] => Q1[1] = "AwaitMsgAck"
W4 == "RECVD" \in eisr["sib"] =>
          \/ Unacked(icrr[1]) /\ icrr[1] \in MTypes
          \/ Is(S1, "ClearBit", "RECVD")
W5 == /\ S1[1] = "Answer" => Unanswered(S1[2])
      /\ S1[1] = "SiblingDb0" => Unanswered("IN0")
      /\ S1[1] = "Suspended" => Unanswered("IN1")
Lines == W1 /\ W2 /\ W3 /\ W4 /\ W5

-----------------------------------------------------------------------------
(* Exchanges with the PGPE.  Due: the quad manager owes it an answer,      *)
(* because its script holds one or it has an interrupt that leads to one.  *)
(* Awaiting: the PGPE waits for one that has not come; Half: it has        *)
(* written doorbell 3 of the quad manager but not that of the sibling.     *)
RegMsgs == {"START", "CLIP", "REGISTER_DONE"}
Interlock == "INTERLOCK" \in flags["qm"]
HasReg == <<"Register", "">> \in RQ
RegLeft(n) == <<"RegisterDb0", n>> \in RQ
RegDue == \E n \in 1 .. 3 : RegLeft(n)
AckDue == \E x \in RQ : x[1] \in AckKinds
In2Due == \E x \in RQ : In2(x)
Msg0 == db0["qm"].msg
Db0Due == "DB0" \in eisr["qm"] /\ ~HasReg /\ (RegDue => Msg0 \in RegMsgs)
RegHead == Q1[1] = "RegisterDb0" /\ Msg0 \in RegMsgs
Db3Due == "DB3" \in eisr["qm"] /\ db3["qm"] # "SUSPEND"
Due == AckDue \/ Db0Due \/ RegHead \/ Db3Due
Awaiting == G1[1] = "AwaitAck" /\ type4 = "none"
HalfM(m) ==
    /\ m # "SUSPEND" /\ type4 = "none"
    /\ \/ Writes3(G1, "sib", m)
       \/ G1[1] = "Write0" /\ G1[2][1] = {"sib"} /\ Writes3(G2, "sib", m)
Ms == {"HIGH", "REPLAY", "ENTER_SAFE", "CLIP", "HANDOFF", "UNSUSPEND"}
Half == \E m \in Ms : HalfM(m)
WriteNext == G1[1] = "Write3" /\ G1[2][1] = "qm" /\ G1[2][2] # "SUSPEND"
(* An answer is owed only to a PGPE that waits or is about to (E1), it is  *)
(* the only one (E2, E3, E4), and of the registration it comes first (E2a).*)
E1 == Due => registered /\ (Awaiting \/ Half)
E2 == type4 \notin {"none", "available"} => ~Due /\ G1[1] = "AwaitAck"
E2a == type4 = "available" => ~registered /\ ~HasReg
E3 == "DB0" \in eisr["qm"] /\ AckDue =>
          <<"ClearDb0", "">> \in RQ \/ <<"Db0Started", "">> \in RQ
E4 == Db3Due => ~AckDue /\ ~Db0Due /\ ~RegHead
(* A quad that is not registered hears nothing but a global broadcast.     *)
E5 == ~registered =>
   /\ G1 = End \/ (G1[1] = "Write0" /\ G1[2][1] = Cmes /\ G1[2][2].msg = "GLB" /\ G2 = End)
   /\ (G1 # End \/ "DB0" \in eisr["qm"]) => Interlock
   /\ mode = (IF Interlock THEN "active" ELSE "stopped")
   /\ alive /\ \A c \in Cmes : eisr[c] \intersect {"DB3", "HB"} = {}
   /\ Interlock => HasReg \/ RegDue
   /\ Msg0 \in {"NONE", "GLB"}
   /\ "ENABLED" \notin flags["qm"]
(* What is left of the registration, with the interlock of the SGPE.       *)
E6 == HasReg => ~registered /\ type4 = "none"
E8 == /\ Interlock => Msg0 # "REGISTER_DONE"
      /\ RegDue => Interlock
      /\ Interlock <=> "INTERLOCK" \in flags["sib"]
E9 == alive /\ In2Due => AckDue
E11 == RegDue /\ "ENABLED" \in flags["qm"] /\ Msg0 \notin RegMsgs =>
          ~AckDue /\ (Awaiting \/ Half \/ WriteNext)
E12 == RegDue /\ AckDue => Msg0 \in RegMsgs
E13 == Q1[1] = "RegisterDb0" /\ "ENABLED" \in flags["qm"] /\ Msg0 \in RegMsgs =>
          "DB0" \notin eisr["qm"]
(* A dead PGPE has nothing to do, and only then is the heartbeat lost.     *)
E14 == ~alive => G1 = End
HB1 == /\ "HB" \in eisr["qm"] \/ "HB" \in eisr["sib"] => ~alive
       /\ "HB" \in eisr["qm"] => ~In2Due
Exchange == E1 /\ E2 /\ E2a /\ E3 /\ E4 /\ E5 /\ E6 /\ E8 /\ E9 /\ E11 /\ E12
            /\ E13 /\ E14 /\ HB1

-----------------------------------------------------------------------------
(* The counters of starvation run only for what is pending, and not once   *)
(* it has been taken.                                                      *)
T1 == ticks["DB0"] > 0 =>
          /\ "DB0" \in eisr["qm"] /\ Q1[1] # "ReadDb0"
          /\ <<"Db0Started", "">> \notin RQ /\ ~HasReg /\ ~RegDue
T2 == ticks["RECVD"] > 0 =>
          /\ "RECVD" \in eisr["sib"]
          /\ \A x \in RS : x[1] \notin {"Receive", "Register", "PowerOn"}
          /\ ~Is(S1, "ClearBit", "RECVD")
T3 == ticks["IN0"] > 0 => "IN0" \in eisr["sib"] /\ S1 = End
Ticks == T1 /\ T2 /\ T3

-----------------------------------------------------------------------------
(* Booting: the sibling is stopped as often as the quad manager stops it.  *)
Locks(s) == Cardinality({i \in 1 .. Len(s) : s[i] = <<"Receive", "LOCK">>})
SendDue(m) == <<"Send", m>> \in RQ \/ Unacked(m)
RegistrationsLeft ==
    IF HasReg THEN IF Interlock THEN 3 ELSE 0
    ELSE IF RegLeft(1) THEN 1 ELSE IF RegLeft(2) THEN 2
    ELSE IF RegLeft(3) THEN 3 ELSE 0
LocksDue == RegistrationsLeft + (IF SendDue("LOCK") THEN 1 ELSE 0)
LocksLeft == IF <<"Register", "">> \in RS THEN IF Interlock THEN 3 ELSE 0
             ELSE Locks(todo["sib"])
B1 == SendDue("SYNC") =>
          /\ <<"Receive", "SYNC">> \in RS
          /\ LocksDue = LocksLeft
          /\ <<"Receive", "INIT">> \in RS => SendDue("INIT") /\ <<"Register", "">> \in RS
B2 == ~SendDue("SYNC") =>
          /\ <<"Register", "">> \notin RS
          /\ \A x \in RS : x[1] = "Receive" =>
                 x[2] = "LOCK" /\ S1 = x /\ Unacked("LOCK")
          /\ Locks(todo["sib"]) \in {0, 1}
B3 == RegDue => "REGISTERING" \in flags["qm"] /\ SendDue("SYNC")
B4 == /\ SendDue("INIT") => HasReg
      /\ HasReg => SendDue("SYNC")
B5 == SendDue("INIT") => <<"Receive", "INIT">> \in RS
Boot == B1 /\ B2 /\ B3 /\ B4 /\ B5

-----------------------------------------------------------------------------
(* The two CMEs meet in IN2 for the same reason: a doorbell 3 that locks,  *)
(* that clips, or that ends there ("last"), or the loss of the heartbeat.  *)
(* Open: p is before the meeting in IN2 for the reason k; Pend: it has an  *)
(* interrupt that leads there; ClipMid, HbMid: it is between the two       *)
(* meetings of a clip or of the loss of the heartbeat.                     *)
LockLike == {"HIGH", "REPLAY", "ENTER_SAFE"}
Reason == [HIGH |-> "lock", REPLAY |-> "lock", ENTER_SAFE |-> "lock", CLIP |-> "clip",
           HANDOFF |-> "last", UNSUSPEND |-> "last", SUSPEND |-> "no", NONE |-> "no"]
Ks == {"lock", "clip", "hb", "last"}
QReasonOf(x) == CASE x[1] = "ClearDb0" -> "lock" [] x[1] = "Store" -> "clip"
                  [] x[1] = "ToFsafe" -> "hb" [] OTHER -> "last"
SReasonOf(x) == CASE x[1] = "Spin" -> "lock" [] x[1] = "Store" -> "clip"
                  [] x[1] = "ToFsafe" -> "hb" [] OTHER -> "last"
QOpen(k) == \/ Is(Q1, "Raise", "IN2") /\ QReasonOf(Q3) = k
            \/ Unanswered("IN2") /\ QReasonOf(Q2) = k
SOpen(k) == \/ Is(S1, "AwaitSignal", "IN2") /\ SReasonOf(S3) = k
            \/ Is(S1, "Answer", "IN2") /\ SReasonOf(S2) = k
QPend(k) == IF k = "hb" THEN "HB" \in eisr["qm"]
            ELSE "DB3" \in eisr["qm"] /\ Reason[db3["qm"]] = k
SPend(k) == IF k = "hb" THEN "HB" \in eisr["sib"]
            ELSE "DB3" \in eisr["sib"] /\ Reason[db3["sib"]] = k
Answered2 == Awaits("IN2") /\ "IN2" \in eisr["qm"]
QClipMid == \/ Answered2 /\ Q2[1] = "Store"
            \/ Q1[1] = "Store" /\ Is(Q3, "Raise", "IN2")
            \/ Q1[1] = "Pmsr" /\ Is(Q2, "Raise", "IN2")
QHbMid == (Answered2 /\ Q2[1] = "ToFsafe") \/ Q1[1] = "ToFsafe"
SClipMid == S1[1] \in {"Store", "Pmsr"} \/ (Is(S1, "ClearBit", "IN2") /\ S2[1] = "Store")
SHbMid == S1[1] = "ToFsafe" \/ (Is(S1, "ClearBit", "IN2") /\ S2[1] = "ToFsafe")
(* The sibling is on its way to a meeting only if the quad manager is too, *)
(* before it, or already on its way to the one that follows (C1, C2); ...  *)
C1 == \A k \in Ks : SOpen(k) \/ SPend(k) =>
          QPend(k) \/ QOpen(k) \/ (k = "last" /\ SOpen(k) /\ (QClipMid \/ QHbMid))
C2 == /\ SClipMid => QClipMid \/ QOpen("last")
      /\ SHbMid => QHbMid \/ QOpen("last")
(* ... while doorbell 3 of the sibling is still to be written it is not on *)
(* its way (C3); and it has at most one such interrupt (C4, C5).           *)
C3 == \A m \in Ms : HalfM(m) =>
          /\ ("DB3" \in eisr["qm"] /\ db3["qm"] = m) \/ QOpen(Reason[m])
          /\ ~SClipMid /\ ~SHbMid
          /\ \A k \in Ks : ~SPend(k) /\ ~SOpen(k)
C4 == (\E k \in Ks : SOpen(k)) \/ SClipMid \/ SHbMid => \A j \in Ks : ~SPend(j)
C5 == \A j, k \in Ks : SPend(j) /\ SPend(k) => j = k
Pairing == C1 /\ C2 /\ C3 /\ C4 /\ C5

(* The sibling stands still: it spins, and nothing that ends this is sent. *)
Held == /\ S1[1] = "Spin" \/ (S1[1] = "ClearBit" /\ S2[1] = "Spin")
        /\ "IN0" \notin eisr["sib"] /\ "IN1" \notin eisr["sib"]
(* So it does where the quad manager may move the clock; and between the   *)
(* meetings for the loss of the heartbeat it does so as well, or waits.    *)
L1 == Is(Q1, "AwaitMsgAck", "LOCK") /\ "ACK" \in eisr["qm"] => Held
L2 == Q1[1] = "UpdateAnalog" => Held
L3 == Answered2 /\ Q2[1] = "ClearDb0" => Held
L4 == Q1[1] \in {"ClearDb0", "ReadDb0"} /\ "qm" \in skipLock => Held
L5 == QHbMid => SHbMid \/ (Is(S1, "AwaitSignal", "IN2") /\ "IN2" \notin eisr["sib"])
K1 == "qm" \in skipLock => \E x \in RQ : x[1] = "EndDb3"
Standstill == L1 /\ L2 /\ L3 /\ L4 /\ L5 /\ K1
Forms == QForm(todo["qm"]) /\ SForm(todo["sib"])
         /\ GForm(todo["pgpe"], registered, Interlock)

-----------------------------------------------------------------------------
(* Sequences of steps, from the front.                                     *)

LEMMA NoEnd == End \notin Steps /\ End[1] = "none" /\ End[2] = "none"
  BY DEF End, Steps, PlainKinds, SignalKinds, MsgKinds, RegisterKinds

LEMMA EmptyItems == StepsOf(<<>>) = {} /\ \A i \in Nat : Item(<<>>, i) = End
  BY DEF StepsOf, Item

LEMMA ItemsOf ==
    ASSUME NEW s \in Seq(Steps)
    PROVE  /\ \A i \in Nat : Item(s, i) \in Steps \union {End}
           /\ \A i \in Nat : Item(s, i) # End => Item(s, i) \in StepsOf(s)
           /\ StepsOf(s) \subseteq Steps
           /\ s = <<>> <=> Item(s, 1) = End
           /\ s # <<>> => Item(s, 1) = s[1]
  <1>1. /\ Len(s) \in Nat /\ \A i \in 1 .. Len(s) : s[i] \in Steps
        /\ s = <<>> <=> Len(s) = 0
    OBVIOUS
  <1> QED BY <1>1, NoEnd DEF Item, StepsOf

LEMMA TailItems ==
    ASSUME NEW s \in Seq(Steps), s # <<>>
    PROVE  /\ Tail(s) \in Seq(Steps)
           /\ \A i \in Nat \ {0} : Item(Tail(s), i) = Item(s, i + 1)
           /\ StepsOf(s) = {Item(s, 1)} \union StepsOf(Tail(s))
  <1>1. /\ Tail(s) \in Seq(Steps) /\ Len(s) \in Nat \ {0}
        /\ Len(Tail(s)) = Len(s) - 1
        /\ \A i \in 1 .. Len(s) - 1 : Tail(s)[i] = s[i + 1]
    BY HeadTailProperties
  <1>2. ASSUME NEW i \in Nat \ {0} PROVE Item(Tail(s), i) = Item(s, i + 1)
    BY <1>1 DEF Item
  <1>3. StepsOf(s) \subseteq {Item(s, 1)} \union StepsOf(Tail(s))
    <2> SUFFICES ASSUME NEW i \in 1 .. Len(s)
                 PROVE  s[i] \in {Item(s, 1)} \union StepsOf(Tail(s))
      BY DEF StepsOf
    <2>1. CASE i = 1
      BY <1>1, <2>1 DEF Item
    <2>2. CASE i # 1
      BY <1>1, <2>2 DEF StepsOf
    <2> QED BY <2>1, <2>2
  <1>4. StepsOf(Tail(s)) \subseteq StepsOf(s)
    <2> SUFFICES ASSUME NEW i \in 1 .. Len(Tail(s)) PROVE Tail(s)[i] \in StepsOf(s)
      BY DEF StepsOf
    <2>1. i + 1 \in 1 .. Len(s) /\ Tail(s)[i] = s[i + 1]
      BY <1>1
    <2> QED BY <2>1 DEF StepsOf
  <1>5. Item(s, 1) \in StepsOf(s)
    BY <1>1 DEF Item, StepsOf
  <1> QED BY <1>1, <1>2, <1>3, <1>4, <1>5

Cons(x, s) == <<x>> \o s

LEMMA ConsItems ==
    ASSUME NEW x \in Steps, NEW s \in Seq(Steps)
    PROVE  /\ Cons(x, s) \in Seq(Steps) /\ Cons(x, s) # <<>>
           /\ Item(Cons(x, s), 1) = x
           /\ \A i \in Nat \ {0} : Item(Cons(x, s), i + 1) = Item(s, i)
           /\ StepsOf(Cons(x, s)) = {x} \union StepsOf(s)
           /\ Tail(Cons(x, s)) = s
           /\ Len(Cons(x, s)) = Len(s) + 1 /\ Cons(x, s)[1] = x
           /\ \A i \in 1 .. Len(s) : Cons(x, s)[i + 1] = s[i]
  <1>1. <<x>> \in Seq(Steps) /\ Len(<<x>>) = 1 /\ <<x>>[1] = x
    OBVIOUS
  <1>2. /\ Cons(x, s) \in Seq(Steps) /\ Len(Cons(x, s)) = Len(s) + 1
        /\ Cons(x, s)[1] = x
        /\ \A i \in 1 .. Len(s) : Cons(x, s)[i + 1] = s[i]
    BY <1>1, ConcatProperties DEF Cons
  <1>3. Len(s) \in Nat
    OBVIOUS
  <1>4. Cons(x, s) # <<>>
    BY <1>2, <1>3
  <1>5. \A i \in Nat \ {0} : Item(Cons(x, s), i + 1) = Item(s, i)
    BY <1>2, <1>3 DEF Item
  <1>6. Item(Cons(x, s), 1) = x
    BY <1>2, <1>3 DEF Item
  <1>7. /\ Tail(Cons(x, s)) \in Seq(Steps) /\ Len(Tail(Cons(x, s))) = Len(s)
        /\ \A i \in 1 .. Len(s) : Tail(Cons(x, s))[i] = s[i]
    BY <1>2, <1>3, <1>4, HeadTailProperties
  <1>8. Tail(Cons(x, s)) = s
    BY <1>7, SeqEqual
  <1> QED BY <1>2, <1>4, <1>5, <1>6, <1>8, TailItems

LEMMA Concat ==
    ASSUME NEW a \in Seq(Steps), NEW b \in Seq(Steps), NEW c \in Seq(Steps)
    PROVE  (a \o b) \o c = a \o (b \o c) /\ <<>> \o a = a /\ a \o <<>> = a
  BY ConcatAssociative, ConcatEmptySeq

LEMMA TwoCons ==
    ASSUME NEW x \in Steps, NEW y \in Steps, NEW s \in Seq(Steps)
    PROVE  <<x, y>> \o s = Cons(x, Cons(y, s))
  <1>1. <<x>> \in Seq(Steps) /\ <<y>> \in Seq(Steps) /\ <<x, y>> \in Seq(Steps)
    OBVIOUS
  <1>2. <<x>> \o <<y>> = <<x, y>>
    <2>1. /\ <<x>> \o <<y>> \in Seq(Steps) /\ Len(<<x>> \o <<y>>) = 2
          /\ (<<x>> \o <<y>>)[1] = x /\ (<<x>> \o <<y>>)[2] = y
      BY <1>1, ConcatProperties
    <2>2. Len(<<x, y>>) = 2 /\ <<x, y>>[1] = x /\ <<x, y>>[2] = y
      OBVIOUS
    <2>3. \A i \in 1 .. 2 : (<<x>> \o <<y>>)[i] = <<x, y>>[i]
      BY <2>1, <2>2
    <2> QED BY <1>1, <2>1, <2>2, <2>3, SeqEqual
  <1>3. (<<x>> \o <<y>>) \o s = <<x>> \o (<<y>> \o s)
    BY <1>1, Concat
  <1> QED BY <1>2, <1>3 DEF Cons

(* The forms, from the front.                                              *)

LEMMA FormTail ==
    ASSUME NEW p \in Processes, NEW r \in BOOLEAN, NEW l \in BOOLEAN,
           NEW s \in Seq(Steps), s # <<>>, Form(p, s, r, l)
    PROVE  /\ Form(p, Tail(s), r, l)
           /\ Follows(p, Item(s, 1), Item(s, 2), Item(s, 3), r, l)
           /\ \A y \in StepsOf(Tail(s)) : After(p, Item(s, 1), y)
  <1>1. /\ Tail(s) \in Seq(Steps) /\ Len(s) \in Nat \ {0}
        /\ Len(Tail(s)) = Len(s) - 1
        /\ \A i \in 1 .. Len(s) - 1 : Tail(s)[i] = s[i + 1]
    BY HeadTailProperties
  <1>2. Item(s, 1) = s[1]
    BY <1>1 DEF Item
  <1>3. \A i \in 1 .. Len(Tail(s)) :
            Follows(p, Tail(s)[i], Item(Tail(s), i + 1), Item(Tail(s), i + 2), r, l)
    <2> SUFFICES ASSUME NEW i \in 1 .. Len(Tail(s))
                 PROVE  Follows(p, Tail(s)[i], Item(Tail(s), i + 1), Item(Tail(s), i + 2), r, l)
      OBVIOUS
    <2>1. i + 1 \in 1 .. Len(s) /\ Tail(s)[i] = s[i + 1] /\ i \in Nat
      BY <1>1
    <2>2. Follows(p, s[i + 1], Item(s, (i + 1) + 1), Item(s, (i + 1) + 2), r, l)
      BY <2>1 DEF Form
    <2>3. /\ Item(Tail(s), i + 1) = Item(s, (i + 1) + 1)
          /\ Item(Tail(s), i + 2) = Item(s, (i + 2) + 1)
          /\ (i + 1) + 2 = (i + 2) + 1
      BY <2>1, TailItems
    <2> QED BY <2>1, <2>2, <2>3
  <1>4. ASSUME NEW i \in 1 .. Len(Tail(s)), NEW j \in i + 1 .. Len(Tail(s))
        PROVE  After(p, Tail(s)[i], Tail(s)[j])
    BY <1>1 DEF Form
  <1>5. \A y \in StepsOf(Tail(s)) : After(p, Item(s, 1), y)
    <2> SUFFICES ASSUME NEW i \in 1 .. Len(Tail(s))
                 PROVE  After(p, s[1], Tail(s)[i])
      BY <1>2 DEF StepsOf
    <2>1. 1 \in 1 .. Len(s) /\ i + 1 \in 1 + 1 .. Len(s) /\ Tail(s)[i] = s[i + 1]
      BY <1>1
    <2> QED BY <2>1 DEF Form
  <1>6. Follows(p, Item(s, 1), Item(s, 2), Item(s, 3), r, l)
    BY <1>1, <1>2 DEF Form
  <1> QED BY <1>3, <1>4, <1>5, <1>6 DEF Form

LEMMA FormCons ==
    ASSUME NEW p \in Processes, NEW r \in BOOLEAN, NEW l \in BOOLEAN,
           NEW x \in Steps, NEW s \in Seq(Steps), Form(p, s, r, l),
           Follows(p, x, Item(s, 1), Item(s, 2), r, l),
           \A y \in StepsOf(s) : After(p, x, y)
    PROVE  Form(p, Cons(x, s), r, l)
  <1> DEFINE t == Cons(x, s)
  <1>0. Len(s) \in Nat
    OBVIOUS
  <1>1. /\ t \in Seq(Steps) /\ t # <<>> /\ Tail(t) = s /\ Item(t, 1) = x
        /\ \A i \in Nat \ {0} : Item(t, i + 1) = Item(s, i)
    BY ConsItems
  <1>2. /\ Len(t) = Len(s) + 1 /\ t[1] = x
        /\ \A i \in 1 .. Len(s) : t[i + 1] = s[i]
    BY ConsItems
  <1> HIDE DEF t
  <1>3. ASSUME NEW i \in 1 .. Len(t)
        PROVE  Follows(p, t[i], Item(t, i + 1), Item(t, i + 2), r, l)
    <2>1. CASE i = 1
      <3>1. Item(t, 2) = Item(s, 1) /\ Item(t, 3) = Item(s, 2)
        BY <1>1
      <3>2. i + 1 = 2 /\ i + 2 = 3 /\ t[i] = x
        BY <1>2, <2>1
      <3> QED BY <3>1, <3>2
    <2>2. CASE i # 1
      <3>1. PICK j \in 1 .. Len(s) : i = j + 1
        BY <1>0, <1>2, <2>2
      <3>2. t[i] = s[j] /\ j + 1 \in Nat \ {0} /\ j + 2 \in Nat \ {0}
        BY <1>0, <1>2, <3>1
      <3>3. Item(t, (j + 1) + 1) = Item(s, j + 1) /\ Item(t, (j + 2) + 1) = Item(s, j + 2)
        BY <1>1, <3>2
      <3>4. i + 1 = (j + 1) + 1 /\ i + 2 = (j + 2) + 1
        BY <3>1, <3>2
      <3>5. Follows(p, s[j], Item(s, j + 1), Item(s, j + 2), r, l)
        BY <3>1 DEF Form
      <3> QED BY <3>2, <3>3, <3>4, <3>5
    <2> QED BY <2>1, <2>2
  <1>4. ASSUME NEW i \in 1 .. Len(t), NEW j \in i + 1 .. Len(t)
        PROVE  After(p, t[i], t[j])
    <2>1. j - 1 \in 1 .. Len(s) /\ t[j] = s[j - 1]
      BY <1>0, <1>2
    <2>2. CASE i = 1
      BY <2>1, <1>2, <2>2 DEF StepsOf
    <2>3. CASE i # 1
      <3>1. i - 1 \in 1 .. Len(s) /\ i = (i - 1) + 1 /\ j - 1 \in (i - 1) + 1 .. Len(s)
        BY <1>0, <1>2, <2>3
      <3>2. t[i] = s[i - 1]
        BY <1>2, <3>1
      <3> QED BY <2>1, <3>1, <3>2 DEF Form
    <2> QED BY <2>2, <2>3
  <1> QED BY <1>3, <1>4 DEF Form, t

-----------------------------------------------------------------------------
(* What a step makes of what is still to do.                               *)

LEMMA StepIsPair == \A s \in Steps : s = <<s[1], s[2]>> /\ s # End
  <1> SUFFICES ASSUME NEW s \in Steps PROVE s = <<s[1], s[2]>>
    BY NoEnd
  <1>1. CASE s \in PlainKinds \X {""}
    <2> DEFINE blank == {""}
    <2>1. s \in PlainKinds \X blank
      BY <1>1
    <2> HIDE DEF blank
    <2> QED BY <2>1
  <1>5. CASE s \in SignalKinds \X Signals
    BY <1>5
  <1>4. CASE s \in ({"ClearBit"} \X (Signals \union {"RECVD"}))
                  \union (MsgKinds \X MsgTypes) \union ({"SendAck"} \X Acks)
    BY <1>4
  <1>2. CASE s \in ({"Store"} \X Db0Messages)
                  \union ({"Suspended"} \X {"set", "clear"})
                  \union ({"UpdateAnalog"} \X Values)
                  \union ({"EndDb3"} \X Db3Messages) \union (RegisterKinds \X (1 .. 3))
    BY <1>2
  <1>3. CASE s \in ({"Write0"} \X ((SUBSET Cmes) \X Db0Messages))
                  \union ({"Write3"} \X (Cmes \X Db3Messages))
                  \union ({"AwaitAck"} \X Awaited)
                  \union ({"Become"} \X {"stopped", "active", "safe"})
    BY <1>3
  <1> QED BY <1>1, <1>2, <1>3, <1>4, <1>5 DEF Steps

LEMMA HeadOf ==
    ASSUME TodoType, NEW p \in Processes, NEW k, At(p, k)
    PROVE  /\ Item(todo[p], 1) \in Steps
           /\ Item(todo[p], 1) = <<k, Argument(p)>>
           /\ Item(todo[p], 1)[1] = k /\ Item(todo[p], 1)[2] = Argument(p)
           /\ Item(todo[p], 1) \in StepsOf(todo[p])
  <1>1. /\ todo[p] # <<>> /\ todo[p] \in Seq(Steps)
        /\ todo[p][1] \in Steps /\ todo[p][1][1] = k
        /\ todo[p][1][2] = Argument(p)
    BY CurrentStep
  <1>2. Item(todo[p], 1) = todo[p][1]
    BY <1>1, ItemsOf
  <1>3. Item(todo[p], 1) # End
    BY <1>1, <1>2, StepIsPair
  <1>4. Item(todo[p], 1) \in StepsOf(todo[p])
    BY <1>1, <1>3, ItemsOf
  <1>5. todo[p][1] = <<k, Argument(p)>>
    BY <1>1, StepIsPair
  <1> QED BY <1>1, <1>2, <1>4, <1>5

LEMMA ThenSteps ==
    ASSUME TodoType, NEW p \in Processes, NEW more \in Seq(Steps), Then(p, more)
    PROVE  /\ todo'[p] = more \o Tail(todo[p])
           /\ \A o \in Processes \ {p} : todo'[o] = todo[o]
  BY DEF Then, TodoType

LEMMA ContinueSteps ==
    ASSUME TodoType, NEW p \in Processes, NEW k, At(p, k), Continue(p),
           NEW r \in BOOLEAN, NEW l \in BOOLEAN, Form(p, todo[p], r, l)
    PROVE  /\ Item(todo[p], 1) = <<k, Argument(p)>> /\ Item(todo[p], 1) \in Steps
           /\ Item(todo[p], 1)[1] = k /\ Item(todo[p], 1)[2] = Argument(p)
           /\ Item(todo'[p], 1) = Item(todo[p], 2)
           /\ Item(todo'[p], 2) = Item(todo[p], 3)
           /\ StepsOf(todo[p]) = {Item(todo[p], 1)} \union StepsOf(todo'[p])
           /\ Form(p, todo'[p], r, l)
           /\ Follows(p, Item(todo[p], 1), Item(todo[p], 2), Item(todo[p], 3), r, l)
           /\ \A y \in StepsOf(todo'[p]) : After(p, Item(todo[p], 1), y)
           /\ \A o \in Processes \ {p} : todo'[o] = todo[o]
           /\ todo'[p] = Tail(todo[p])
  <1>1. todo[p] # <<>> /\ todo[p] \in Seq(Steps) /\ Tail(todo[p]) \in Seq(Steps)
    BY CurrentStep
  <1>2. <<>> \in Seq(Steps)
    OBVIOUS
  <1>3. /\ todo'[p] = <<>> \o Tail(todo[p])
        /\ \A o \in Processes \ {p} : todo'[o] = todo[o]
    BY <1>2, ThenSteps DEF Continue
  <1>4. todo'[p] = Tail(todo[p])
    BY <1>1, <1>3, Concat
  <1>5. /\ Item(todo[p], 1) \in Steps
        /\ Item(todo[p], 1) = <<k, Argument(p)>>
        /\ Item(todo[p], 1)[1] = k /\ Item(todo[p], 1)[2] = Argument(p)
    BY HeadOf
  <1>6. /\ Form(p, Tail(todo[p]), r, l)
        /\ Follows(p, Item(todo[p], 1), Item(todo[p], 2), Item(todo[p], 3), r, l)
        /\ \A y \in StepsOf(Tail(todo[p])) : After(p, Item(todo[p], 1), y)
    BY <1>1, FormTail
  <1>7. /\ Item(Tail(todo[p]), 1) = Item(todo[p], 2)
        /\ Item(Tail(todo[p]), 2) = Item(todo[p], 3)
        /\ StepsOf(todo[p]) = {Item(todo[p], 1)} \union StepsOf(Tail(todo[p]))
    BY <1>1, TailItems, SMTT(60)
  <1> QED BY <1>3, <1>4, <1>5, <1>6, <1>7

(* Nothing changes for the others.                                         *)
QSame == todo'["qm"] = todo["qm"]
SSame == todo'["sib"] = todo["sib"]
GSame == todo'["pgpe"] = todo["pgpe"]

LEMMA SamesViews ==
    /\ QSame => Q1' = Q1 /\ Q2' = Q2 /\ Q3' = Q3 /\ RQ' = RQ
    /\ SSame => S1' = S1 /\ S2' = S2 /\ S3' = S3 /\ RS' = RS
                /\ Locks(todo["sib"])' = Locks(todo["sib"])
    /\ GSame => G1' = G1 /\ G2' = G2 /\ G3' = G3
  BY DEF QSame, SSame, GSame, Q1, Q2, Q3, RQ, S1, S2, S3, RS, G1, G2, G3

QPops ==
    /\ Q1' = Q2 /\ Q2' = Q3 /\ RQ = {Q1} \union RQ'
    /\ QNext(Q1, Q2, Q3) /\ \A y \in RQ' : QAfter(Q1, y)
SPops ==
    /\ S1' = S2 /\ S2' = S3 /\ RS = {S1} \union RS'
    /\ SNext(S1, S2) /\ \A y \in RS' : SAfter(S1, y)
GPops ==
    /\ G1' = G2 /\ G2' = G3
    /\ GNext(G1, G2, G3, registered, Interlock)

LEMMA QContinues ==
    ASSUME TypeInv, Forms, NEW k, At("qm", k), Continue("qm")
    PROVE  /\ QPops /\ SSame /\ GSame /\ QForm(todo["qm"])'
           /\ Q1 = <<k, Argument("qm")>> /\ Q1 \in Steps /\ Q1[1] = k
           /\ Q1[2] = Argument("qm")
  <1> DEFINE p == "qm"
  <1>1. TodoType /\ p \in Processes /\ Form(p, todo[p], TRUE, TRUE)
    BY DEF TypeInv, Forms, QForm, Processes
  <1>2. "sib" \in Processes \ {p} /\ "pgpe" \in Processes \ {p} /\ At(p, k) /\ Continue(p)
    BY DEF Processes
  <1> HIDE DEF p
  <1>3. /\ Item(todo[p], 1) = <<k, Argument(p)>> /\ Item(todo[p], 1) \in Steps
        /\ Item(todo[p], 1)[1] = k /\ Item(todo[p], 1)[2] = Argument(p)
        /\ Item(todo'[p], 1) = Item(todo[p], 2)
        /\ Item(todo'[p], 2) = Item(todo[p], 3)
        /\ StepsOf(todo[p]) = {Item(todo[p], 1)} \union StepsOf(todo'[p])
        /\ Form(p, todo'[p], TRUE, TRUE)
        /\ Follows(p, Item(todo[p], 1), Item(todo[p], 2), Item(todo[p], 3), TRUE, TRUE)
        /\ \A y \in StepsOf(todo'[p]) : After(p, Item(todo[p], 1), y)
        /\ \A o \in Processes \ {p} : todo'[o] = todo[o]
    BY <1>1, <1>2, ContinueSteps
  <1>4. QPops
    BY <1>3 DEF p, QPops, Q1, Q2, Q3, RQ, Follows, After
  <1> QED BY <1>2, <1>3, <1>4 DEF p, SSame, GSame, QForm, Q1

LEMMA SContinues ==
    ASSUME TypeInv, Forms, NEW k, At("sib", k), Continue("sib")
    PROVE  /\ SPops /\ QSame /\ GSame /\ SForm(todo["sib"])'
           /\ S1 = <<k, Argument("sib")>> /\ S1 \in Steps /\ S1[1] = k
           /\ S1[2] = Argument("sib")
           /\ todo'["sib"] = Tail(todo["sib"])
  <1> DEFINE p == "sib"
  <1>1. TodoType /\ p \in Processes /\ Form(p, todo[p], TRUE, TRUE)
    BY DEF TypeInv, Forms, SForm, Processes
  <1>2. "qm" \in Processes \ {p} /\ "pgpe" \in Processes \ {p} /\ At(p, k) /\ Continue(p)
    BY DEF Processes
  <1> HIDE DEF p
  <1>3. /\ Item(todo[p], 1) = <<k, Argument(p)>> /\ Item(todo[p], 1) \in Steps
        /\ Item(todo[p], 1)[1] = k /\ Item(todo[p], 1)[2] = Argument(p)
        /\ Item(todo'[p], 1) = Item(todo[p], 2)
        /\ Item(todo'[p], 2) = Item(todo[p], 3)
        /\ StepsOf(todo[p]) = {Item(todo[p], 1)} \union StepsOf(todo'[p])
        /\ Form(p, todo'[p], TRUE, TRUE)
        /\ Follows(p, Item(todo[p], 1), Item(todo[p], 2), Item(todo[p], 3), TRUE, TRUE)
        /\ \A y \in StepsOf(todo'[p]) : After(p, Item(todo[p], 1), y)
        /\ \A o \in Processes \ {p} : todo'[o] = todo[o]
        /\ todo'[p] = Tail(todo[p])
    BY <1>1, <1>2, ContinueSteps
  <1>4. SPops
    BY <1>3 DEF p, SPops, S1, S2, S3, RS, Follows, After
  <1> QED BY <1>2, <1>3, <1>4 DEF p, QSame, GSame, SForm, S1

LEMMA GContinues ==
    ASSUME TypeInv, Forms, NEW k, At("pgpe", k), Continue("pgpe")
    PROVE  /\ GPops /\ QSame /\ SSame
           /\ GForm(todo'["pgpe"], registered, Interlock)
           /\ G1 = <<k, Argument("pgpe")>> /\ G1 \in Steps /\ G1[1] = k
           /\ G1[2] = Argument("pgpe")
  <1> DEFINE p == "pgpe"
  <1>1. TodoType /\ p \in Processes /\ Form(p, todo[p], registered, Interlock)
    BY DEF TypeInv, Forms, GForm, Processes
  <1>2. "qm" \in Processes \ {p} /\ "sib" \in Processes \ {p} /\ At(p, k) /\ Continue(p)
    BY DEF Processes
  <1>0. registered \in BOOLEAN /\ Interlock \in BOOLEAN
    BY DEF TypeInv, PgpeType, Interlock
  <1> HIDE DEF p
  <1>3. /\ Item(todo[p], 1) = <<k, Argument(p)>> /\ Item(todo[p], 1) \in Steps
        /\ Item(todo[p], 1)[1] = k /\ Item(todo[p], 1)[2] = Argument(p)
        /\ Item(todo'[p], 1) = Item(todo[p], 2)
        /\ Item(todo'[p], 2) = Item(todo[p], 3)
        /\ Form(p, todo'[p], registered, Interlock)
        /\ Follows(p, Item(todo[p], 1), Item(todo[p], 2), Item(todo[p], 3),
                   registered, Interlock)
        /\ \A o \in Processes \ {p} : todo'[o] = todo[o]
    BY <1>0, <1>1, <1>2, ContinueSteps
  <1>4. GPops
    BY <1>3 DEF p, GPops, G1, G2, G3, Follows
  <1> QED BY <1>2, <1>3, <1>4 DEF p, QSame, SSame, GForm, G1

LEMMA IdleViews ==
    /\ Idle("qm") => Q1 = End /\ Q2 = End /\ Q3 = End /\ RQ = {}
    /\ Idle("sib") => S1 = End /\ S2 = End /\ S3 = End /\ RS = {}
    /\ Idle("pgpe") => G1 = End /\ G2 = End /\ G3 = End
  BY EmptyItems DEF Idle, Q1, Q2, Q3, RQ, S1, S2, S3, RS, G1, G2, G3

-----------------------------------------------------------------------------
(* What the steps of the quad manager need to keep, group by group.        *)

LEMMA Heads ==
    ASSUME TypeInv
    PROVE  /\ Q1 \in Steps \union {End} /\ S1 \in Steps \union {End}
           /\ G1 \in Steps \union {End}
           /\ Q1 \in Steps => Q1 \in RQ /\ Q1 = <<Q1[1], Q1[2]>>
           /\ S1 \in Steps => S1 \in RS /\ S1 = <<S1[1], S1[2]>>
           /\ S1[1] \in SignalKinds => S1[2] \in Signals
           /\ Q1[1] \in SignalKinds => Q1[2] \in Signals
           /\ S1[1] \in MsgKinds => S1[2] \in MTypes
           /\ Q1[1] \in MsgKinds => Q1[2] \in MTypes
           /\ RQ \subseteq Steps /\ RS \subseteq Steps
           /\ End[1] = "none" /\ End \notin Steps
  <1>1. /\ todo["qm"] \in Seq(Steps) /\ todo["sib"] \in Seq(Steps)
        /\ todo["pgpe"] \in Seq(Steps)
    BY DEF TypeInv, TodoType, Processes
  <1>2. /\ Q1 \in Steps \union {End} /\ S1 \in Steps \union {End}
        /\ G1 \in Steps \union {End}
        /\ Q1 # End => Q1 \in RQ
        /\ S1 # End => S1 \in RS
        /\ RQ \subseteq Steps /\ RS \subseteq Steps
    BY <1>1, ItemsOf DEF Q1, S1, G1, RQ, RS
  <1>3. /\ End \notin Steps /\ End[1] = "none"
        /\ "none" \notin SignalKinds \union MsgKinds
    BY NoEnd DEF SignalKinds, MsgKinds
  <1>4. \A s \in Steps : s = <<s[1], s[2]>>
    BY StepIsPair
  <1>5. /\ S1 \in Steps => /\ S1[1] \in SignalKinds => S1[2] \in Signals
                           /\ S1[1] \in MsgKinds => S1[2] \in MTypes
        /\ Q1 \in Steps => /\ Q1[1] \in SignalKinds => Q1[2] \in Signals
                           /\ Q1[1] \in MsgKinds => Q1[2] \in MTypes
    BY Arguments DEF MsgTypes, MTypes
  <1>6. /\ S1[1] \in SignalKinds => S1 \in Steps
        /\ S1[1] \in MsgKinds => S1 \in Steps
        /\ Q1[1] \in SignalKinds => Q1 \in Steps
        /\ Q1[1] \in MsgKinds => Q1 \in Steps
    BY <1>2, <1>3
  <1>7. /\ Q1 \in Steps => Q1 \in RQ /\ Q1 = <<Q1[1], Q1[2]>>
        /\ S1 \in Steps => S1 \in RS /\ S1 = <<S1[1], S1[2]>>
    BY <1>2, <1>3, <1>4
  <1>8. /\ S1[1] \in SignalKinds => S1[2] \in Signals
        /\ Q1[1] \in SignalKinds => Q1[2] \in Signals
        /\ S1[1] \in MsgKinds => S1[2] \in MTypes
        /\ Q1[1] \in MsgKinds => Q1[2] \in MTypes
    BY <1>5, <1>6
  <1> QED BY <1>2, <1>3, <1>7, <1>8

LEMMA Blank == \A s \in Steps : s[1] \in PlainKinds => s[2] = ""
  <1> SUFFICES ASSUME NEW s \in Steps, s[1] \in PlainKinds PROVE s[2] = ""
    OBVIOUS
  <1>1. s \in PlainKinds \X {""}
    BY DEF Steps, PlainKinds, SignalKinds, MsgKinds, RegisterKinds
  <1> QED BY <1>1

SameBits ==
    /\ \A b \in Bits \ {"DB0"} : b \in eisr'["qm"] <=> b \in eisr["qm"]
    /\ eisr'["sib"] = eisr["sib"]

(* While it awaits nothing there is nothing on the way.                    *)
LEMMA QuietLines ==
    ASSUME Lines, Q1[1] \notin AnswerKinds, Q1[1] # "AwaitMsgAck",
           SSame, SameBits, icrr' = icrr
    PROVE  Lines'
  <1>1. S1' = S1
    BY SamesViews
  <1>2. Signals \subseteq Bits \ {"DB0"} /\ "ACK" \in Bits \ {"DB0"}
        /\ "IN0" \in Signals /\ "IN1" \in Signals
    BY DEF Signals, Bits
  <1>3. /\ \A x \in Signals : x \notin eisr["qm"]
        /\ \A x \in Signals : x \in eisr["sib"] => Is(S1, "ClearBit", x)
        /\ "ACK" \notin eisr["qm"]
        /\ "RECVD" \in eisr["sib"] => Is(S1, "ClearBit", "RECVD")
    BY DEF Lines, W1, W2, W3, W4, Unanswered, Unacked, Awaits, Is
  <1>4. S1[1] # "Answer" /\ S1[1] # "SiblingDb0" /\ S1[1] # "Suspended"
    BY DEF Lines, W5, Unanswered, Awaits
  <1>5. W1' /\ W2' /\ W3' /\ W4'
    BY <1>1, <1>2, <1>3 DEF W1, W2, W3, W4, SameBits
  <1>6. W5'
    BY <1>1, <1>4 DEF W5
  <1> QED BY <1>5, <1>6 DEF Lines

LEMMA QmTicks ==
    ASSUME Ticks, SSame, \A i \in {"RECVD", "IN0"} : ticks'[i] = ticks[i],
           \A b \in {"RECVD", "IN0"} : b \in eisr["sib"] => b \in eisr'["sib"],
           \/ ticks'["DB0"] = 0
           \/ /\ ticks'["DB0"] = ticks["DB0"]
              /\ "DB0" \in eisr["qm"] => "DB0" \in eisr'["qm"]
              /\ Q1'[1] # "ReadDb0"
              /\ <<"Db0Started", "">> \in RQ' => <<"Db0Started", "">> \in RQ
              /\ (HasReg' => HasReg) /\ (RegDue' => RegDue)
    PROVE  Ticks'
  <1>1. S1' = S1 /\ RS' = RS
    BY SamesViews
  <1>2. T1'
    <2>1. CASE ticks'["DB0"] = 0
      <3>1. ~(ticks'["DB0"] > 0)
        BY <2>1
      <3> QED BY <3>1 DEF T1
    <2>2. CASE ~(ticks'["DB0"] = 0)
      BY <2>2 DEF T1, Ticks
    <2> QED BY <2>1, <2>2
  <1>3. T2' /\ T3'
    BY <1>1 DEF T2, T3, Ticks
  <1> QED BY <1>2, <1>3 DEF Ticks

LEMMA QmBoot ==
    ASSUME Boot, SSame, Interlock' = Interlock,
           \A m \in MTypes : SendDue(m)' <=> SendDue(m),
           Unacked("LOCK") => Unacked("LOCK")',
           HasReg' <=> HasReg,
           \A n \in 1 .. 3 : RegLeft(n)' <=> RegLeft(n),
           RegDue /\ "REGISTERING" \in flags["qm"] => "REGISTERING" \in flags'["qm"]
    PROVE  Boot'
  <1>1. /\ S1' = S1 /\ RS' = RS /\ Locks(todo["sib"])' = Locks(todo["sib"])
    BY SamesViews
  <1>2. LocksDue' = LocksDue /\ LocksLeft' = LocksLeft
    BY <1>1 DEF LocksDue, LocksLeft, RegistrationsLeft, MTypes
  <1>3. B1' /\ B4'
    BY <1>1, <1>2 DEF Boot, B1, B4, MTypes
  <1>4. B2'
    BY <1>1 DEF Boot, B2, MTypes
  <1>5. B3'
    BY DEF RegDue, Boot, B3, MTypes
  <1>6. B5'
    BY <1>1 DEF Boot, B5, MTypes
  <1> QED BY <1>3, <1>4, <1>5, <1>6 DEF Boot

LEMMA QmPairing ==
    ASSUME Pairing, SSame, GSame, type4' = "none" => type4 = "none",
           \A b \in {"HB", "DB3"} : b \in eisr'["sib"] <=> b \in eisr["sib"],
           db3' = db3,
           \A k \in Ks : QOpen(k) => QOpen(k)',
           "HB" \in eisr["qm"] => "HB" \in eisr'["qm"] \/ QOpen("hb")',
           "DB3" \in eisr["qm"] =>
               "DB3" \in eisr'["qm"] \/ \A k \in Ks : k = Reason[db3["qm"]] => QOpen(k)',
           QClipMid => QClipMid' \/ QOpen("last")',
           QHbMid => QHbMid' \/ QOpen("last")'
    PROVE  Pairing'
  <1>1. /\ \A k \in Ks : (SOpen(k)' <=> SOpen(k)) /\ (SPend(k)' <=> SPend(k))
        /\ SClipMid' <=> SClipMid
        /\ SHbMid' <=> SHbMid
    <2>1. S1' = S1 /\ S2' = S2 /\ S3' = S3
      BY SamesViews
    <2>2. \A k \in Ks : SOpen(k)' <=> SOpen(k)
      BY <2>1 DEF SOpen
    <2>3. \A k \in Ks : SPend(k)' <=> SPend(k)
      BY DEF SPend
    <2>4. SClipMid' <=> SClipMid
      BY <2>1 DEF SClipMid
    <2>5. SHbMid' <=> SHbMid
      BY <2>1 DEF SHbMid
    <2> QED BY <2>2, <2>3, <2>4, <2>5
  <1>2. \A k \in Ks : QPend(k) => QPend(k)' \/ QOpen(k)'
    BY DEF QPend
  <1>3. C1'
    BY <1>1, <1>2 DEF Pairing, C1, Ks
  <1>4. C2'
    BY <1>1 DEF Pairing, C2, Ks
  <1>5. C3'
    <2>1. \A m \in Ms : HalfM(m)' => HalfM(m)
      BY SamesViews DEF HalfM
    <2>2. \A m \in Ms : Reason[m] \in Ks
      BY DEF Reason, Ms, Ks
    <2> QED BY <1>1, <2>1, <2>2 DEF Pairing, C3
  <1>6. C4' /\ C5'
    BY <1>1 DEF Pairing, C4, C5
  <1> QED BY <1>3, <1>4, <1>5, <1>6 DEF Pairing

(* When it stands at none of the steps that need its sibling to be held.   *)
LEMMA QmStandstill ==
    ASSUME Q1'[1] # "AwaitMsgAck" \/ "ACK" \notin eisr'["qm"],
           Q1'[1] \notin {"UpdateAnalog", "ClearDb0", "ReadDb0", "ToFsafe"},
           Q1'[1] \notin AnswerKinds \/ Q1'[2] \notin eisr'["qm"],
           K1'
    PROVE  Standstill'
  <1>1. ~Answered2'
    BY DEF Answered2, Awaits
  <1>2. L1' /\ L2' /\ L3' /\ L4' /\ L5'
    BY <1>1 DEF L1, L2, L3, L4, L5, QHbMid, Is
  <1> QED BY <1>2 DEF Standstill

(* A step done that is not of an exchange of messages or registrations.    *)
LEMMA PopBoot ==
    ASSUME Boot, QPops, SSame, Interlock' = Interlock,
           Q1[1] \notin {"Send", "AwaitMsgAck", "Register", "RegisterDb0"},
           "REGISTERING" \in flags["qm"] =>
               "REGISTERING" \in flags'["qm"] \/ Q1[1] = "Registered"
    PROVE  Boot'
  <1>1. RQ = {Q1} \union RQ'
    BY DEF QPops
  <1>2. /\ \A x : <<"Send", x>> # Q1
        /\ \A x : <<"Register", x>> # Q1
        /\ \A x : <<"RegisterDb0", x>> # Q1
    OBVIOUS
  <1>3. /\ \A m \in MTypes : <<"Send", m>> \in RQ' <=> <<"Send", m>> \in RQ
        /\ HasReg' <=> HasReg
        /\ \A n \in 1 .. 3 : RegLeft(n)' <=> RegLeft(n)
    BY <1>1, <1>2 DEF HasReg, RegLeft
  <1>4. Q1'[1] # "AwaitMsgAck"
    BY DEF QPops, QNext, QWhence
  <1>5. \A m \in MTypes : ~Unacked(m) /\ ~Unacked(m)'
    BY <1>4 DEF Unacked, Is
  <1>6. /\ \A m \in MTypes : SendDue(m)' <=> SendDue(m)
        /\ ~Unacked("LOCK")
    BY <1>3, <1>5 DEF SendDue, MTypes
  <1>7. RegDue => Q1[1] # "Registered"
    <2>1. Q1[1] = "Registered" => \A y \in RQ' : Finale(y)
      BY DEF QPops, QAfter
    <2>2. \A n \in 1 .. 3 : ~Finale(<<"RegisterDb0", n>>)
      BY DEF Finale
    <2> QED BY <1>3, <2>1, <2>2 DEF RegDue, RegLeft
  <1> QED BY <1>3, <1>6, <1>7, QmBoot

LEMMA PopTicks ==
    ASSUME Ticks, QPops, SSame, Q1[1] # "ClearDb0", ticks' = ticks,
           \A b \in {"RECVD", "IN0"} : b \in eisr["sib"] => b \in eisr'["sib"],
           "DB0" \in eisr["qm"] => "DB0" \in eisr'["qm"] \/ ~(ticks["DB0"] > 0)
    PROVE  Ticks'
  <1>1. Q1'[1] # "ReadDb0" /\ RQ' \subseteq RQ
    BY DEF QPops, QNext, QWhence
  <1>2. S1' = S1 /\ RS' = RS
    BY SamesViews
  <1>3. T1'
    BY <1>1 DEF T1, Ticks, HasReg, RegDue, RegLeft
  <1>4. T2' /\ T3'
    BY <1>2 DEF T2, T3, Ticks
  <1> QED BY <1>3, <1>4 DEF Ticks

-----------------------------------------------------------------------------
(* Steps after which no more is due to the PGPE than before.               *)
SamePgpe ==
    /\ GSame /\ db3' = db3 /\ db0' = db0
    /\ registered' = registered /\ alive' = alive /\ mode' = mode
    /\ Interlock' = Interlock
    /\ "INTERLOCK" \in flags'["sib"] <=> "INTERLOCK" \in flags["sib"]
NoMoreDue ==
    /\ \A b \in {"DB0", "DB3", "HB"} : b \in eisr'["qm"] => b \in eisr["qm"]
    /\ \A b \in {"DB3", "HB"} : b \in eisr'["sib"] => b \in eisr["sib"]
    /\ "ENABLED" \in flags'["qm"] => "ENABLED" \in flags["qm"]
    /\ AckDue' => AckDue
    /\ In2Due' => In2Due /\ (AckDue => AckDue')
    /\ HasReg' <=> HasReg
    /\ RegDue' <=> RegDue
    /\ RegHead' => RegHead \/ (Db0Due /\ "DB0" \notin eisr'["qm"])
    /\ "DB0" \in eisr'["qm"] =>
           /\ <<"ClearDb0", "">> \in RQ => <<"ClearDb0", "">> \in RQ'
           /\ <<"Db0Started", "">> \in RQ => <<"Db0Started", "">> \in RQ'

LEMMA NoMoreExchange ==
    ASSUME Exchange, SamePgpe, NoMoreDue, type4' = type4
    PROVE  Exchange'
  <1>1. /\ G1' = G1 /\ G2' = G2 /\ G3' = G3 /\ Msg0' = Msg0 /\ db3' = db3
        /\ registered' = registered /\ alive' = alive /\ mode' = mode
        /\ type4' = type4 /\ Interlock' = Interlock
    BY SamesViews DEF SamePgpe, Msg0
  <1>2. /\ Db0Due' => Db0Due
        /\ RegHead' => RegHead \/ (Db0Due /\ "DB0" \notin eisr'["qm"])
        /\ Db3Due' => Db3Due
        /\ AckDue' => AckDue
    BY <1>1 DEF NoMoreDue, Db0Due, Db3Due
  <1>3. /\ Due' => Due
        /\ Awaiting' <=> Awaiting
        /\ Half' <=> Half
        /\ WriteNext' <=> WriteNext
    BY <1>1, <1>2 DEF Due, Awaiting, Half, HalfM, WriteNext
  <1>4. E1' /\ E2' /\ E2a' /\ E4' /\ E6'
    BY <1>1, <1>2, <1>3 DEF Exchange, NoMoreDue, E1, E2, E2a, E4, E6
  <1>5. E3'
    BY <1>2 DEF Exchange, NoMoreDue, E3
  <1>6. E5'
    BY <1>1 DEF Exchange, NoMoreDue, E5, Cmes
  <1>7. E9' /\ E11' /\ E12' /\ E14'
    <2>1. /\ In2Due' => In2Due /\ (AckDue => AckDue')
          /\ RegDue' <=> RegDue
          /\ "ENABLED" \in flags'["qm"] => "ENABLED" \in flags["qm"]
      BY DEF NoMoreDue
    <2> QED BY <1>1, <1>2, <1>3, <2>1 DEF Exchange, E9, E11, E12, E14
  <1>9. E8'
    <2>1. /\ RegDue' <=> RegDue
          /\ "INTERLOCK" \in flags'["sib"] <=> "INTERLOCK" \in flags["sib"]
      BY DEF NoMoreDue, SamePgpe
    <2> QED BY <1>1, <2>1 DEF Exchange, E8
  <1>10. E13'
    <2>1. RegHead' /\ "ENABLED" \in flags'["qm"] => "DB0" \notin eisr'["qm"]
      BY <1>2 DEF Exchange, NoMoreDue, E13, RegHead
    <2> QED BY <2>1 DEF E13, RegHead
  <1>8. HB1'
    BY <1>1 DEF Exchange, NoMoreDue, HB1
  <1> QED BY <1>4, <1>5, <1>6, <1>7, <1>8, <1>9, <1>10 DEF Exchange

(* A step done that was neither an answer nor of the registration.         *)
LEMMA PopIsQuiet ==
    ASSUME QPops, Q1[1] \notin AckKinds,
           Q1[1] \notin {"Register", "RegisterDb0", "AwaitDb0"},
           Q1[1] = "ClearDb0" => "DB0" \notin eisr'["qm"]
    PROVE  /\ AckDue' <=> AckDue
           /\ In2Due' => In2Due
           /\ HasReg' <=> HasReg
           /\ RegDue' <=> RegDue
           /\ Q1'[1] # "RegisterDb0"
           /\ "DB0" \in eisr'["qm"] =>
                  /\ <<"ClearDb0", "">> \in RQ => <<"ClearDb0", "">> \in RQ'
                  /\ <<"Db0Started", "">> \in RQ => <<"Db0Started", "">> \in RQ'
  <1>1. RQ = {Q1} \union RQ'
    BY DEF QPops
  <1>2. (AckDue' <=> AckDue) /\ (In2Due' => In2Due)
    BY <1>1 DEF AckDue, In2Due
  <1>3. \A x : <<"Register", x>> # Q1 /\ <<"RegisterDb0", x>> # Q1
               /\ <<"Db0Started", x>> # Q1
    BY DEF AckKinds
  <1>4. (HasReg' <=> HasReg) /\ (RegDue' <=> RegDue)
    BY <1>1, <1>3 DEF HasReg, RegDue, RegLeft
  <1>5. Q1'[1] # "RegisterDb0"
    BY DEF QPops, QNext, QWhence
  <1>6. Q1[1] # "ClearDb0" => \A x : <<"ClearDb0", x>> # Q1
    OBVIOUS
  <1>7. "DB0" \in eisr'["qm"] =>
                  /\ <<"ClearDb0", "">> \in RQ => <<"ClearDb0", "">> \in RQ'
                  /\ <<"Db0Started", "">> \in RQ => <<"Db0Started", "">> \in RQ'
    BY <1>1, <1>3, <1>6
  <1> QED BY <1>2, <1>4, <1>5, <1>7

(* What the quad manager answers, it answers once.                         *)
LEMMA AnswerAwaited ==
    ASSUME Exchange, Pairing, AckDue, ~Unanswered("IN2"), ~Is(Q1, "Raise", "IN2")
    PROVE  registered /\ Awaiting /\ ~Half /\ ~Db3Due /\ ~HasReg
  <1>1. registered /\ (Awaiting \/ Half) /\ ~Db3Due
    BY DEF Exchange, E1, E4, Due
  <1>2. \A k \in Ks : ~QOpen(k)
    BY DEF QOpen
  <1>3. ASSUME NEW m \in Ms PROVE ~HalfM(m)
    <2>1. Reason[m] \in Ks /\ m # "SUSPEND"
      BY DEF Reason, Ms, Ks
    <2>2. ~("DB3" \in eisr["qm"] /\ db3["qm"] = m)
      BY <1>1, <2>1 DEF Db3Due
    <2> QED BY <1>2, <2>1, <2>2 DEF Pairing, C3
  <1>4. ~Half
    BY <1>3 DEF Half
  <1>5. ~HasReg
    BY <1>1 DEF Exchange, E6
  <1> QED BY <1>1, <1>4, <1>5

LEMMA AnswerExchange ==
    ASSUME TypeInv, Exchange, Pairing, SamePgpe, QPops, Q1[1] \in AckKinds \ {"ReadDb0"},
           \A b \in {"DB0", "DB3", "HB"} : b \in eisr'["qm"] => b \in eisr["qm"],
           \A b \in {"DB3", "HB"} : b \in eisr'["sib"] => b \in eisr["sib"],
           Q1[1] = "Db0Started" => "DB0" \notin eisr'["qm"],
           type4' \notin {"none", "available"}
    PROVE  Exchange'
  <1>1. Q1 \in RQ /\ Q1[1] \notin {"AwaitAnswer", "AwaitAnswerOrRetry", "Raise"}
    BY DEF QPops, AckKinds
  <1>2. AckDue /\ ~Unanswered("IN2") /\ ~Is(Q1, "Raise", "IN2")
    BY <1>1 DEF AckDue, Unanswered, Awaits, AnswerKinds, Is
  <1>3. registered /\ Awaiting /\ ~Half /\ ~Db3Due /\ ~HasReg
    BY <1>2, AnswerAwaited
  <1>4. /\ \A y \in RQ' : y[1] \notin AckKinds \union {"ClearDb0"} /\ ~In2(y)
        /\ Q1'[1] # "RegisterDb0"
        /\ RQ = {Q1} \union RQ'
    BY DEF QPops, QNext, QWhence, QAfter, AckKinds
  <1>5. ~AckDue' /\ ~In2Due' /\ ~RegHead' /\ ~HasReg'
    BY <1>3, <1>4 DEF AckDue, In2Due, RegHead, HasReg
  <1>6. /\ G1' = G1 /\ G2' = G2 /\ G3' = G3 /\ Msg0' = Msg0 /\ db3' = db3
        /\ registered' = registered /\ alive' = alive /\ mode' = mode
        /\ Interlock' = Interlock
    BY SamesViews DEF SamePgpe, Msg0
  <1>7. ~Db3Due'
    BY <1>3, <1>6 DEF Db3Due
  <1>8. "DB0" \notin eisr'["qm"]
    <2>1. CASE Q1[1] = "Db0Started"
      BY <2>1
    <2>2. CASE Q1[1] # "Db0Started"
      <3>1. \A x : <<"ClearDb0", x>> # Q1 /\ <<"Db0Started", x>> # Q1
        BY <2>2 DEF AckKinds
      <3>2. <<"ClearDb0", "">>[1] = "ClearDb0" /\ <<"Db0Started", "">>[1] \in AckKinds
        BY DEF AckKinds
      <3>3. <<"ClearDb0", "">> \notin RQ /\ <<"Db0Started", "">> \notin RQ
        BY <1>4, <3>1, <3>2
      <3> QED BY <1>2, <3>3 DEF Exchange, E3
    <2> QED BY <2>1, <2>2
  <1>9. ~Due'
    BY <1>5, <1>7, <1>8 DEF Due, Db0Due
  <1>10. E1' /\ E2' /\ E2a' /\ E3' /\ E4' /\ E6'
    BY <1>3, <1>5, <1>6, <1>8, <1>9 DEF E1, E2, E2a, E3, E4, E6, Db0Due, Awaiting
  <1>11. E5'
    BY <1>3, <1>6 DEF E5
  <1>12. RegDue' => RegDue
    BY <1>4 DEF RegDue, RegLeft
  <1>13. E8' /\ E9' /\ E12' /\ E13' /\ E14'
    BY <1>4, <1>5, <1>6, <1>12 DEF Exchange, SamePgpe, E8, E9, E12, E13, E14
  <1>14. E11'
    BY <1>2, <1>6, <1>12 DEF Exchange, E11, E12
  <1>15. HB1'
    BY <1>5, <1>6 DEF Exchange, HB1
  <1> QED BY <1>10, <1>11, <1>13, <1>14, <1>15 DEF Exchange

-----------------------------------------------------------------------------
(* Everything at once.                                                     *)
Kept == Lines /\ Exchange /\ Ticks /\ Boot /\ Pairing /\ Standstill /\ Forms

LEMMA FormsKept ==
    ASSUME Forms, QForm(todo["qm"])', SForm(todo["sib"])', GSame,
           registered' = registered, Interlock' = Interlock
    PROVE  Forms'
  BY DEF Forms, GSame

-----------------------------------------------------------------------------
(* Steps of the quad manager that leave the sibling where it is.           *)
CalmKinds == {"UpdateAnalog", "Db0Started", "AckUpdate", "Db0Stop", "SendAck",
              "Suspended", "Registered", "EndDb0", "EndDb3", "Ready"}
Calm == \/ Q1[1] \in CalmKinds
        \/ Q1[1] = "Store" /\ ~Is(Q3, "Raise", "IN2")
        \/ Q1[1] = "Pmsr" /\ ~Is(Q2, "Raise", "IN2")
CalmStep ==
    /\ Calm /\ QPops /\ SSame /\ GSame /\ SameBits
    /\ "DB0" \in eisr'["qm"] <=> "DB0" \in eisr["qm"] /\ Q1[1] # "Db0Started"
    /\ ticks' = ticks /\ icrr' = icrr /\ db3' = db3
    /\ type4' = "none" => type4 = "none"
    /\ "qm" \in skipLock' => "qm" \in skipLock /\ Q1[1] # "EndDb3"
    /\ Interlock' = Interlock
    /\ "REGISTERING" \in flags["qm"] =>
           "REGISTERING" \in flags'["qm"] \/ Q1[1] = "Registered"

LEMMA CalmViews ==
    ASSUME QPops, Calm
    PROVE  /\ Q1[1] \in CalmKinds \union {"Store", "Pmsr"}
           /\ Q1'[1] \notin AnswerKinds
           /\ Q1'[1] \notin {"AwaitMsgAck", "UpdateAnalog", "ToFsafe",
                             "ClearDb0", "ReadDb0", "RegisterDb0"}
  <1>1. Q1[1] \in CalmKinds \union {"Store", "Pmsr"}
    BY DEF Calm
  <1>2. Q1' = Q2 /\ QWhence(Q1, Q2)
    BY DEF QPops, QNext
  <1>3. Q2[1] \notin AnswerKinds
    BY <1>1, <1>2 DEF QWhence, CalmKinds
  <1>4. Q2[1] \notin {"AwaitMsgAck", "UpdateAnalog", "ToFsafe",
                     "ClearDb0", "ReadDb0", "RegisterDb0"}
    BY <1>1, <1>2 DEF QWhence, CalmKinds
  <1> QED BY <1>1, <1>2, <1>3, <1>4

LEMMA CalmPairing ==
    ASSUME Pairing, CalmStep
    PROVE  Pairing'
  <1>1. /\ Q1[1] \notin AnswerKinds /\ Q1[1] \notin {"Raise", "ToFsafe"}
        /\ Q1[1] = "Store" => ~Is(Q3, "Raise", "IN2")
        /\ Q1[1] = "Pmsr" => ~Is(Q2, "Raise", "IN2")
    BY DEF CalmStep, Calm, CalmKinds, AnswerKinds
  <1>2. /\ \A k \in Ks : ~QOpen(k)
        /\ ~QClipMid /\ ~QHbMid
    BY <1>1 DEF QOpen, QClipMid, QHbMid, Unanswered, Answered2, Awaits, Is
  <1>3. /\ \A b \in {"HB", "DB3"} : b \in eisr'["sib"] <=> b \in eisr["sib"]
        /\ "HB" \in eisr["qm"] => "HB" \in eisr'["qm"]
        /\ "DB3" \in eisr["qm"] => "DB3" \in eisr'["qm"]
    BY DEF CalmStep, SameBits, Bits
  <1> QED BY <1>2, <1>3, QmPairing DEF CalmStep

LEMMA CalmKept ==
    ASSUME TypeInv, Kept, CalmStep, SamePgpe, QForm(todo["qm"])',
           \/ /\ Q1[1] \notin AckKinds /\ type4' = type4
              /\ "ENABLED" \in flags'["qm"] => "ENABLED" \in flags["qm"]
           \/ Q1[1] \in AckKinds /\ type4' \notin {"none", "available"}
    PROVE  Kept'
  <1>1. /\ \A b \in {"DB0", "DB3", "HB"} : b \in eisr'["qm"] => b \in eisr["qm"]
        /\ \A b \in {"DB3", "HB"} : b \in eisr'["sib"] => b \in eisr["sib"]
        /\ QPops /\ SSame /\ SameBits
        /\ Q1[1] = "Db0Started" => "DB0" \notin eisr'["qm"]
    BY DEF CalmStep, SameBits, Bits
  <1>2. /\ Q1[1] \notin {"Register", "RegisterDb0", "AwaitDb0", "ClearDb0", "ReadDb0",
                       "Send", "AwaitMsgAck"}
        /\ Q1[1] \notin AnswerKinds
        /\ Q1'[1] \notin AnswerKinds
        /\ Q1'[1] \notin {"AwaitMsgAck", "UpdateAnalog", "ToFsafe",
                         "ClearDb0", "ReadDb0", "RegisterDb0"}
    BY CalmViews DEF CalmStep, CalmKinds, AnswerKinds
  <1>3. Forms'
    BY FormsKept DEF Kept, Forms, CalmStep, SamePgpe, SSame
  <1>4. Lines'
    BY <1>1, <1>2, QuietLines DEF CalmStep, Kept
  <1>5. Ticks'
    <2>1. Q1[1] = "Db0Started" => <<"Db0Started", "">> \in RQ
      <3>1. Q1[1] = "Db0Started" => Q1 \in Steps
        BY Heads
      <3>2. Q1[1] = "Db0Started" => Q1[2] = ""
        BY <3>1, Blank DEF PlainKinds
      <3> QED BY <3>1, <3>2, Heads
    <2>2. Q1[1] = "Db0Started" => ~(ticks["DB0"] > 0)
      BY <2>1 DEF Kept, Ticks, T1
    <2>3. "DB0" \in eisr["qm"] => "DB0" \in eisr'["qm"] \/ ~(ticks["DB0"] > 0)
      BY <2>2 DEF CalmStep
    <2>4. /\ ticks' = ticks
          /\ \A b \in {"RECVD", "IN0"} : b \in eisr["sib"] => b \in eisr'["sib"]
      BY <1>1 DEF CalmStep, SameBits
    <2> QED BY <1>1, <1>2, <2>3, <2>4, PopTicks DEF Kept
  <1>6. Boot'
    BY <1>1, <1>2, PopBoot DEF CalmStep, Kept
  <1>7. Pairing'
    BY CalmPairing DEF Kept
  <1>8. Standstill'
    <2>1. K1'
      BY DEF Kept, Standstill, K1, CalmStep, QPops
    <2> QED BY <1>2, <2>1, QmStandstill
  <1>9. Exchange'
    <2>1. CASE Q1[1] \in AckKinds
      BY <1>1, <1>2, <2>1, AnswerExchange DEF Kept
    <2>2. CASE Q1[1] \notin AckKinds
      <3>1. NoMoreDue
        BY <1>1, <1>2, <2>2, PopIsQuiet DEF NoMoreDue, RegHead
      <3> QED BY <2>2, <3>1, NoMoreExchange DEF Kept
    <2> QED BY <2>1, <2>2
  <1> QED BY <1>3, <1>4, <1>5, <1>6, <1>7, <1>8, <1>9 DEF Kept


LEMMA KeepsUpdateAnalog ==
    ASSUME TypeInv, Kept, UpdateAnalog
    PROVE  Kept'
  <1>1. At("qm", "UpdateAnalog") /\ Continue("qm")
    BY DEF UpdateAnalog, Running
  <1>2. /\ QPops /\ SSame /\ GSame /\ QForm(todo["qm"])'
        /\ Q1 = <<"UpdateAnalog", Argument("qm")>> /\ Q1 \in Steps /\ Q1[1] = "UpdateAnalog"
        /\ Q1[2] = Argument("qm")
    BY <1>1, QContinues DEF Kept
  <1>3. /\ \A i \in {"INTERLOCK", "REGISTERING"} :
               i \in flags'["qm"] <=> i \in flags["qm"]
        /\ "INTERLOCK" \in flags'["sib"] <=> "INTERLOCK" \in flags["sib"]
        /\ "ENABLED" \in flags'["qm"] => "ENABLED" \in flags["qm"]
    BY <1>1, <1>2 DEF UpdateAnalog, irqVars, doorbellVars, cmeVars, sysVars, pgpeVars, TypeInv, CmeType, Cmes
  <1>4. /\ SameBits
        /\ "DB0" \in eisr'["qm"] <=> "DB0" \in eisr["qm"] /\ Q1[1] # "Db0Started"
    BY <1>2 DEF UpdateAnalog, irqVars, doorbellVars, cmeVars, sysVars, pgpeVars, SameBits
  <1>5. /\ ticks' = ticks /\ icrr' = icrr /\ db3' = db3 /\ db0' = db0
        /\ type4' = type4
        /\ registered' = registered /\ alive' = alive /\ mode' = mode
        /\ "qm" \in skipLock' => "qm" \in skipLock /\ Q1[1] # "EndDb3"
    BY <1>2 DEF UpdateAnalog, irqVars, doorbellVars, cmeVars, sysVars, pgpeVars
  <1>6. CalmStep
    BY <1>2, <1>3, <1>4, <1>5 DEF CalmStep, Calm, CalmKinds, Interlock
  <1>9. SamePgpe
    BY <1>2, <1>3, <1>5 DEF SamePgpe, Interlock
  <1> QED BY <1>2, <1>3, <1>5, <1>6, <1>9, CalmKept DEF AckKinds

LEMMA KeepsDb0Started ==
    ASSUME TypeInv, Kept, Db0Started
    PROVE  Kept'
  <1>1. At("qm", "Db0Started") /\ Continue("qm")
    BY DEF Db0Started, Running
  <1>2. /\ QPops /\ SSame /\ GSame /\ QForm(todo["qm"])'
        /\ Q1 = <<"Db0Started", Argument("qm")>> /\ Q1 \in Steps /\ Q1[1] = "Db0Started"
        /\ Q1[2] = Argument("qm")
    BY <1>1, QContinues DEF Kept
  <1>3. /\ \A i \in {"INTERLOCK", "REGISTERING"} :
               i \in flags'["qm"] <=> i \in flags["qm"]
        /\ "INTERLOCK" \in flags'["sib"] <=> "INTERLOCK" \in flags["sib"]
    BY <1>1, <1>2 DEF Db0Started, irqVars, doorbellVars, cmeVars, sysVars, pgpeVars, TypeInv, CmeType, Cmes
  <1>4. /\ SameBits
        /\ "DB0" \in eisr'["qm"] <=> "DB0" \in eisr["qm"] /\ Q1[1] # "Db0Started"
    BY <1>2 DEF Db0Started, Clearing, SameBits, TypeInv, IrqType, Cmes
  <1>5. /\ ticks' = ticks /\ icrr' = icrr /\ db3' = db3 /\ db0' = db0
        /\ type4' \notin {"none", "available"}
        /\ registered' = registered /\ alive' = alive /\ mode' = mode
        /\ "qm" \in skipLock' => "qm" \in skipLock /\ Q1[1] # "EndDb3"
    BY <1>2 DEF Db0Started, irqVars, doorbellVars, cmeVars, sysVars, pgpeVars, UpdateAck
  <1>6. CalmStep
    BY <1>2, <1>3, <1>4, <1>5 DEF CalmStep, Calm, CalmKinds, Interlock
  <1>9. SamePgpe
    BY <1>2, <1>3, <1>5 DEF SamePgpe, Interlock
  <1> QED BY <1>2, <1>3, <1>5, <1>6, <1>9, CalmKept DEF AckKinds

LEMMA KeepsAckUpdate ==
    ASSUME TypeInv, Kept, AckUpdate
    PROVE  Kept'
  <1>1. At("qm", "AckUpdate") /\ Continue("qm")
    BY DEF AckUpdate, Running
  <1>2. /\ QPops /\ SSame /\ GSame /\ QForm(todo["qm"])'
        /\ Q1 = <<"AckUpdate", Argument("qm")>> /\ Q1 \in Steps /\ Q1[1] = "AckUpdate"
        /\ Q1[2] = Argument("qm")
    BY <1>1, QContinues DEF Kept
  <1>3. /\ \A i \in {"INTERLOCK", "REGISTERING"} :
               i \in flags'["qm"] <=> i \in flags["qm"]
        /\ "INTERLOCK" \in flags'["sib"] <=> "INTERLOCK" \in flags["sib"]
    BY <1>1, <1>2 DEF AckUpdate, irqVars, doorbellVars, cmeVars, sysVars, pgpeVars, TypeInv, CmeType, Cmes
  <1>4. /\ SameBits
        /\ "DB0" \in eisr'["qm"] <=> "DB0" \in eisr["qm"] /\ Q1[1] # "Db0Started"
    BY <1>2 DEF AckUpdate, irqVars, doorbellVars, cmeVars, sysVars, pgpeVars, SameBits
  <1>5. /\ ticks' = ticks /\ icrr' = icrr /\ db3' = db3 /\ db0' = db0
        /\ type4' \notin {"none", "available"}
        /\ registered' = registered /\ alive' = alive /\ mode' = mode
        /\ "qm" \in skipLock' => "qm" \in skipLock /\ Q1[1] # "EndDb3"
    BY <1>2 DEF AckUpdate, irqVars, doorbellVars, cmeVars, sysVars, pgpeVars, UpdateAck
  <1>6. CalmStep
    BY <1>2, <1>3, <1>4, <1>5 DEF CalmStep, Calm, CalmKinds, Interlock
  <1>9. SamePgpe
    BY <1>2, <1>3, <1>5 DEF SamePgpe, Interlock
  <1> QED BY <1>2, <1>3, <1>5, <1>6, <1>9, CalmKept DEF AckKinds

LEMMA KeepsDb0Stop ==
    ASSUME TypeInv, Kept, Db0StopFlags
    PROVE  Kept'
  <1>1. At("qm", "Db0Stop") /\ Continue("qm")
    BY DEF Db0StopFlags, Running
  <1>2. /\ QPops /\ SSame /\ GSame /\ QForm(todo["qm"])'
        /\ Q1 = <<"Db0Stop", Argument("qm")>> /\ Q1 \in Steps /\ Q1[1] = "Db0Stop"
        /\ Q1[2] = Argument("qm")
    BY <1>1, QContinues DEF Kept
  <1>3. /\ \A i \in {"INTERLOCK", "REGISTERING"} :
               i \in flags'["qm"] <=> i \in flags["qm"]
        /\ "INTERLOCK" \in flags'["sib"] <=> "INTERLOCK" \in flags["sib"]
        /\ "ENABLED" \in flags'["qm"] => "ENABLED" \in flags["qm"]
    BY <1>1, <1>2 DEF Db0StopFlags, irqVars, doorbellVars, cmeVars, sysVars, pgpeVars, TypeInv, CmeType, Cmes
  <1>4. /\ SameBits
        /\ "DB0" \in eisr'["qm"] <=> "DB0" \in eisr["qm"] /\ Q1[1] # "Db0Started"
    BY <1>2 DEF Db0StopFlags, irqVars, doorbellVars, cmeVars, sysVars, pgpeVars, SameBits
  <1>5. /\ ticks' = ticks /\ icrr' = icrr /\ db3' = db3 /\ db0' = db0
        /\ type4' = type4
        /\ registered' = registered /\ alive' = alive /\ mode' = mode
        /\ "qm" \in skipLock' => "qm" \in skipLock /\ Q1[1] # "EndDb3"
    BY <1>2 DEF Db0StopFlags, irqVars, doorbellVars, cmeVars, sysVars, pgpeVars
  <1>6. CalmStep
    BY <1>2, <1>3, <1>4, <1>5 DEF CalmStep, Calm, CalmKinds, Interlock
  <1>9. SamePgpe
    BY <1>2, <1>3, <1>5 DEF SamePgpe, Interlock
  <1> QED BY <1>2, <1>3, <1>5, <1>6, <1>9, CalmKept DEF AckKinds

LEMMA KeepsSendAck ==
    ASSUME TypeInv, Kept, SendAckToPgpe
    PROVE  Kept'
  <1>1. At("qm", "SendAck") /\ Continue("qm")
    BY DEF SendAckToPgpe, Running
  <1>2. /\ QPops /\ SSame /\ GSame /\ QForm(todo["qm"])'
        /\ Q1 = <<"SendAck", Argument("qm")>> /\ Q1 \in Steps /\ Q1[1] = "SendAck"
        /\ Q1[2] = Argument("qm")
    BY <1>1, QContinues DEF Kept
  <1>3. /\ \A i \in {"INTERLOCK", "REGISTERING"} :
               i \in flags'["qm"] <=> i \in flags["qm"]
        /\ "INTERLOCK" \in flags'["sib"] <=> "INTERLOCK" \in flags["sib"]
    BY <1>1, <1>2 DEF SendAckToPgpe, irqVars, doorbellVars, cmeVars, sysVars, pgpeVars, TypeInv, CmeType, Cmes
  <1>4. /\ SameBits
        /\ "DB0" \in eisr'["qm"] <=> "DB0" \in eisr["qm"] /\ Q1[1] # "Db0Started"
    BY <1>2 DEF SendAckToPgpe, irqVars, doorbellVars, cmeVars, sysVars, pgpeVars, SameBits
  <1>8. type4' \in Acks
    BY <1>2, Arguments DEF SendAckToPgpe
  <1>5. /\ ticks' = ticks /\ icrr' = icrr /\ db3' = db3 /\ db0' = db0
        /\ type4' \notin {"none", "available"}
        /\ registered' = registered /\ alive' = alive /\ mode' = mode
        /\ "qm" \in skipLock' => "qm" \in skipLock /\ Q1[1] # "EndDb3"
    BY <1>8, <1>2 DEF SendAckToPgpe, irqVars, doorbellVars, cmeVars, sysVars, pgpeVars, Acks
  <1>6. CalmStep
    BY <1>2, <1>3, <1>4, <1>5 DEF CalmStep, Calm, CalmKinds, Interlock
  <1>9. SamePgpe
    BY <1>2, <1>3, <1>5 DEF SamePgpe, Interlock
  <1> QED BY <1>2, <1>3, <1>5, <1>6, <1>9, CalmKept DEF AckKinds

LEMMA KeepsSuspended ==
    ASSUME TypeInv, Kept, SuspendPstates("qm")
    PROVE  Kept'
  <1>1. At("qm", "Suspended") /\ Continue("qm")
    BY DEF SuspendPstates, Running
  <1>2. /\ QPops /\ SSame /\ GSame /\ QForm(todo["qm"])'
        /\ Q1 = <<"Suspended", Argument("qm")>> /\ Q1 \in Steps /\ Q1[1] = "Suspended"
        /\ Q1[2] = Argument("qm")
    BY <1>1, QContinues DEF Kept
  <1>7. Argument("qm") \in {"set", "clear"}
    BY <1>2, Arguments
  <1>3. /\ \A i \in {"INTERLOCK", "REGISTERING"} :
               i \in flags'["qm"] <=> i \in flags["qm"]
        /\ "INTERLOCK" \in flags'["sib"] <=> "INTERLOCK" \in flags["sib"]
        /\ "ENABLED" \in flags'["qm"] => "ENABLED" \in flags["qm"]
    BY <1>1, <1>2, <1>7 DEF SuspendPstates, irqVars, doorbellVars, cmeVars, sysVars, pgpeVars, SuspendedFlag, TypeInv, CmeType, Cmes
  <1>4. /\ SameBits
        /\ "DB0" \in eisr'["qm"] <=> "DB0" \in eisr["qm"] /\ Q1[1] # "Db0Started"
    BY <1>2 DEF SuspendPstates, irqVars, doorbellVars, cmeVars, sysVars, pgpeVars, SameBits
  <1>5. /\ ticks' = ticks /\ icrr' = icrr /\ db3' = db3 /\ db0' = db0
        /\ type4' = type4
        /\ registered' = registered /\ alive' = alive /\ mode' = mode
        /\ "qm" \in skipLock' => "qm" \in skipLock /\ Q1[1] # "EndDb3"
    BY <1>2 DEF SuspendPstates, irqVars, doorbellVars, cmeVars, sysVars, pgpeVars
  <1>6. CalmStep
    BY <1>2, <1>3, <1>4, <1>5 DEF CalmStep, Calm, CalmKinds, Interlock
  <1>9. SamePgpe
    BY <1>2, <1>3, <1>5 DEF SamePgpe, Interlock
  <1> QED BY <1>2, <1>3, <1>5, <1>6, <1>9, CalmKept DEF AckKinds

LEMMA KeepsRegistered ==
    ASSUME TypeInv, Kept, Registered
    PROVE  Kept'
  <1>1. At("qm", "Registered") /\ Continue("qm")
    BY DEF Registered, Running
  <1>2. /\ QPops /\ SSame /\ GSame /\ QForm(todo["qm"])'
        /\ Q1 = <<"Registered", Argument("qm")>> /\ Q1 \in Steps /\ Q1[1] = "Registered"
        /\ Q1[2] = Argument("qm")
    BY <1>1, QContinues DEF Kept
  <1>3. /\ \A i \in {"INTERLOCK", "REGISTERING"} :
               i \in flags'["qm"] <=> i \in flags["qm"] /\ ~(i = "REGISTERING" /\ Q1[1] = "Registered")
        /\ "INTERLOCK" \in flags'["sib"] <=> "INTERLOCK" \in flags["sib"]
        /\ "ENABLED" \in flags'["qm"] => "ENABLED" \in flags["qm"]
    BY <1>1, <1>2 DEF Registered, irqVars, doorbellVars, cmeVars, sysVars, pgpeVars, TypeInv, CmeType, Cmes
  <1>4. /\ SameBits
        /\ "DB0" \in eisr'["qm"] <=> "DB0" \in eisr["qm"] /\ Q1[1] # "Db0Started"
    BY <1>2 DEF Registered, irqVars, doorbellVars, cmeVars, sysVars, pgpeVars, SameBits
  <1>5. /\ ticks' = ticks /\ icrr' = icrr /\ db3' = db3 /\ db0' = db0
        /\ type4' = type4
        /\ registered' = registered /\ alive' = alive /\ mode' = mode
        /\ "qm" \in skipLock' => "qm" \in skipLock /\ Q1[1] # "EndDb3"
    BY <1>2 DEF Registered, irqVars, doorbellVars, cmeVars, sysVars, pgpeVars
  <1>6. CalmStep
    BY <1>2, <1>3, <1>4, <1>5 DEF CalmStep, Calm, CalmKinds, Interlock
  <1>9. SamePgpe
    BY <1>2, <1>3, <1>5 DEF SamePgpe, Interlock
  <1> QED BY <1>2, <1>3, <1>5, <1>6, <1>9, CalmKept DEF AckKinds

LEMMA KeepsEndDb0 ==
    ASSUME TypeInv, Kept, FinishDb0
    PROVE  Kept'
  <1>1. At("qm", "EndDb0") /\ Continue("qm")
    BY DEF FinishDb0, Running
  <1>2. /\ QPops /\ SSame /\ GSame /\ QForm(todo["qm"])'
        /\ Q1 = <<"EndDb0", Argument("qm")>> /\ Q1 \in Steps /\ Q1[1] = "EndDb0"
        /\ Q1[2] = Argument("qm")
    BY <1>1, QContinues DEF Kept
  <1>3. /\ \A i \in {"INTERLOCK", "REGISTERING"} :
               i \in flags'["qm"] <=> i \in flags["qm"]
        /\ "INTERLOCK" \in flags'["sib"] <=> "INTERLOCK" \in flags["sib"]
        /\ "ENABLED" \in flags'["qm"] => "ENABLED" \in flags["qm"]
    BY <1>1, <1>2 DEF FinishDb0, irqVars, doorbellVars, cmeVars, sysVars, pgpeVars, TypeInv, CmeType, Cmes
  <1>4. /\ SameBits
        /\ "DB0" \in eisr'["qm"] <=> "DB0" \in eisr["qm"] /\ Q1[1] # "Db0Started"
    BY <1>2 DEF FinishDb0, irqVars, doorbellVars, cmeVars, sysVars, pgpeVars, SameBits
  <1>5. /\ ticks' = ticks /\ icrr' = icrr /\ db3' = db3 /\ db0' = db0
        /\ type4' = type4
        /\ registered' = registered /\ alive' = alive /\ mode' = mode
        /\ "qm" \in skipLock' => "qm" \in skipLock /\ Q1[1] # "EndDb3"
    BY <1>2 DEF FinishDb0, irqVars, doorbellVars, cmeVars, sysVars, pgpeVars
  <1>6. CalmStep
    BY <1>2, <1>3, <1>4, <1>5 DEF CalmStep, Calm, CalmKinds, Interlock
  <1>9. SamePgpe
    BY <1>2, <1>3, <1>5 DEF SamePgpe, Interlock
  <1> QED BY <1>2, <1>3, <1>5, <1>6, <1>9, CalmKept DEF AckKinds

LEMMA KeepsEndDb3 ==
    ASSUME TypeInv, Kept, FinishDb3("qm")
    PROVE  Kept'
  <1>1. At("qm", "EndDb3") /\ Continue("qm")
    BY DEF FinishDb3, Running
  <1>2. /\ QPops /\ SSame /\ GSame /\ QForm(todo["qm"])'
        /\ Q1 = <<"EndDb3", Argument("qm")>> /\ Q1 \in Steps /\ Q1[1] = "EndDb3"
        /\ Q1[2] = Argument("qm")
    BY <1>1, QContinues DEF Kept
  <1>3. /\ \A i \in {"INTERLOCK", "REGISTERING"} :
               i \in flags'["qm"] <=> i \in flags["qm"]
        /\ "INTERLOCK" \in flags'["sib"] <=> "INTERLOCK" \in flags["sib"]
        /\ "ENABLED" \in flags'["qm"] => "ENABLED" \in flags["qm"]
    BY <1>1, <1>2 DEF FinishDb3, irqVars, doorbellVars, cmeVars, sysVars, pgpeVars, TypeInv, CmeType, Cmes
  <1>4. /\ SameBits
        /\ "DB0" \in eisr'["qm"] <=> "DB0" \in eisr["qm"] /\ Q1[1] # "Db0Started"
    BY <1>2 DEF FinishDb3, irqVars, doorbellVars, cmeVars, sysVars, pgpeVars, SameBits
  <1>5. /\ ticks' = ticks /\ icrr' = icrr /\ db3' = db3 /\ db0' = db0
        /\ type4' = type4
        /\ registered' = registered /\ alive' = alive /\ mode' = mode
        /\ "qm" \in skipLock' => "qm" \in skipLock /\ Q1[1] # "EndDb3"
    BY <1>2 DEF FinishDb3, irqVars, doorbellVars, cmeVars, sysVars, pgpeVars
  <1>6. CalmStep
    BY <1>2, <1>3, <1>4, <1>5 DEF CalmStep, Calm, CalmKinds, Interlock
  <1>9. SamePgpe
    BY <1>2, <1>3, <1>5 DEF SamePgpe, Interlock
  <1> QED BY <1>2, <1>3, <1>5, <1>6, <1>9, CalmKept DEF AckKinds

LEMMA KeepsReady ==
    ASSUME TypeInv, Kept, Ready("qm")
    PROVE  Kept'
  <1>1. At("qm", "Ready") /\ Continue("qm")
    BY DEF Ready, Running
  <1>2. /\ QPops /\ SSame /\ GSame /\ QForm(todo["qm"])'
        /\ Q1 = <<"Ready", Argument("qm")>> /\ Q1 \in Steps /\ Q1[1] = "Ready"
        /\ Q1[2] = Argument("qm")
    BY <1>1, QContinues DEF Kept
  <1>3. /\ \A i \in {"INTERLOCK", "REGISTERING"} :
               i \in flags'["qm"] <=> i \in flags["qm"]
        /\ "INTERLOCK" \in flags'["sib"] <=> "INTERLOCK" \in flags["sib"]
        /\ "ENABLED" \in flags'["qm"] => "ENABLED" \in flags["qm"]
    BY <1>1, <1>2 DEF Ready, irqVars, doorbellVars, cmeVars, sysVars, pgpeVars, TypeInv, CmeType, Cmes
  <1>4. /\ SameBits
        /\ "DB0" \in eisr'["qm"] <=> "DB0" \in eisr["qm"] /\ Q1[1] # "Db0Started"
    BY <1>2 DEF Ready, irqVars, doorbellVars, cmeVars, sysVars, pgpeVars, SameBits
  <1>5. /\ ticks' = ticks /\ icrr' = icrr /\ db3' = db3 /\ db0' = db0
        /\ type4' = type4
        /\ registered' = registered /\ alive' = alive /\ mode' = mode
        /\ "qm" \in skipLock' => "qm" \in skipLock /\ Q1[1] # "EndDb3"
    BY <1>2 DEF Ready, irqVars, doorbellVars, cmeVars, sysVars, pgpeVars
  <1>6. CalmStep
    BY <1>2, <1>3, <1>4, <1>5 DEF CalmStep, Calm, CalmKinds, Interlock
  <1>9. SamePgpe
    BY <1>2, <1>3, <1>5 DEF SamePgpe, Interlock
  <1> QED BY <1>2, <1>3, <1>5, <1>6, <1>9, CalmKept DEF AckKinds

LEMMA KeepsStore ==
    ASSUME TypeInv, Kept, StoreField("qm"), ~Is(Q3, "Raise", "IN2")
    PROVE  Kept'
  <1>1. At("qm", "Store") /\ Continue("qm")
    BY DEF StoreField, Running
  <1>2. /\ QPops /\ SSame /\ GSame /\ QForm(todo["qm"])'
        /\ Q1 = <<"Store", Argument("qm")>> /\ Q1 \in Steps /\ Q1[1] = "Store"
        /\ Q1[2] = Argument("qm")
    BY <1>1, QContinues DEF Kept
  <1>3. /\ \A i \in {"INTERLOCK", "REGISTERING"} :
               i \in flags'["qm"] <=> i \in flags["qm"]
        /\ "INTERLOCK" \in flags'["sib"] <=> "INTERLOCK" \in flags["sib"]
        /\ "ENABLED" \in flags'["qm"] => "ENABLED" \in flags["qm"]
    BY <1>1, <1>2 DEF StoreField, irqVars, doorbellVars, cmeVars, sysVars, pgpeVars, TypeInv, CmeType, Cmes
  <1>4. /\ SameBits
        /\ "DB0" \in eisr'["qm"] <=> "DB0" \in eisr["qm"] /\ Q1[1] # "Db0Started"
    BY <1>2 DEF StoreField, irqVars, doorbellVars, cmeVars, sysVars, pgpeVars, SameBits
  <1>5. /\ ticks' = ticks /\ icrr' = icrr /\ db3' = db3 /\ db0' = db0
        /\ type4' = type4
        /\ registered' = registered /\ alive' = alive /\ mode' = mode
        /\ "qm" \in skipLock' => "qm" \in skipLock /\ Q1[1] # "EndDb3"
    BY <1>2 DEF StoreField, irqVars, doorbellVars, cmeVars, sysVars, pgpeVars
  <1>6. CalmStep
    BY <1>2, <1>3, <1>4, <1>5 DEF CalmStep, Calm, CalmKinds, Interlock
  <1>9. SamePgpe
    BY <1>2, <1>3, <1>5 DEF SamePgpe, Interlock
  <1> QED BY <1>2, <1>3, <1>5, <1>6, <1>9, CalmKept DEF AckKinds

LEMMA KeepsPmsr ==
    ASSUME TypeInv, Kept, UpdatePmsr("qm"), ~Is(Q2, "Raise", "IN2")
    PROVE  Kept'
  <1>1. At("qm", "Pmsr") /\ Continue("qm")
    BY DEF UpdatePmsr, Running
  <1>2. /\ QPops /\ SSame /\ GSame /\ QForm(todo["qm"])'
        /\ Q1 = <<"Pmsr", Argument("qm")>> /\ Q1 \in Steps /\ Q1[1] = "Pmsr"
        /\ Q1[2] = Argument("qm")
    BY <1>1, QContinues DEF Kept
  <1>3. /\ \A i \in {"INTERLOCK", "REGISTERING"} :
               i \in flags'["qm"] <=> i \in flags["qm"]
        /\ "INTERLOCK" \in flags'["sib"] <=> "INTERLOCK" \in flags["sib"]
        /\ "ENABLED" \in flags'["qm"] => "ENABLED" \in flags["qm"]
    BY <1>1, <1>2 DEF UpdatePmsr, irqVars, doorbellVars, cmeVars, sysVars, pgpeVars, TypeInv, CmeType, Cmes
  <1>4. /\ SameBits
        /\ "DB0" \in eisr'["qm"] <=> "DB0" \in eisr["qm"] /\ Q1[1] # "Db0Started"
    BY <1>2 DEF UpdatePmsr, irqVars, doorbellVars, cmeVars, sysVars, pgpeVars, SameBits
  <1>5. /\ ticks' = ticks /\ icrr' = icrr /\ db3' = db3 /\ db0' = db0
        /\ type4' = type4
        /\ registered' = registered /\ alive' = alive /\ mode' = mode
        /\ "qm" \in skipLock' => "qm" \in skipLock /\ Q1[1] # "EndDb3"
    BY <1>2 DEF UpdatePmsr, irqVars, doorbellVars, cmeVars, sysVars, pgpeVars
  <1>6. CalmStep
    BY <1>2, <1>3, <1>4, <1>5 DEF CalmStep, Calm, CalmKinds, Interlock
  <1>9. SamePgpe
    BY <1>2, <1>3, <1>5 DEF SamePgpe, Interlock
  <1> QED BY <1>2, <1>3, <1>5, <1>6, <1>9, CalmKept DEF AckKinds

-----------------------------------------------------------------------------
(* Signals and messages of the quad manager.                               *)

LEMMA BitViews ==
    ASSUME TypeInv
    PROVE  /\ \A b \in Bits : eisr' = Raising("sib", b, eisr) =>
                  eisr'["sib"] = eisr["sib"] \union {b} /\ eisr'["qm"] = eisr["qm"]
           /\ \A b \in Bits : eisr' = Raising("qm", b, eisr) =>
                  eisr'["qm"] = eisr["qm"] \union {b} /\ eisr'["sib"] = eisr["sib"]
           /\ \A b \in Bits : eisr' = Clearing("qm", {b}, eisr) =>
                  eisr'["qm"] = eisr["qm"] \ {b} /\ eisr'["sib"] = eisr["sib"]
           /\ \A b \in Bits : eisr' = Clearing("sib", {b}, eisr) =>
                  eisr'["sib"] = eisr["sib"] \ {b} /\ eisr'["qm"] = eisr["qm"]
  BY DEF TypeInv, IrqType, Cmes, Raising, Clearing

(* What every step done keeps that is not an answer or of the registration.*)
LEMMA PopKept ==
    ASSUME TypeInv, Kept, QPops, SSame, SamePgpe, QForm(todo["qm"])', type4' = type4,
           Q1[1] \notin AckKinds, Q1[1] \notin {"Register", "RegisterDb0", "AwaitDb0"},
           Q1[1] = "ClearDb0" => "DB0" \notin eisr'["qm"],
           \A b \in {"DB0", "DB3", "HB"} : b \in eisr'["qm"] => b \in eisr["qm"],
           \A b \in {"DB3", "HB"} : b \in eisr'["sib"] => b \in eisr["sib"],
           "ENABLED" \in flags'["qm"] => "ENABLED" \in flags["qm"],
           "qm" \in skipLock' => "qm" \in skipLock, Q1[1] # "EndDb3"
    PROVE  Exchange' /\ Forms' /\ K1'
  <1>1. NoMoreDue
    BY PopIsQuiet DEF NoMoreDue, RegHead
  <1>2. Exchange'
    BY <1>1, NoMoreExchange DEF Kept
  <1>3. Forms'
    BY FormsKept DEF Kept, Forms, SamePgpe, SSame
  <1>4. K1'
    BY DEF Kept, Standstill, K1, QPops
  <1> QED BY <1>2, <1>3, <1>4

LEMMA SameFrame ==
    ASSUME GSame, UNCHANGED <<db0, db3, registered, alive, mode, flags>>
    PROVE  SamePgpe /\ Interlock' = Interlock
  BY DEF SamePgpe, Interlock

LEMMA QFormAt ==
    ASSUME NEW s \in Seq(Steps), QForm(s), Item(s, 1) # End
    PROVE  QNext(Item(s, 1), Item(s, 2), Item(s, 3))
  <1>1. Len(s) \in Nat /\ 1 \in 1 .. Len(s)
    BY DEF Item
  <1> QED BY <1>1 DEF QForm, Form, Follows, Item

LEMMA KeepsRaise ==
    ASSUME TypeInv, Kept, RaiseSignal("qm")
    PROVE  Kept'
  <1>1. At("qm", "Raise") /\ Continue("qm")
    BY DEF RaiseSignal, Running
  <1>2. /\ QPops /\ SSame /\ GSame /\ QForm(todo["qm"])'
        /\ Q1 = <<"Raise", Argument("qm")>> /\ Q1 \in Steps /\ Q1[1] = "Raise"
        /\ Q1[2] = Argument("qm")
    BY <1>1, QContinues DEF Kept
  <1>15. PICK x \in Signals : x = Argument("qm")
    BY <1>2, Heads DEF SignalKinds
  <1>0. Q1[1] = "Raise" /\ Q1[2] = x
    BY <1>2, <1>15
  <1>3. x \in Signals /\ x \in Bits /\ x \notin {"DB0", "DB3", "HB", "RECVD", "ACK"}
    BY DEF Signals, Bits
  <1>4. eisr'["sib"] = eisr["sib"] \union {x} /\ eisr'["qm"] = eisr["qm"]
    BY <1>15, <1>3, BitViews DEF RaiseSignal, Other
  <1>5. Q1'[1] \in AnswerKinds /\ Q1'[2] = x
    BY <1>0, <1>2 DEF QPops, QNext, QThen
  <1>6. UNCHANGED <<ticks, icrr, type4, db0, db3, registered, alive, mode, flags, skipLock>>
    BY DEF RaiseSignal, doorbellVars, cmeVars, sysVars, pgpeVars
  <1>7. SamePgpe /\ Interlock' = Interlock
    BY <1>2, <1>6, SameFrame
  <1>8. Exchange' /\ Forms' /\ K1'
    BY <1>2, <1>3, <1>4, <1>6, <1>7, PopKept DEF AckKinds
  <1>9. /\ \A y \in Signals : y \notin eisr["qm"]
        /\ \A y \in Signals : y \in eisr["sib"] => Is(S1, "ClearBit", y)
        /\ "ACK" \notin eisr["qm"]
        /\ "RECVD" \in eisr["sib"] => Is(S1, "ClearBit", "RECVD")
        /\ S1[1] \notin {"Answer", "SiblingDb0", "Suspended"}
    BY <1>2 DEF Kept, Lines, W1, W2, W3, W4, W5, Unanswered, Unacked, Awaits, Is, AnswerKinds
  <1>10. Lines'
    <2>1. S1' = S1
      BY <1>2, SamesViews
    <2>2. Unanswered(x)'
      BY <1>3, <1>4, <1>5, <1>9 DEF Unanswered, Awaits
    <2>3. W2'
      BY <1>4, <1>9, <2>1, <2>2 DEF W2
    <2> QED BY <1>3, <1>4, <1>9, <2>1, <2>3 DEF Lines, W1, W3, W4, W5
  <1>11. Ticks'
    BY <1>2, <1>4, <1>6, PopTicks DEF Kept
  <1>12. Boot'
    BY <1>2, <1>6, <1>7, PopBoot DEF Kept
  <1>13. Pairing'
    <2>1. ~QClipMid /\ ~QHbMid
      BY <1>0 DEF QClipMid, QHbMid, Answered2, Awaits, AnswerKinds
    <2>2. ASSUME NEW k \in Ks, QOpen(k) PROVE QOpen(k)'
      <3>1. x = "IN2" /\ QReasonOf(Q3) = k
        BY <1>0, <2>2 DEF QOpen, Is, Unanswered, Awaits, AnswerKinds
      <3>2. Unanswered("IN2")'
        BY <1>3, <1>4, <1>5, <1>9, <3>1 DEF Unanswered, Awaits
      <3>3. Q2' = Q3
        BY <1>2 DEF QPops
      <3> QED BY <3>1, <3>2, <3>3 DEF QOpen
    <2>3. \A b \in {"HB", "DB3"} : b \in eisr'["sib"] <=> b \in eisr["sib"]
      BY <1>3, <1>4
    <2> QED BY <1>2, <1>4, <1>6, <2>1, <2>2, <2>3, QmPairing DEF Kept
  <1>14. Standstill'
    BY <1>3, <1>4, <1>5, <1>9, <1>8, QmStandstill DEF AnswerKinds
  <1> QED BY <1>8, <1>10, <1>11, <1>12, <1>13, <1>14 DEF Kept

LEMMA KeepsAwaitAnswer ==
    ASSUME TypeInv, Kept, AwaitAnswer("qm")
    PROVE  Kept'
  <1>1. PICK k \in AnswerKinds : At("qm", k) /\ Continue("qm")
    BY DEF AwaitAnswer, Running, AnswerKinds
  <1>2. /\ QPops /\ SSame /\ GSame /\ QForm(todo["qm"])'
        /\ Q1 = <<k, Argument("qm")>> /\ Q1 \in Steps /\ Q1[1] = k
        /\ Q1[2] = Argument("qm")
    BY <1>1, QContinues DEF Kept
  <1>3. PICK x \in Signals : x = Argument("qm")
    BY <1>2, Heads DEF SignalKinds, AnswerKinds
  <1>0. Q1[1] \in AnswerKinds /\ Q1[2] = x
    BY <1>2, <1>3
  <1>4. x \in Signals /\ x \in Bits /\ x \notin {"DB0", "DB3", "HB", "RECVD", "ACK"}
    BY DEF Signals, Bits
  <1>5. x \in eisr["qm"] /\ eisr'["qm"] = eisr["qm"] \ {x} /\ eisr'["sib"] = eisr["sib"]
    BY <1>3, <1>4, BitViews DEF AwaitAnswer
  <1>6. UNCHANGED <<ticks, icrr, type4, db0, db3, registered, alive, mode, flags, skipLock>>
    BY DEF AwaitAnswer, doorbellVars, cmeVars, sysVars, pgpeVars
  <1>7. SamePgpe /\ Interlock' = Interlock
    BY <1>2, <1>6, SameFrame
  <1>8. Exchange' /\ Forms' /\ K1'
    BY <1>0, <1>2, <1>4, <1>5, <1>6, <1>7, PopKept DEF AckKinds, AnswerKinds
  <1>9. /\ \A y \in Signals : y \in eisr["qm"] => y = x
        /\ \A y \in Signals : y \in eisr["sib"] => Is(S1, "ClearBit", y)
        /\ "ACK" \notin eisr["qm"]
        /\ "RECVD" \in eisr["sib"] => Is(S1, "ClearBit", "RECVD")
        /\ S1[1] \notin {"Answer", "SiblingDb0", "Suspended"}
    BY <1>0, <1>5 DEF Kept, Lines, W1, W2, W3, W4, W5, Unanswered, Unacked, Awaits, Is, AnswerKinds
  <1>10. Lines'
    <2>1. S1' = S1
      BY <1>2, SamesViews
    <2>2. W1' /\ W2' /\ W3' /\ W4'
      BY <1>5, <1>9, <2>1 DEF W1, W2, W3, W4
    <2> QED BY <1>9, <2>1, <2>2 DEF Lines, W5
  <1>11. Ticks'
    BY <1>0, <1>2, <1>4, <1>5, <1>6, PopTicks DEF Kept, AnswerKinds
  <1>12. Boot'
    BY <1>0, <1>2, <1>6, <1>7, PopBoot DEF Kept, AnswerKinds
  <1>13. /\ Q1' = Q2 /\ Q2' = Q3 /\ QThen(Q1, Q2) /\ QWhence(Q1, Q2) /\ QClip(Q1, Q2, Q3)
    BY <1>2 DEF QPops, QNext
  <1>14. Pairing'
    <2>1. \A k2 \in Ks : ~QOpen(k2)
      BY <1>0, <1>5 DEF QOpen, Unanswered, Awaits, Is, AnswerKinds
    <2>2. ASSUME QClipMid PROVE QClipMid'
      <3>1. Q1[1] = "AwaitAnswer" /\ Q1[2] = "IN2" /\ Q2[1] = "Store"
        BY <1>0, <1>13, <2>2 DEF QClipMid, Answered2, Awaits, AnswerKinds, QThen
      <3>2. Q3[1] = "Pmsr"
        BY <1>13, <3>1 DEF QClip, In2
      <3>3. QClip(Q1, Q2, Q3)'
        <4>1. Q1' # End
          BY <1>13, <3>1, NoEnd
        <4>2. TodoType /\ "qm" \in Processes /\ At("qm", k) /\ Continue("qm")
          BY <1>1 DEF TypeInv, Processes
        <4>3. todo'["qm"] \in Seq(Steps)
          BY <4>2, ContinueTyped DEF TodoType
        <4> QED BY <1>2, <4>1, <4>3, QFormAt DEF QNext, Q1, Q2, Q3
      <3>4. Is(Q3, "Raise", "IN2")'
        BY <1>13, <3>1, <3>2, <3>3 DEF QClip, Is
      <3> QED BY <1>13, <3>1, <3>4 DEF QClipMid
    <2>3. QHbMid => QHbMid'
      BY <1>0, <1>13 DEF QHbMid, AnswerKinds
    <2>4. /\ \A b \in {"HB", "DB3"} : b \in eisr'["sib"] <=> b \in eisr["sib"]
          /\ "HB" \in eisr["qm"] => "HB" \in eisr'["qm"]
          /\ "DB3" \in eisr["qm"] => "DB3" \in eisr'["qm"]
      BY <1>4, <1>5
    <2> QED BY <1>2, <1>6, <2>1, <2>2, <2>3, <2>4, QmPairing DEF Kept
  <1>15. Standstill'
    <2>1. Q1'[1] \notin AnswerKinds \union {"AwaitMsgAck", "UpdateAnalog", "ReadDb0"}
      BY <1>0, <1>13 DEF QWhence, AnswerKinds
    <2>2. Q1'[1] = "ClearDb0" => Answered2 /\ Q2[1] = "ClearDb0"
      BY <1>0, <1>5, <1>13 DEF QWhence, Answered2, Awaits
    <2>3. Q1'[1] = "ToFsafe" => QHbMid
      BY <1>0, <1>5, <1>13 DEF QWhence, Answered2, Awaits, QHbMid
    <2>4. S1' = S1 /\ S2' = S2
      BY <1>2, SamesViews
    <2>5. Held' <=> Held
      BY <1>5, <2>4 DEF Held
    <2>6. ~Answered2' /\ ~Is(Q1', "AwaitMsgAck", "LOCK")
      BY <2>1 DEF Answered2, Awaits, Is
    <2>7. L1' /\ L2' /\ L3'
      BY <2>1, <2>6 DEF L1, L2, L3
    <2>8. L4'
      BY <2>1, <2>2, <2>5 DEF L4, L3, Kept, Standstill
    <2>9. L5'
      <3>1. QHbMid' => QHbMid
        BY <2>3, <2>6 DEF QHbMid
      <3>2. (SHbMid' <=> SHbMid)
            /\ (Is(S1, "AwaitSignal", "IN2")' <=> Is(S1, "AwaitSignal", "IN2"))
        BY <2>4 DEF SHbMid, Is
      <3> QED BY <1>5, <3>1, <3>2 DEF L5, Kept, Standstill
    <2> QED BY <1>8, <2>7, <2>8, <2>9 DEF Standstill
  <1> QED BY <1>8, <1>10, <1>11, <1>12, <1>14, <1>15 DEF Kept


LEMMA KeepsSend ==
    ASSUME TypeInv, Kept, Send
    PROVE  Kept'
  <1>1. At("qm", "Send") /\ Continue("qm")
    BY DEF Send, Running
  <1>2. /\ QPops /\ SSame /\ GSame /\ QForm(todo["qm"])'
        /\ Q1 = <<"Send", Argument("qm")>> /\ Q1 \in Steps /\ Q1[1] = "Send"
        /\ Q1[2] = Argument("qm")
    BY <1>1, QContinues DEF Kept
  <1>3. PICK m \in MTypes : m = Argument("qm")
    BY <1>2, Heads DEF MsgKinds
  <1>4. Q1[1] = "Send" /\ Q1[2] = m /\ Q1 = <<"Send", m>>
    BY <1>2, <1>3
  <1>5. eisr'["sib"] = eisr["sib"] \union {"RECVD"} /\ eisr'["qm"] = eisr["qm"]
    BY BitViews DEF Send, Bits
  <1>6. /\ UNCHANGED <<ticks, type4, db0, db3, registered, alive, mode, flags, skipLock>>
        /\ icrr'[1] = m
    BY <1>3 DEF Send, cmeVars, sysVars, pgpeVars
  <1>7. SamePgpe /\ Interlock' = Interlock
    BY <1>2, <1>6, SameFrame
  <1>8. Exchange' /\ Forms' /\ K1'
    BY <1>2, <1>4, <1>5, <1>6, <1>7, PopKept DEF AckKinds
  <1>9. Q1'[1] = "AwaitMsgAck" /\ Q1'[2] = m /\ Q1' = Q2 /\ RQ = {Q1} \union RQ'
    BY <1>2, <1>4 DEF QPops, QNext, QThen
  <1>10. /\ \A y \in Signals : y \notin eisr["qm"]
         /\ \A y \in Signals : y \in eisr["sib"] => Is(S1, "ClearBit", y)
         /\ "ACK" \notin eisr["qm"]
         /\ S1[1] \notin {"Answer", "SiblingDb0", "Suspended"}
    BY <1>4 DEF Kept, Lines, W1, W2, W3, W5, Unanswered, Unacked, Awaits, Is, AnswerKinds
  <1>11. Unacked(m)'
    BY <1>5, <1>9, <1>10 DEF Unacked, Is
  <1>12. Lines'
    <2>1. S1' = S1
      BY <1>2, SamesViews
    <2>2. W4'
      BY <1>6, <1>11 DEF W4
    <2>3. W1' /\ W2' /\ W3'
      BY <1>5, <1>10, <2>1 DEF W1, W2, W3, Signals
    <2> QED BY <1>10, <2>1, <2>2, <2>3 DEF Lines, W5
  <1>13. Ticks'
    BY <1>2, <1>4, <1>5, <1>6, PopTicks DEF Kept
  <1>14. Boot'
    <2>1. \A x : <<"Register", x>> # Q1 /\ <<"RegisterDb0", x>> # Q1
      BY <1>4
    <2>2. /\ HasReg' <=> HasReg
          /\ \A n \in 1 .. 3 : RegLeft(n)' <=> RegLeft(n)
      BY <1>9, <2>1 DEF HasReg, RegLeft
    <2>3. ASSUME NEW k \in MTypes PROVE SendDue(k)' <=> SendDue(k)
      <3>1. CASE k = m
        BY <1>4, <1>9, <1>11, <3>1 DEF SendDue
      <3>2. CASE k # m
        BY <1>4, <1>9, <3>2 DEF Unacked, Is, SendDue
      <3> QED BY <3>1, <3>2
    <2>4. ~Unacked("LOCK")
      BY <1>4 DEF Unacked, Is
    <2> QED BY <1>2, <1>6, <1>7, <2>2, <2>3, <2>4, QmBoot DEF Kept
  <1>15. Pairing'
    <2>1. ~QClipMid /\ ~QHbMid /\ \A k \in Ks : ~QOpen(k)
      BY <1>4 DEF QClipMid, QHbMid, Answered2, Awaits, AnswerKinds, QOpen, Unanswered, Is
    <2>2. \A b \in {"HB", "DB3"} : b \in eisr'["sib"] <=> b \in eisr["sib"]
      BY <1>5
    <2> QED BY <1>2, <1>5, <1>6, <2>1, <2>2, QmPairing DEF Kept
  <1>16. Standstill'
    BY <1>5, <1>8, <1>9, <1>10, QmStandstill DEF AnswerKinds
  <1> QED BY <1>8, <1>12, <1>13, <1>14, <1>15, <1>16 DEF Kept

LEMMA KeepsAwaitMsgAck ==
    ASSUME TypeInv, Kept, AwaitMsgAck
    PROVE  Kept'
  <1>1. At("qm", "AwaitMsgAck") /\ Continue("qm")
    BY DEF AwaitMsgAck, Running
  <1>2. /\ QPops /\ SSame /\ GSame /\ QForm(todo["qm"])'
        /\ Q1 = <<"AwaitMsgAck", Argument("qm")>> /\ Q1 \in Steps /\ Q1[1] = "AwaitMsgAck"
        /\ Q1[2] = Argument("qm")
    BY <1>1, QContinues DEF Kept
  <1>3. PICK m \in MTypes : m = Argument("qm")
    BY <1>2, Heads DEF MsgKinds
  <1>4. Q1[1] = "AwaitMsgAck" /\ Q1[2] = m
    BY <1>2, <1>3
  <1>5. "ACK" \in eisr["qm"] /\ eisr'["qm"] = eisr["qm"] \ {"ACK"} /\ eisr'["sib"] = eisr["sib"]
    BY BitViews DEF AwaitMsgAck, Bits
  <1>6. UNCHANGED <<ticks, icrr, type4, db0, db3, registered, alive, mode, flags, skipLock>>
    BY DEF AwaitMsgAck, doorbellVars, cmeVars, sysVars, pgpeVars
  <1>7. SamePgpe /\ Interlock' = Interlock
    BY <1>2, <1>6, SameFrame
  <1>8. Exchange' /\ Forms' /\ K1'
    BY <1>2, <1>4, <1>5, <1>6, <1>7, PopKept DEF AckKinds
  <1>9. /\ Q1' = Q2 /\ QWhence(Q1, Q2) /\ RQ = {Q1} \union RQ'
        /\ \A y \in RQ' : QAfter(Q1, y)
    BY <1>2 DEF QPops, QNext
  <1>10. /\ \A y \in Signals : y \notin eisr["qm"]
         /\ \A y \in Signals : y \in eisr["sib"] => Is(S1, "ClearBit", y)
         /\ "RECVD" \in eisr["sib"] => Is(S1, "ClearBit", "RECVD")
         /\ S1[1] \notin {"Answer", "SiblingDb0", "Suspended"}
    BY <1>4, <1>5 DEF Kept, Lines, W1, W2, W4, W5, Unanswered, Unacked, Awaits, Is, AnswerKinds
  <1>11. Lines'
    <2>1. S1' = S1
      BY <1>2, SamesViews
    <2>2. W1' /\ W2' /\ W3' /\ W4'
      BY <1>5, <1>10, <2>1 DEF W1, W2, W3, W4
    <2> QED BY <1>10, <2>1, <2>2 DEF Lines, W5
  <1>12. Ticks'
    BY <1>2, <1>4, <1>5, <1>6, PopTicks DEF Kept
  <1>13. Boot'
    <2>1. \A x : <<"Register", x>> # Q1 /\ <<"RegisterDb0", x>> # Q1 /\ <<"Send", x>> # Q1
      BY <1>4
    <2>2. /\ HasReg' <=> HasReg
          /\ \A n \in 1 .. 3 : RegLeft(n)' <=> RegLeft(n)
          /\ \A k \in MTypes : <<"Send", k>> \in RQ' <=> <<"Send", k>> \in RQ
      BY <1>9, <2>1 DEF HasReg, RegLeft
    <2>3. Q1'[1] # "AwaitMsgAck"
      BY <1>4, <1>9 DEF QWhence
    <2>4. \A k \in MTypes : ~Unacked(k) /\ ~Unacked(k)'
      BY <1>5, <2>3 DEF Unacked, Is
    <2>5. \A k \in MTypes : SendDue(k)' <=> SendDue(k)
      BY <2>2, <2>4 DEF SendDue
    <2> QED BY <1>2, <1>6, <1>7, <2>2, <2>4, <2>5, QmBoot DEF Kept, MTypes
  <1>14. Pairing'
    <2>1. ~QClipMid /\ ~QHbMid /\ \A k \in Ks : ~QOpen(k)
      BY <1>4 DEF QClipMid, QHbMid, Answered2, Awaits, AnswerKinds, QOpen, Unanswered, Is
    <2>2. /\ \A b \in {"HB", "DB3"} : b \in eisr'["sib"] <=> b \in eisr["sib"]
          /\ "HB" \in eisr["qm"] => "HB" \in eisr'["qm"]
          /\ "DB3" \in eisr["qm"] => "DB3" \in eisr'["qm"]
      BY <1>5
    <2> QED BY <1>2, <1>6, <2>1, <2>2, QmPairing DEF Kept
  <1>15. Standstill'
    <2>1. Q1'[1] \notin AnswerKinds \union {"AwaitMsgAck", "ClearDb0", "ReadDb0", "ToFsafe"}
      BY <1>4, <1>9 DEF QWhence, AnswerKinds
    <2>2. Q1'[1] = "UpdateAnalog" => Held
      BY <1>4, <1>5, <1>9 DEF QWhence, Is, L1, Kept, Standstill
    <2>3. S1' = S1 /\ S2' = S2
      BY <1>2, SamesViews
    <2>4. Held' <=> Held
      BY <1>5, <2>3 DEF Held
    <2>5. ~Answered2'
      BY <2>1 DEF Answered2, Awaits
    <2> QED BY <1>8, <2>1, <2>2, <2>4, <2>5
            DEF Standstill, L1, L2, L3, L4, L5, QHbMid, Is
  <1> QED BY <1>8, <1>11, <1>12, <1>13, <1>14, <1>15 DEF Kept

LEMMA KeepsClearDb0 ==
    ASSUME TypeInv, Kept, ClearDb0
    PROVE  Kept'
  <1>1. At("qm", "ClearDb0") /\ Continue("qm")
    BY DEF ClearDb0, Running
  <1>2. /\ QPops /\ SSame /\ GSame /\ QForm(todo["qm"])'
        /\ Q1 = <<"ClearDb0", Argument("qm")>> /\ Q1 \in Steps /\ Q1[1] = "ClearDb0"
        /\ Q1[2] = Argument("qm")
    BY <1>1, QContinues DEF Kept
  <1>3. Q1[1] = "ClearDb0"
    BY <1>2
  <1>4. eisr'["qm"] = eisr["qm"] \ {"DB0"} /\ eisr'["sib"] = eisr["sib"]
    BY BitViews DEF ClearDb0, Bits
  <1>5. /\ UNCHANGED <<icrr, type4, db0, db3, registered, alive, mode, flags, skipLock>>
        /\ ticks' = [ticks EXCEPT !["DB0"] = 0]
    BY DEF ClearDb0, doorbellVars, sysVars, pgpeVars
  <1>6. SamePgpe /\ Interlock' = Interlock
    BY <1>2, <1>5, SameFrame
  <1>7. Exchange' /\ Forms' /\ K1'
    BY <1>2, <1>3, <1>4, <1>5, <1>6, PopKept DEF AckKinds
  <1>8. SameBits
    BY <1>4 DEF SameBits
  <1>9. Lines'
    BY <1>2, <1>3, <1>5, <1>8, QuietLines DEF AnswerKinds, Kept
  <1>10. Ticks'
    BY <1>5, <1>2, <1>4, QmTicks DEF TypeInv, IrqType, Kept
  <1>11. Boot'
    BY <1>2, <1>3, <1>5, <1>6, PopBoot DEF Kept
  <1>12. Pairing'
    <2>1. ~QClipMid /\ ~QHbMid /\ \A k \in Ks : ~QOpen(k)
      BY <1>3 DEF QClipMid, QHbMid, Answered2, Awaits, AnswerKinds, QOpen, Unanswered, Is
    <2>2. /\ \A b \in {"HB", "DB3"} : b \in eisr'["sib"] <=> b \in eisr["sib"]
          /\ "HB" \in eisr["qm"] => "HB" \in eisr'["qm"]
          /\ "DB3" \in eisr["qm"] => "DB3" \in eisr'["qm"]
      BY <1>4
    <2> QED BY <1>2, <1>5, <2>1, <2>2, QmPairing DEF Kept
  <1>13. Standstill'
    <2>1. Q1'[1] = "ReadDb0"
      BY <1>2, <1>3 DEF QPops, QNext, QThen
    <2>2. S1' = S1 /\ S2' = S2
      BY <1>2, SamesViews
    <2>3. Held' <=> Held
      BY <1>4, <2>2 DEF Held
    <2>4. L4'
      BY <1>3, <1>5, <2>3 DEF Kept, Standstill, L4
    <2>5. ~Answered2'
      BY <2>1 DEF Answered2, Awaits, AnswerKinds
    <2> QED BY <1>7, <2>1, <2>4, <2>5
            DEF Standstill, L1, L2, L3, L5, QHbMid, Is
  <1> QED BY <1>7, <1>9, <1>10, <1>11, <1>12, <1>13 DEF Kept


(* In the middle of the exchange in IN2: the second signal comes next.     *)
LEMMA MidKept ==
    ASSUME TypeInv, Kept, QPops, SSame, SamePgpe, QForm(todo["qm"])', type4' = type4,
           UNCHANGED <<ticks, icrr, skipLock>>, eisr' = eisr,
           Interlock' = Interlock,
           "ENABLED" \in flags'["qm"] => "ENABLED" \in flags["qm"],
           "REGISTERING" \in flags["qm"] => "REGISTERING" \in flags'["qm"],
           \/ Q1[1] = "Store" /\ Is(Q3, "Raise", "IN2")
           \/ Q1[1] \in {"Pmsr", "ToFsafe"} /\ Is(Q2, "Raise", "IN2"),
           todo'["qm"] \in Seq(Steps)
    PROVE  Kept'
  <1>1. Q1[1] \in {"Store", "Pmsr", "ToFsafe"}
    OBVIOUS
  <1>2. Exchange' /\ Forms' /\ K1'
    BY <1>1, PopKept DEF AckKinds
  <1>3. SameBits
    BY DEF SameBits
  <1>4. Lines'
    BY <1>1, <1>3, QuietLines DEF AnswerKinds, Kept
  <1>5. Ticks'
    BY <1>1, PopTicks DEF Kept
  <1>6. Boot'
    BY <1>1, PopBoot DEF Kept
  <1>7. /\ Q1' = Q2 /\ Q2' = Q3 /\ QThen(Q1, Q2)
        /\ \A y \in RQ' : QAfter(Q1, y)
    BY DEF QPops, QNext
  <1>8. Q1' # End => QNext(Q1', Q2', Q3')
    BY QFormAt DEF Q1, Q2, Q3
  <1>9. ASSUME Q1[1] = "Store" /\ Is(Q3, "Raise", "IN2")
        PROVE  QClipMid' /\ Q1'[1] = "Pmsr"
    <2>1. Q2[1] \in {"Pmsr", "Send"}
      BY <1>7, <1>9 DEF QThen
    <2>2. Q2[1] # "Send"
      <3>1. Q2[1] = "Send" => Q1' # End
        BY <1>7, NoEnd
      <3>2. Q2[1] = "Send" => Q3[1] = "AwaitMsgAck"
        BY <1>7, <1>8, <3>1 DEF QNext, QThen
      <3> QED BY <1>9, <3>2 DEF Is
    <2> QED BY <1>7, <1>9, <2>1, <2>2 DEF QClipMid
  <1>10. ASSUME Q1[1] \in {"Pmsr", "ToFsafe"} /\ Is(Q2, "Raise", "IN2")
         PROVE  QOpen("last")' /\ Q1'[1] = "Raise"
    <2>1. Q3' \in RQ' \union {End}
      BY ItemsOf DEF Q3, RQ
    <2>2. Q3'[1] \notin Openers
      BY <1>7, <1>10, <2>1, NoEnd DEF QAfter, Openers
    <2>3. QReasonOf(Q3') = "last"
      BY <2>2 DEF QReasonOf, Openers
    <2> QED BY <1>7, <1>10, <2>3 DEF QOpen, Is
  <1>11. Pairing'
    <2>1. \A k \in Ks : ~QOpen(k)
      BY <1>1 DEF AnswerKinds, Awaits, QOpen, Unanswered, Is
    <2>2. QClipMid => QClipMid' \/ QOpen("last")'
      BY <1>9, <1>10
    <2>3. QHbMid => QHbMid' \/ QOpen("last")'
      BY <1>1, <1>9, <1>10 DEF QHbMid, Answered2, Awaits, AnswerKinds
    <2> QED BY <2>1, <2>2, <2>3, QmPairing DEF Kept, SamePgpe
  <1>12. Standstill'
    BY <1>2, <1>9, <1>10, QmStandstill DEF AnswerKinds
  <1> QED BY <1>2, <1>4, <1>5, <1>6, <1>11, <1>12 DEF Kept

LEMMA QmTodo ==
    ASSUME TypeInv, NEW k, At("qm", k), Continue("qm")
    PROVE  todo'["qm"] \in Seq(Steps)
  <1>1. TodoType /\ "qm" \in Processes
    BY DEF TypeInv, Processes
  <1> QED BY <1>1, ContinueTyped DEF TodoType

LEMMA KeepsStoreField ==
    ASSUME TypeInv, Kept, StoreField("qm")
    PROVE  Kept'
  <1>1. At("qm", "Store") /\ Continue("qm")
    BY DEF StoreField, Running
  <1>2. /\ QPops /\ SSame /\ GSame /\ QForm(todo["qm"])'
        /\ Q1[1] = "Store" /\ todo'["qm"] \in Seq(Steps)
    BY <1>1, QContinues, QmTodo DEF Kept
  <1>3. CASE Is(Q3, "Raise", "IN2")
    <2>1. UNCHANGED <<ticks, icrr, type4, db0, db3, registered, alive, mode, flags,
                      skipLock, eisr>>
      BY DEF StoreField, irqVars, doorbellVars, sysVars, pgpeVars
    <2>2. SamePgpe /\ Interlock' = Interlock
      BY <1>2, <2>1, SameFrame
    <2> QED BY <1>2, <1>3, <2>1, <2>2, MidKept
  <1>4. CASE ~Is(Q3, "Raise", "IN2")
    BY <1>4, KeepsStore
  <1> QED BY <1>3, <1>4

LEMMA KeepsUpdatePmsr ==
    ASSUME TypeInv, Kept, UpdatePmsr("qm")
    PROVE  Kept'
  <1>1. At("qm", "Pmsr") /\ Continue("qm")
    BY DEF UpdatePmsr, Running
  <1>2. /\ QPops /\ SSame /\ GSame /\ QForm(todo["qm"])'
        /\ Q1[1] = "Pmsr" /\ todo'["qm"] \in Seq(Steps)
    BY <1>1, QContinues, QmTodo DEF Kept
  <1>3. CASE Is(Q2, "Raise", "IN2")
    <2>1. UNCHANGED <<ticks, icrr, type4, db0, db3, registered, alive, mode, flags,
                      skipLock, eisr>>
      BY DEF UpdatePmsr, irqVars, doorbellVars, sysVars, pgpeVars
    <2>2. SamePgpe /\ Interlock' = Interlock
      BY <1>2, <2>1, SameFrame
    <2> QED BY <1>2, <1>3, <2>1, <2>2, MidKept
  <1>4. CASE ~Is(Q2, "Raise", "IN2")
    BY <1>4, KeepsPmsr
  <1> QED BY <1>3, <1>4

LEMMA KeepsToFsafe ==
    ASSUME TypeInv, Kept, ToFsafe("qm")
    PROVE  Kept'
  <1>1. At("qm", "ToFsafe") /\ Continue("qm")
    BY DEF ToFsafe, Running
  <1>2. /\ QPops /\ SSame /\ GSame /\ QForm(todo["qm"])'
        /\ Q1[1] = "ToFsafe" /\ todo'["qm"] \in Seq(Steps)
    BY <1>1, QContinues, QmTodo DEF Kept
  <1>3. Is(Q2, "Raise", "IN2")
    BY <1>2 DEF QPops, QNext, QThen, Is
  <1>4. /\ UNCHANGED <<ticks, icrr, type4, db0, db3, registered, alive, mode,
                       skipLock, eisr>>
        /\ "INTERLOCK" \in flags'["qm"] <=> "INTERLOCK" \in flags["qm"]
        /\ "INTERLOCK" \in flags'["sib"] <=> "INTERLOCK" \in flags["sib"]
        /\ "ENABLED" \notin flags'["qm"]
        /\ "REGISTERING" \in flags["qm"] => "REGISTERING" \in flags'["qm"]
    BY DEF ToFsafe, irqVars, doorbellVars, sysVars, pgpeVars, TypeInv, CmeType, Cmes
  <1>5. SamePgpe /\ Interlock' = Interlock
    BY <1>2, <1>4 DEF SamePgpe, Interlock
  <1> QED BY <1>2, <1>3, <1>4, <1>5, MidKept


LEMMA KeepsAwaitDb0 ==
    ASSUME TypeInv, Kept, AwaitDb0
    PROVE  Kept'
  <1>1. At("qm", "AwaitDb0") /\ Continue("qm")
    BY DEF AwaitDb0, Running
  <1>2. /\ QPops /\ SSame /\ GSame /\ QForm(todo["qm"])'
        /\ Q1 \in Steps /\ Q1[1] = "AwaitDb0" /\ todo'["qm"] \in Seq(Steps)
    BY <1>1, QContinues, QmTodo DEF Kept
  <1>3. PICK n \in 1 .. 3 : n = Q1[2]
    BY <1>2, Arguments DEF RegisterKinds
  <1>4. /\ "DB0" \in eisr["qm"] /\ eisr'["qm"] = eisr["qm"] \ {"DB0"}
        /\ eisr'["sib"] = eisr["sib"]
    BY BitViews DEF AwaitDb0, Bits
  <1>5. UNCHANGED <<ticks, icrr, type4, db0, db3, registered, alive, mode, flags, skipLock>>
    BY DEF AwaitDb0, doorbellVars, cmeVars, sysVars, pgpeVars
  <1>6. SamePgpe /\ Interlock' = Interlock
    BY <1>2, <1>5, SameFrame
  <1>7. /\ Q1' = Q2 /\ Q2[1] = "RegisterDb0" /\ Q2[2] = n
        /\ RQ = {Q1} \union RQ' /\ \A y \in RQ' : QAfter(Q1, y)
    BY <1>2, <1>3 DEF QPops, QNext, QThen
  <1>8. RegLeft(n)' /\ RegLeft(n)
    <2>1. Q1' \in Steps \union {End} /\ Q1' \in RQ' \union {End}
      BY <1>2, ItemsOf DEF Q1, RQ
    <2>2. Q1' \in Steps /\ Q1' \in RQ'
      BY <1>7, <2>1, NoEnd
    <2>3. Q1' = <<"RegisterDb0", n>>
      BY <1>7, <2>2, StepIsPair
    <2> QED BY <1>7, <2>2, <2>3 DEF RegLeft
  <1>9. /\ HasReg' <=> HasReg
        /\ \A i \in 1 .. 3 : RegLeft(i)' <=> RegLeft(i)
        /\ \A k \in MTypes : <<"Send", k>> \in RQ' <=> <<"Send", k>> \in RQ
        /\ ~HasReg
        /\ <<"ClearDb0", "">> \in RQ => <<"ClearDb0", "">> \in RQ'
        /\ <<"Db0Started", "">> \in RQ => <<"Db0Started", "">> \in RQ'
    <2>1. \A x : <<"Register", x>> # Q1 /\ <<"RegisterDb0", x>> # Q1 /\ <<"Send", x>> # Q1
                 /\ <<"ClearDb0", x>> # Q1 /\ <<"Db0Started", x>> # Q1
      BY <1>2
    <2>2. \A x : <<"Register", x>> \notin RQ'
      BY <1>2, <1>7 DEF QAfter, Prelude
    <2> QED BY <1>7, <2>1, <2>2 DEF HasReg, RegLeft
  <1>10. RegDue' /\ RegDue /\ (AckDue' => AckDue) /\ (In2Due' => In2Due /\ (AckDue => AckDue'))
    <2>1. RegDue' /\ RegDue
      BY <1>8 DEF RegDue
    <2>2. Q1[1] \notin AckKinds /\ ~In2(Q1)
      BY <1>2 DEF AckKinds, In2
    <2> QED BY <1>7, <2>1, <2>2 DEF AckDue, In2Due
  <1>11. RegHead' => Db0Due
    BY <1>4, <1>5, <1>9 DEF RegHead, Db0Due, Msg0
  <1>12. Exchange'
    <2>1. NoMoreDue
      BY <1>4, <1>5, <1>9, <1>10, <1>11 DEF NoMoreDue
    <2> QED BY <1>5, <1>6, <2>1, NoMoreExchange DEF Kept
  <1>13. Forms' /\ K1'
    BY <1>2, <1>5, <1>6, FormsKept DEF Kept, Forms, SamePgpe, SSame, Standstill, K1, QPops
  <1>14. SameBits
    BY <1>4 DEF SameBits
  <1>15. Lines'
    BY <1>2, <1>5, <1>14, QuietLines DEF AnswerKinds, Kept
  <1>16. Ticks'
    BY <1>10, <1>2, <1>4, <1>5, PopTicks DEF Kept, Ticks, T1
  <1>17. Boot'
    BY <1>2, <1>5, <1>6, PopBoot DEF Kept
  <1>18. Pairing'
    <2>1. ~QClipMid /\ ~QHbMid /\ \A k \in Ks : ~QOpen(k)
      BY <1>2 DEF QClipMid, QHbMid, Answered2, Awaits, AnswerKinds, QOpen, Unanswered, Is
    <2>2. /\ \A b \in {"HB", "DB3"} : b \in eisr'["sib"] <=> b \in eisr["sib"]
          /\ "HB" \in eisr["qm"] => "HB" \in eisr'["qm"]
          /\ "DB3" \in eisr["qm"] => "DB3" \in eisr'["qm"]
      BY <1>4
    <2> QED BY <1>2, <1>5, <2>1, <2>2, QmPairing DEF Kept
  <1>19. Standstill'
    BY <1>7, <1>13, QmStandstill DEF AnswerKinds
  <1> QED BY <1>12, <1>13, <1>15, <1>16, <1>17, <1>18, <1>19 DEF Kept

-----------------------------------------------------------------------------
(* Scripts of the quad manager.                                            *)

LEMMA QCons ==
    ASSUME NEW x \in Steps, NEW s \in Seq(Steps), QForm(s),
           QNext(x, Item(s, 1), Item(s, 2)), \A y \in StepsOf(s) : QAfter(x, y)
    PROVE  /\ Cons(x, s) \in Seq(Steps) /\ QForm(Cons(x, s))
           /\ Item(Cons(x, s), 1) = x /\ Item(Cons(x, s), 2) = Item(s, 1)
           /\ Item(Cons(x, s), 3) = Item(s, 2)
           /\ StepsOf(Cons(x, s)) = {x} \union StepsOf(s)
  <1>1. \A i \in Nat \ {0} : Item(Cons(x, s), i + 1) = Item(s, i)
    BY ConsItems
  <1>2. Item(Cons(x, s), 2) = Item(s, 1) /\ Item(Cons(x, s), 3) = Item(s, 2)
    BY <1>1
  <1> DEFINE p == "qm"
  <1>3. /\ p \in Processes /\ TRUE \in BOOLEAN /\ Form(p, s, TRUE, TRUE)
        /\ Follows(p, x, Item(s, 1), Item(s, 2), TRUE, TRUE)
        /\ \A y \in StepsOf(s) : After(p, x, y)
    BY DEF QForm, Follows, After, Processes
  <1> HIDE DEF p
  <1>4. Form(p, Cons(x, s), TRUE, TRUE)
    BY <1>3, FormCons
  <1> QED BY <1>2, <1>4, ConsItems DEF p, QForm

LEMMA QRest ==
    ASSUME TypeInv, Forms, NEW k, At("qm", k)
    PROVE  \E R \in Seq(Steps) :
               /\ R = Tail(todo["qm"])
               /\ QForm(R) /\ Item(R, 1) = Q2 /\ Item(R, 2) = Q3
               /\ RQ = {Q1} \union StepsOf(R)
               /\ QNext(Q1, Q2, Q3) /\ \A y \in StepsOf(R) : QAfter(Q1, y)
               /\ Q1 \in Steps /\ Q1[1] = k /\ Q1[2] = Argument("qm")
  <1> DEFINE p == "qm"
             R == Tail(todo["qm"])
  <1>1. TodoType /\ p \in Processes /\ Form(p, todo[p], TRUE, TRUE) /\ TRUE \in BOOLEAN
    BY DEF TypeInv, Forms, QForm, Processes
  <1>2. At(p, k) /\ R = Tail(todo[p])
    OBVIOUS
  <1> HIDE DEF p, R
  <1>3. /\ todo[p] # <<>> /\ todo[p] \in Seq(Steps) /\ R \in Seq(Steps)
    BY <1>1, <1>2, CurrentStep
  <1>5. /\ Form(p, R, TRUE, TRUE)
        /\ Follows(p, Item(todo[p], 1), Item(todo[p], 2), Item(todo[p], 3), TRUE, TRUE)
        /\ \A y \in StepsOf(R) : After(p, Item(todo[p], 1), y)
    BY <1>1, <1>2, <1>3, FormTail
  <1>6. /\ Item(R, 1) = Item(todo[p], 2) /\ Item(R, 2) = Item(todo[p], 3)
        /\ StepsOf(todo[p]) = {Item(todo[p], 1)} \union StepsOf(R)
    <2>1. /\ \A i \in Nat \ {0} : Item(R, i) = Item(todo[p], i + 1)
          /\ StepsOf(todo[p]) = {Item(todo[p], 1)} \union StepsOf(R)
      BY <1>2, <1>3, TailItems
    <2>2. 1 \in Nat \ {0} /\ 2 \in Nat \ {0} /\ 1 + 1 = 2 /\ 2 + 1 = 3
      OBVIOUS
    <2> QED BY <2>1, <2>2
  <1>7. Item(todo[p], 1) \in Steps /\ Item(todo[p], 1)[1] = k /\ Item(todo[p], 1)[2] = Argument(p)
    BY <1>1, <1>2, HeadOf
  <1>9. QNext(Q1, Q2, Q3) /\ \A y \in StepsOf(R) : QAfter(Q1, y)
    BY <1>5 DEF p, Follows, After, Q1, Q2, Q3
  <1> QED BY <1>3, <1>5, <1>6, <1>7, <1>9 DEF p, R, QForm, Q1, Q2, Q3, RQ

LEMMA QThens ==
    ASSUME TypeInv, Forms, NEW k, At("qm", k), NEW more \in Seq(Steps), Then("qm", more)
    PROVE  \E R \in Seq(Steps) :
               /\ todo'["qm"] = more \o R /\ R = Tail(todo["qm"])
               /\ QForm(R) /\ Item(R, 1) = Q2 /\ Item(R, 2) = Q3
               /\ RQ = {Q1} \union StepsOf(R)
               /\ QNext(Q1, Q2, Q3) /\ \A y \in StepsOf(R) : QAfter(Q1, y)
               /\ SSame /\ GSame
               /\ Q1 \in Steps /\ Q1[1] = k /\ Q1[2] = Argument("qm")
  <1>1. PICK R \in Seq(Steps) :
               /\ R = Tail(todo["qm"])
               /\ QForm(R) /\ Item(R, 1) = Q2 /\ Item(R, 2) = Q3
               /\ RQ = {Q1} \union StepsOf(R)
               /\ QNext(Q1, Q2, Q3) /\ \A y \in StepsOf(R) : QAfter(Q1, y)
               /\ Q1 \in Steps /\ Q1[1] = k /\ Q1[2] = Argument("qm")
    BY QRest
  <1>2. TodoType /\ "qm" \in Processes
    BY DEF TypeInv, Processes
  <1>3. /\ todo'["qm"] = more \o Tail(todo["qm"])
        /\ \A o \in Processes \ {"qm"} : todo'[o] = todo[o]
    BY <1>2, ThenSteps
  <1>4. SSame /\ GSame
    BY <1>3 DEF Processes, SSame, GSame
  <1> QED BY <1>1, <1>3, <1>4


(* The steps of a handler of doorbell 0 and what may come after them.      *)
TailStep(y) == \/ y[1] \in {"EndDb0", "EndDb3", "Registered", "AwaitDb0", "RegisterDb0",
                            "Ready"}
               \/ y[1] \in {"Send", "AwaitMsgAck"} /\ y[2] = "SYNC"
HandStep(y) ==
    \/ y[1] \in {"Store", "UpdateAnalog", "Pmsr", "NotifySibling", "Db0Started",
                 "AckUpdate", "SendAck", "Db0Stop", "Suspended"}
    \/ y[1] \in {"Send", "AwaitMsgAck"} /\ y[2] = "LOCK"
    \/ y[1] \in {"Raise", "AwaitAnswer"} /\ y[2] = "IN0"
Ends(R) == /\ QForm(R) /\ \A y \in StepsOf(R) : TailStep(y)
           /\ Item(R, 1)[1] \in {"EndDb0", "EndDb3", "Registered", "AwaitDb0"}
Handles(s, R) == /\ QForm(s) /\ \A y \in StepsOf(s) : HandStep(y) \/ y \in StepsOf(R)
                 /\ StepsOf(R) \subseteq StepsOf(s)

LEMMA ConsHandles ==
    ASSUME NEW x \in Steps, NEW s \in Seq(Steps), NEW R \in Seq(Steps), Ends(R),
           Handles(s, R), HandStep(x), QNext(x, Item(s, 1), Item(s, 2)),
           x[1] \in AckKinds => StepsOf(s) \subseteq StepsOf(R),
           x[1] \in {"Send", "AwaitMsgAck"} => <<"Send", "LOCK">> \notin StepsOf(s),
           x[1] = "Pmsr" => \A y \in StepsOf(s) : y[1] # "Store"
    PROVE  /\ Cons(x, s) \in Seq(Steps) /\ Handles(Cons(x, s), R)
           /\ Item(Cons(x, s), 1) = x /\ Item(Cons(x, s), 2) = Item(s, 1)
           /\ Item(Cons(x, s), 3) = Item(s, 2)
           /\ StepsOf(Cons(x, s)) = {x} \union StepsOf(s)
  <1>1. ASSUME NEW y \in StepsOf(s) PROVE QAfter(x, y)
    <2>1. HandStep(y) \/ TailStep(y)
      BY DEF Handles, Ends
    <2>2. y \in Steps
      BY ItemsOf
    <2>3. x[1] \in AckKinds => TailStep(y)
      BY DEF Ends
    <2>4. x[1] \in {"Send", "AwaitMsgAck"} => ~Is(y, "Send", "LOCK")
      BY <2>2, StepIsPair DEF Is
    <2>5. \/ x[1] \in {"Store", "UpdateAnalog", "Pmsr", "NotifySibling", "Db0Started",
                       "AckUpdate", "SendAck", "Db0Stop", "Suspended", "Raise",
                       "AwaitAnswer"}
          \/ x[1] \in {"Send", "AwaitMsgAck"} /\ x[2] = "LOCK"
      BY DEF HandStep
    <2>6. y[1] \notin {"ClearDb0", "ToFsafe", "Register", "ReadDb0"} /\ ~In2(y)
          /\ ~(y[1] = "Send" /\ y[2] = "INIT")
      BY <2>1 DEF HandStep, TailStep, In2
    <2>7. TailStep(y) => y[1] \notin AckKinds
      BY DEF TailStep, AckKinds
    <2>8. CASE x[1] \in {"Send", "AwaitMsgAck"}
      BY <2>4, <2>5, <2>6, <2>8 DEF QAfter, AckKinds, Is
    <2>9. CASE x[1] \in {"SendAck", "AckUpdate", "Db0Started"}
      BY <2>3, <2>6, <2>7, <2>9 DEF QAfter, AckKinds
    <2>10. CASE x[1] = "Pmsr"
      BY <2>6, <2>10 DEF QAfter, AckKinds, Openers
    <2>11. CASE x[1] \in {"Store", "UpdateAnalog", "NotifySibling", "Db0Stop",
                          "Suspended", "Raise", "AwaitAnswer"}
      BY <2>6, <2>11 DEF QAfter, AckKinds
    <2> QED BY <2>5, <2>8, <2>9, <2>10, <2>11
  <1>2. /\ Cons(x, s) \in Seq(Steps) /\ QForm(Cons(x, s))
        /\ Item(Cons(x, s), 1) = x /\ Item(Cons(x, s), 2) = Item(s, 1)
        /\ Item(Cons(x, s), 3) = Item(s, 2)
        /\ StepsOf(Cons(x, s)) = {x} \union StepsOf(s)
    BY <1>1, QCons DEF Handles
  <1> QED BY <1>2 DEF Handles

LEMMA ScriptChains ==
    ASSUME NEW s \in Seq(Steps)
    PROVE  /\ \A k \in PlainKinds : Step(k) \o s = Cons(<<k, "">>, s)
           /\ \A a \in Acks : SendAck(a) \o s = Cons(<<"SendAck", a>>, s)
           /\ \A i \in Signals : Notify(i) \o s = Cons(<<"Raise", i>>, Cons(<<"AwaitAnswer", i>>, s))
           /\ \A m \in MsgTypes : MsgSend(m) \o s = Cons(<<"Send", m>>, Cons(<<"AwaitMsgAck", m>>, s))
           /\ <<<<"Pmsr", "">>, <<"NotifySibling", "">>>> \o s
                = Cons(<<"Pmsr", "">>, Cons(<<"NotifySibling", "">>, s))
  <1>1. ASSUME NEW k \in PlainKinds PROVE Step(k) \o s = Cons(<<k, "">>, s)
    BY DEF Step, Cons
  <1>2. ASSUME NEW a \in Acks PROVE SendAck(a) \o s = Cons(<<"SendAck", a>>, s)
    BY DEF SendAck, Cons
  <1>3. ASSUME NEW i \in Signals
        PROVE  Notify(i) \o s = Cons(<<"Raise", i>>, Cons(<<"AwaitAnswer", i>>, s))
    <2>1. <<"Raise", i>> \in Steps /\ <<"AwaitAnswer", i>> \in Steps
      BY DEF Steps, SignalKinds
    <2> QED BY <2>1, TwoCons DEF Notify
  <1>4. ASSUME NEW m \in MsgTypes
        PROVE  MsgSend(m) \o s = Cons(<<"Send", m>>, Cons(<<"AwaitMsgAck", m>>, s))
    <2>1. <<"Send", m>> \in Steps /\ <<"AwaitMsgAck", m>> \in Steps
      BY DEF Steps, MsgKinds
    <2> QED BY <2>1, TwoCons DEF MsgSend
  <1>5. <<<<"Pmsr", "">>, <<"NotifySibling", "">>>> \o s
                = Cons(<<"Pmsr", "">>, Cons(<<"NotifySibling", "">>, s))
    <2>1. <<"Pmsr", "">> \in Steps /\ <<"NotifySibling", "">> \in Steps
      BY DEF Steps, PlainKinds
    <2> QED BY <2>1, TwoCons
  <1> QED BY <1>1, <1>2, <1>3, <1>4, <1>5

(* An acknowledgement, and the interrupt of the sibling before it.         *)
LEMMA AckHandles ==
    ASSUME NEW x \in Steps, x[1] \in {"SendAck", "AckUpdate", "Db0Started"},
           NEW R \in Seq(Steps), Ends(R)
    PROVE  /\ Cons(x, R) \in Seq(Steps) /\ Handles(Cons(x, R), R)
           /\ Item(Cons(x, R), 1) = x /\ StepsOf(Cons(x, R)) = {x} \union StepsOf(R)
  <1>1. Handles(R, R) /\ HandStep(x)
    BY DEF Handles, Ends, HandStep
  <1>2. QNext(x, Item(R, 1), Item(R, 2))
    <2>1. QThen(x, Item(R, 1))
      BY DEF QThen, AnswerKinds, QmKinds
    <2>2. QWhence(x, Item(R, 1))
      BY DEF QWhence, Ends, AnswerKinds
    <2>3. QClip(x, Item(R, 1), Item(R, 2))
      BY DEF QClip
    <2> QED BY <2>1, <2>2, <2>3 DEF QNext
  <1>3. x[1] \notin {"Send", "AwaitMsgAck", "Pmsr"}
    OBVIOUS
  <1> QED BY <1>1, <1>2, <1>3, ConsHandles


Firsts == {"Send", "UpdateAnalog", "Pmsr", "Store", "Db0Stop", "Suspended", "SendAck"}
Script(s, R) ==
    /\ s \in Seq(Steps) /\ Handles(s, R)
    /\ Item(s, 1) \in Steps /\ Item(s, 1)[1] \in Firsts
    /\ Item(s, 1)[1] = "UpdateAnalog" => "qm" \in skipLock
    /\ \E y \in StepsOf(s) : y[1] \in AckKinds

LEMMA HandSteps ==
    /\ \A k \in {"Pmsr", "NotifySibling", "Db0Started", "AckUpdate", "Db0Stop"} :
           <<k, "">> \in Steps
    /\ \A a \in Acks : <<"SendAck", a>> \in Steps
    /\ \A k \in {"Raise", "AwaitAnswer"} : <<k, "IN0">> \in Steps
    /\ \A k \in {"Send", "AwaitMsgAck"} : <<k, "LOCK">> \in Steps
    /\ \A d \in Db0Messages : <<"Store", d>> \in Steps /\ <<"UpdateAnalog", d.value>> \in Steps
    /\ \A v \in {"set", "clear"} : <<"Suspended", v>> \in Steps
  <1>1. \A k \in {"Pmsr", "NotifySibling", "Db0Started", "AckUpdate", "Db0Stop"} :
           <<k, "">> \in Steps
    BY DEF Steps, PlainKinds
  <1>2. /\ \A a \in Acks : <<"SendAck", a>> \in Steps
        /\ \A v \in {"set", "clear"} : <<"Suspended", v>> \in Steps
        /\ \A d \in Db0Messages : <<"Store", d>> \in Steps
        /\ \A v \in Values : <<"UpdateAnalog", v>> \in Steps
    BY DEF Steps
  <1>3. \A d \in Db0Messages : d.value \in Values
    BY DEF Db0Messages
  <1>4. \A k \in {"Raise", "AwaitAnswer"} : <<k, "IN0">> \in Steps
    BY DEF Steps, SignalKinds, Signals
  <1>5. \A k \in {"Send", "AwaitMsgAck"} : <<k, "LOCK">> \in Steps
    BY DEF Steps, MsgKinds, MsgTypes
  <1> QED BY <1>1, <1>2, <1>3, <1>4, <1>5

(* <<k, v>> may come right before <<f, g>>.                                *)
Fits(k, v, f, g) ==
    \/ k = "AwaitAnswer" /\ v = "IN0" /\ f \in {"SendAck", "AckUpdate", "Db0Started"}
    \/ k = "NotifySibling" /\ f \in {"SendAck", "AckUpdate", "Db0Started"}
    \/ k = "Raise" /\ v = "IN0" /\ f = "AwaitAnswer" /\ g = "IN0"
    \/ k = "Send" /\ v = "LOCK" /\ f = "AwaitMsgAck" /\ g = "LOCK"
    \/ k = "AwaitMsgAck" /\ v = "LOCK" /\ f \in {"UpdateAnalog", "Pmsr"}
    \/ k = "UpdateAnalog" /\ f = "Pmsr"
    \/ k = "Pmsr" /\ f \in {"NotifySibling", "Raise"}
    \/ k = "Store" /\ f = "Send"
    \/ k = "Db0Stop" /\ f = "Pmsr"
    \/ k = "Suspended" /\ f = "Raise"

(* One more step before a script.                                          *)
LEMMA OneMore ==
    ASSUME NEW x \in Steps,
           NEW s \in Seq(Steps), NEW R \in Seq(Steps), Ends(R), Handles(s, R),
           Fits(x[1], x[2], Item(s, 1)[1], Item(s, 1)[2]),
           x[1] \in {"Send", "AwaitMsgAck"} => <<"Send", "LOCK">> \notin StepsOf(s),
           x[1] = "Pmsr" => \A y \in StepsOf(s) : y[1] # "Store"
    PROVE  \E t \in Seq(Steps) :
               /\ t = Cons(x, s) /\ Handles(t, R) /\ Item(t, 1) = x
               /\ StepsOf(t) = {x} \union StepsOf(s)
  <1> DEFINE y == Item(s, 1)
  <1> HIDE DEF y
  <1>1. Fits(x[1], x[2], y[1], y[2])
    BY DEF y
  <1>2. HandStep(x) /\ x[1] \notin AckKinds
    BY <1>1 DEF HandStep, AckKinds, Fits
  <1>3. QThen(x, y)
    BY <1>1 DEF Fits, QThen, QmKinds, AnswerKinds, AckKinds
  <1>4. QWhence(x, y)
    BY <1>1 DEF Fits, QWhence, AnswerKinds
  <1>5. QClip(x, y, Item(s, 2))
    BY <1>1 DEF Fits, QClip, In2
  <1>6. QNext(x, Item(s, 1), Item(s, 2))
    BY <1>3, <1>4, <1>5 DEF QNext, y
  <1>7. /\ Cons(x, s) \in Seq(Steps) /\ Handles(Cons(x, s), R)
        /\ Item(Cons(x, s), 1) = x
        /\ StepsOf(Cons(x, s)) = {x} \union StepsOf(s)
    BY <1>2, <1>6, ConsHandles
  <1> QED BY <1>7

(* The acknowledgement, and the interrupt of the sibling before it.        *)
LEMMA AckScript ==
    ASSUME NEW x \in Steps, x[1] \in {"SendAck", "AckUpdate", "Db0Started"},
           NEW R \in Seq(Steps), Ends(R)
    PROVE  \E t \in Seq(Steps) :
               /\ t = Cons(x, R) /\ Handles(t, R) /\ Item(t, 1) = x
               /\ StepsOf(t) = {x} \union StepsOf(R)
               /\ <<"Send", "LOCK">> \notin StepsOf(t)
               /\ \A y \in StepsOf(t) : y[1] # "Store"
  <1>1. /\ Cons(x, R) \in Seq(Steps) /\ Handles(Cons(x, R), R)
        /\ Item(Cons(x, R), 1) = x /\ StepsOf(Cons(x, R)) = {x} \union StepsOf(R)
    BY AckHandles
  <1>2. ~TailStep(<<"Send", "LOCK">>)
    BY DEF TailStep
  <1>3. x # <<"Send", "LOCK">>
    OBVIOUS
  <1>4. \A y : TailStep(y) => y[1] # "Store"
    BY DEF TailStep
  <1> QED BY <1>1, <1>2, <1>3, <1>4 DEF Ends

LEMMA NotifyAckScript ==
    ASSUME NEW a \in Acks, NEW R \in Seq(Steps), Ends(R)
    PROVE  \E s \in Seq(Steps) :
               /\ s = Notify("IN0") \o (SendAck(a) \o R) /\ Handles(s, R)
               /\ Item(s, 1)[1] = "Raise" /\ Item(s, 1)[2] = "IN0"
               /\ \E y \in StepsOf(s) : y[1] \in AckKinds
               /\ <<"Send", "LOCK">> \notin StepsOf(s)
               /\ \A y \in StepsOf(s) : y[1] # "Store"
  <1>1. PICK x \in Steps : x = <<"SendAck", a>> /\ x[1] = "SendAck" /\ x[2] = a
    BY HandSteps
  <1>2. PICK y \in Steps : y = <<"AwaitAnswer", "IN0">> /\ y[1] = "AwaitAnswer" /\ y[2] = "IN0"
    BY HandSteps
  <1>3. PICK z \in Steps : z = <<"Raise", "IN0">> /\ z[1] = "Raise" /\ z[2] = "IN0"
    BY HandSteps
  <1>4. PICK s1 \in Seq(Steps) :
            /\ s1 = Cons(x, R) /\ Handles(s1, R) /\ Item(s1, 1) = x
            /\ StepsOf(s1) = {x} \union StepsOf(R)
            /\ <<"Send", "LOCK">> \notin StepsOf(s1)
            /\ \A w \in StepsOf(s1) : w[1] # "Store"
    BY <1>1, AckScript
  <1>5. PICK s2 \in Seq(Steps) :
            /\ s2 = Cons(y, s1) /\ Handles(s2, R) /\ Item(s2, 1) = y
            /\ StepsOf(s2) = {y} \union StepsOf(s1)
    <2>1. Fits(y[1], y[2], Item(s1, 1)[1], Item(s1, 1)[2])
      BY <1>1, <1>2, <1>4 DEF Fits
    <2>2. y[1] \notin {"Send", "AwaitMsgAck", "Pmsr"}
      BY <1>2
    <2> QED BY <1>4, <2>1, <2>2, OneMore
  <1>6. PICK s3 \in Seq(Steps) :
            /\ s3 = Cons(z, s2) /\ Handles(s3, R) /\ Item(s3, 1) = z
            /\ StepsOf(s3) = {z} \union StepsOf(s2)
    <2>1. Fits(z[1], z[2], Item(s2, 1)[1], Item(s2, 1)[2])
      BY <1>2, <1>3, <1>5 DEF Fits
    <2>2. z[1] \notin {"Send", "AwaitMsgAck", "Pmsr"}
      BY <1>3
    <2> QED BY <1>5, <2>1, <2>2, OneMore
  <1>7. s3 = Notify("IN0") \o (SendAck(a) \o R)
    <2>1. SendAck(a) \o R = s1
      BY <1>1, <1>4, ScriptChains
    <2>2. Notify("IN0") \o s1 = s3
      BY <1>2, <1>3, <1>5, <1>6, ScriptChains DEF Signals
    <2> QED BY <2>1, <2>2
  <1>8. x \in StepsOf(s3) /\ x[1] \in AckKinds
    BY <1>1, <1>4, <1>5, <1>6 DEF AckKinds
  <1>9. <<"Send", "LOCK">> # y /\ <<"Send", "LOCK">> # z
    BY <1>2, <1>3
  <1>10. <<"Send", "LOCK">> \notin StepsOf(s3) /\ \A w \in StepsOf(s3) : w[1] # "Store"
    BY <1>2, <1>3, <1>4, <1>5, <1>6, <1>9
  <1> QED BY <1>3, <1>6, <1>7, <1>8, <1>10


-----------------------------------------------------------------------------
(* Longer scripts, from the front.                                         *)
Join(a, b) == a \o b

LEMMA Joins ==
    ASSUME NEW a \in Seq(Steps), NEW b \in Seq(Steps), NEW c \in Seq(Steps)
    PROVE  Join(Join(a, b), c) = Join(a, Join(b, c)) /\ Join(a, b) \in Seq(Steps)
  BY ConcatAssociative, Joined, SMTT(60) DEF Join

\* From here the memberships are hypotheses of their own, so that the equality alone picks
\* the instance.
LEMMA Join3 ==
    ASSUME NEW a, NEW b, NEW c, a \in Seq(Steps), b \in Seq(Steps), c \in Seq(Steps)
    PROVE  Join(Join(a, b), c) = Join(a, Join(b, c))
  BY Joins

LEMMA Join4 ==
    ASSUME NEW a, NEW b, NEW c, NEW d,
           a \in Seq(Steps), b \in Seq(Steps), c \in Seq(Steps),
           d \in Seq(Steps)
    PROVE  Join(Join(Join(a, b), c), d) = Join(a, Join(b, Join(c, d)))
  <1>1. Join(a, b) \in Seq(Steps) /\ Join(c, d) \in Seq(Steps)
    BY Joins
  <1> QED BY <1>1, Joins

LEMMA Join5 ==
    ASSUME NEW a, NEW b, NEW c, NEW d, NEW e,
           a \in Seq(Steps), b \in Seq(Steps), c \in Seq(Steps),
           d \in Seq(Steps), e \in Seq(Steps)
    PROVE  Join(Join(Join(Join(a, b), c), d), e) = Join(a, Join(b, Join(c, Join(d, e))))
  <1>1. Join(a, b) \in Seq(Steps) /\ Join(c, Join(d, e)) \in Seq(Steps)
    BY Joins
  <1>2. Join(Join(Join(Join(a, b), c), d), e) = Join(Join(a, b), Join(c, Join(d, e)))
    BY <1>1, Join4
  <1> QED BY <1>1, <1>2, Joins

LEMMA Join6 ==
    ASSUME NEW a, NEW b, NEW c, NEW d, NEW e, NEW f,
           a \in Seq(Steps), b \in Seq(Steps), c \in Seq(Steps),
           d \in Seq(Steps), e \in Seq(Steps), f \in Seq(Steps)
    PROVE  Join(Join(Join(Join(Join(a, b), c), d), e), f)
             = Join(a, Join(b, Join(c, Join(d, Join(e, f)))))
  <1>1. Join(a, b) \in Seq(Steps) /\ Join(c, Join(d, Join(e, f))) \in Seq(Steps)
    BY Joins
  <1>2. Join(Join(Join(Join(Join(a, b), c), d), e), f)
          = Join(Join(a, b), Join(c, Join(d, Join(e, f))))
    BY <1>1, Join5
  <1> QED BY <1>1, <1>2, Joins

(* A handler of doorbell 0 that answers.                                   *)
LEMMA ScriptFrom ==
    ASSUME NEW x \in Steps, x[1] \in {"Send", "Pmsr", "Store", "Db0Stop", "Suspended"},
           NEW s \in Seq(Steps), NEW R \in Seq(Steps), Ends(R), Handles(s, R),
           Fits(x[1], x[2], Item(s, 1)[1], Item(s, 1)[2]),
           x[1] \in {"Send", "AwaitMsgAck"} => <<"Send", "LOCK">> \notin StepsOf(s),
           x[1] = "Pmsr" => \A y \in StepsOf(s) : y[1] # "Store",
           \E y \in StepsOf(s) : y[1] \in AckKinds
    PROVE  Script(Cons(x, s), R) /\ StepsOf(Cons(x, s)) = {x} \union StepsOf(s)
  <1>1. PICK t \in Seq(Steps) :
            /\ t = Cons(x, s) /\ Handles(t, R) /\ Item(t, 1) = x
            /\ StepsOf(t) = {x} \union StepsOf(s)
    BY OneMore
  <1>2. x[1] \in Firsts /\ x[1] # "UpdateAnalog"
    BY DEF Firsts
  <1>3. \E y \in StepsOf(t) : y[1] \in AckKinds
    BY <1>1
  <1>4. Script(t, R)
    BY <1>1, <1>2, <1>3 DEF Script
  <1> QED BY <1>1, <1>4

LEMMA StopScript ==
    ASSUME NEW R \in Seq(Steps), Ends(R)
    PROVE  Script(Db0Stop \o R, R)
  <1>1. PICK s \in Seq(Steps) :
            /\ s = Notify("IN0") \o (SendAck("suspended") \o R) /\ Handles(s, R)
            /\ Item(s, 1)[1] = "Raise" /\ Item(s, 1)[2] = "IN0"
            /\ \E y \in StepsOf(s) : y[1] \in AckKinds
            /\ <<"Send", "LOCK">> \notin StepsOf(s)
            /\ \A y \in StepsOf(s) : y[1] # "Store"
    BY NotifyAckScript DEF Acks
  <1>2. PICK x \in Steps : x = <<"Pmsr", "">> /\ x[1] = "Pmsr"
    BY HandSteps
  <1>3. PICK y \in Steps : y = <<"Db0Stop", "">> /\ y[1] = "Db0Stop"
    BY HandSteps
  <1>4. PICK s1 \in Seq(Steps) :
            /\ s1 = Cons(x, s) /\ Handles(s1, R) /\ Item(s1, 1) = x
            /\ StepsOf(s1) = {x} \union StepsOf(s)
    <2>1. Fits(x[1], x[2], Item(s, 1)[1], Item(s, 1)[2])
      BY <1>1, <1>2 DEF Fits
    <2>2. x[1] \notin {"Send", "AwaitMsgAck"}
      BY <1>2
    <2> QED BY <1>1, <2>1, <2>2, OneMore, ZenonT(60)
  <1>5. Script(Cons(y, s1), R)
    <2>1. Fits(y[1], y[2], Item(s1, 1)[1], Item(s1, 1)[2])
      BY <1>2, <1>3, <1>4 DEF Fits
    <2>2. y[1] = "Db0Stop" /\ y[1] \notin {"Send", "AwaitMsgAck", "Pmsr"}
      BY <1>3
    <2>3. \E w \in StepsOf(s1) : w[1] \in AckKinds
      BY <1>1, <1>4
    <2> QED BY <1>4, <2>1, <2>2, <2>3, ScriptFrom
  <1>6. Db0Stop \o R = Cons(y, s1)
    <2>1. PICK a, b, c, d \in Seq(Steps) :
              a = Step("Db0Stop") /\ b = Step("Pmsr") /\ c = Notify("IN0")
              /\ d = SendAck("suspended")
      BY PlainSteps DEF PlainKinds, Signals, Acks
    <2>0. /\ a \in Seq(Steps) /\ b \in Seq(Steps) /\ c \in Seq(Steps) /\ d \in Seq(Steps)
      BY <2>1
    <2>2. Join(Db0Stop, R) = Join(Join(Join(Join(a, b), c), d), R)
      BY <2>1 DEF Db0Stop, Join
    <2>3. @ = Join(a, Join(b, Join(c, Join(d, R))))
      BY <2>0, Join5
    <2>5. Join(c, Join(d, R)) = s
      BY <1>1, <2>1 DEF Join
    <2>6. Join(b, s) = s1
      BY <1>2, <1>4, <2>1, ScriptChains DEF PlainKinds, Join
    <2>7. Join(a, s1) = Cons(y, s1) /\ Db0Stop \o R = Join(Db0Stop, R)
      BY <1>3, <2>1, ScriptChains DEF PlainKinds, Join
    <2> QED BY <2>2, <2>3, <2>5, <2>6, <2>7
  <1> QED BY <1>5, <1>6

LEMMA SuspendedScript ==
    ASSUME NEW d \in Db0Messages, d.msg = "PMSR", NEW R \in Seq(Steps), Ends(R)
    PROVE  Script(Db0PmsrUpdt(d) \o R, R)
  <1>1. PICK s \in Seq(Steps) :
            /\ s = Notify("IN0") \o (SendAck("ok") \o R) /\ Handles(s, R)
            /\ Item(s, 1)[1] = "Raise" /\ Item(s, 1)[2] = "IN0"
            /\ \E y \in StepsOf(s) : y[1] \in AckKinds
            /\ <<"Send", "LOCK">> \notin StepsOf(s)
            /\ \A y \in StepsOf(s) : y[1] # "Store"
    BY NotifyAckScript DEF Acks
  <1>2. PICK x \in Steps : x = <<"Suspended", d.field>> /\ x[1] = "Suspended"
    BY HandSteps DEF Db0Messages
  <1>3. Script(Cons(x, s), R)
    <2>1. Fits(x[1], x[2], Item(s, 1)[1], Item(s, 1)[2])
      BY <1>1, <1>2 DEF Fits
    <2>2. x[1] = "Suspended" /\ x[1] \notin {"Send", "AwaitMsgAck", "Pmsr"}
      BY <1>2
    <2> QED BY <1>1, <2>1, <2>2, ScriptFrom
  <1>4. Db0PmsrUpdt(d) \o R = Cons(x, s)
    <2>1. PICK a, b, c \in Seq(Steps) :
              a = <<x>> /\ b = Notify("IN0") /\ c = SendAck("ok")
      BY OneStep, PlainSteps DEF Signals, Acks
    <2>0. a \in Seq(Steps) /\ b \in Seq(Steps) /\ c \in Seq(Steps)
      BY <2>1
    <2>2. Join(Db0PmsrUpdt(d), R) = Join(Join(Join(a, b), c), R)
      BY <1>2, <2>1 DEF Db0PmsrUpdt, Join
    <2>3. @ = Join(a, Join(b, Join(c, R)))
      BY <2>0, Join4
    <2>4. Join(b, Join(c, R)) = s
      BY <1>1, <2>1 DEF Join
    <2>5. Join(a, s) = Cons(x, s) /\ Db0PmsrUpdt(d) \o R = Join(Db0PmsrUpdt(d), R)
      BY <2>1 DEF Cons, Join
    <2> QED BY <2>2, <2>3, <2>4, <2>5
  <1> QED BY <1>3, <1>4

LEMMA AnswerScript ==
    ASSUME NEW a \in Acks, NEW R \in Seq(Steps), Ends(R)
    PROVE  Script(SendAck(a) \o R, R)
  <1>1. PICK x \in Steps : x = <<"SendAck", a>> /\ x[1] = "SendAck"
    BY HandSteps
  <1>2. PICK s \in Seq(Steps) :
            /\ s = Cons(x, R) /\ Handles(s, R) /\ Item(s, 1) = x
            /\ StepsOf(s) = {x} \union StepsOf(R)
    BY <1>1, AckScript
  <1>3. Script(s, R)
    BY <1>1, <1>2 DEF Script, Firsts, AckKinds
  <1> QED BY <1>1, <1>2, <1>3, ScriptChains

LEMMA LockedScript ==
    ASSUME NEW s \in Seq(Steps), NEW R \in Seq(Steps), Ends(R), Handles(s, R),
           Item(s, 1)[1] \in {"UpdateAnalog", "Pmsr"},
           <<"Send", "LOCK">> \notin StepsOf(s),
           \E y \in StepsOf(s) : y[1] \in AckKinds
    PROVE  \E t \in Seq(Steps) :
               /\ t = MsgSend("LOCK") \o s /\ Script(t, R) /\ Item(t, 1)[1] = "Send"
               /\ Item(t, 1)[2] = "LOCK" /\ <<"Send", "LOCK">> \in StepsOf(t)
               /\ StepsOf(s) \subseteq StepsOf(t)
  <1>1. PICK x \in Steps : x = <<"AwaitMsgAck", "LOCK">> /\ x[1] = "AwaitMsgAck" /\ x[2] = "LOCK"
    BY HandSteps
  <1>2. PICK y \in Steps : y = <<"Send", "LOCK">> /\ y[1] = "Send" /\ y[2] = "LOCK"
    BY HandSteps
  <1>3. PICK s1 \in Seq(Steps) :
            /\ s1 = Cons(x, s) /\ Handles(s1, R) /\ Item(s1, 1) = x
            /\ StepsOf(s1) = {x} \union StepsOf(s)
    <2>1. Fits(x[1], x[2], Item(s, 1)[1], Item(s, 1)[2])
      BY <1>1 DEF Fits
    <2>2. x[1] # "Pmsr"
      BY <1>1
    <2> QED BY <2>1, <2>2, OneMore
  <1>4. PICK s2 \in Seq(Steps) :
            /\ s2 = Cons(y, s1) /\ Handles(s2, R) /\ Item(s2, 1) = y
            /\ StepsOf(s2) = {y} \union StepsOf(s1)
    <2>1. Fits(y[1], y[2], Item(s1, 1)[1], Item(s1, 1)[2])
      BY <1>1, <1>2, <1>3 DEF Fits
    <2>2. y[1] # "Pmsr"
      BY <1>2
    <2>3. y # x
      BY <1>1, <1>2
    <2>4. <<"Send", "LOCK">> \notin StepsOf(s1)
      BY <1>2, <1>3, <2>3
    <2> QED BY <1>3, <2>1, <2>2, <2>4, OneMore, SMTT(60)
  <1>5. Script(s2, R)
    <2>1. y[1] \in Firsts /\ y[1] # "UpdateAnalog"
      BY <1>2 DEF Firsts
    <2>2. \E w \in StepsOf(s2) : w[1] \in AckKinds
      BY <1>3, <1>4
    <2> QED BY <1>4, <2>1, <2>2 DEF Script
  <1>6. s2 = MsgSend("LOCK") \o s
    BY <1>1, <1>2, <1>3, <1>4, ScriptChains DEF MsgTypes
  <1> QED BY <1>2, <1>3, <1>4, <1>5, <1>6

LEMMA ClipScript ==
    ASSUME NEW d \in Db0Messages, NEW R \in Seq(Steps), Ends(R)
    PROVE  Script(Db0ClipBcast(d) \o R, R)
           /\ <<"Send", "LOCK">> \in StepsOf(Db0ClipBcast(d) \o R)
  <1>1. PICK s \in Seq(Steps) :
            /\ s = Notify("IN0") \o (SendAck("ok") \o R) /\ Handles(s, R)
            /\ Item(s, 1)[1] = "Raise" /\ Item(s, 1)[2] = "IN0"
            /\ \E y \in StepsOf(s) : y[1] \in AckKinds
            /\ <<"Send", "LOCK">> \notin StepsOf(s)
            /\ \A y \in StepsOf(s) : y[1] # "Store"
    BY NotifyAckScript DEF Acks
  <1>2. PICK x \in Steps : x = <<"Pmsr", "">> /\ x[1] = "Pmsr"
    BY HandSteps
  <1>3. PICK y \in Steps : y = <<"Store", d>> /\ y[1] = "Store"
    BY HandSteps
  <1>4. PICK s1 \in Seq(Steps) :
            /\ s1 = Cons(x, s) /\ Handles(s1, R) /\ Item(s1, 1) = x
            /\ StepsOf(s1) = {x} \union StepsOf(s)
    <2>1. Fits(x[1], x[2], Item(s, 1)[1], Item(s, 1)[2])
      BY <1>1, <1>2 DEF Fits
    <2>2. x[1] \notin {"Send", "AwaitMsgAck"}
      BY <1>2
    <2> QED BY <1>1, <2>1, <2>2, OneMore, ZenonT(60)
  <1>5. PICK t \in Seq(Steps) :
               /\ t = MsgSend("LOCK") \o s1 /\ Script(t, R) /\ Item(t, 1)[1] = "Send"
               /\ Item(t, 1)[2] = "LOCK" /\ <<"Send", "LOCK">> \in StepsOf(t)
               /\ StepsOf(s1) \subseteq StepsOf(t)
    <2>1. Item(s1, 1)[1] \in {"UpdateAnalog", "Pmsr"}
      BY <1>2, <1>4
    <2>2. <<"Send", "LOCK">> # x
      BY <1>2
    <2>3. <<"Send", "LOCK">> \notin StepsOf(s1) /\ \E w \in StepsOf(s1) : w[1] \in AckKinds
      BY <1>1, <1>4, <2>2
    <2> QED BY <1>4, <2>1, <2>3, LockedScript
  <1>6. Script(Cons(y, t), R) /\ StepsOf(Cons(y, t)) = {y} \union StepsOf(t)
    <2>1. Fits(y[1], y[2], Item(t, 1)[1], Item(t, 1)[2])
      BY <1>3, <1>5 DEF Fits
    <2>2. y[1] = "Store" /\ y[1] \notin {"Send", "AwaitMsgAck", "Pmsr"}
      BY <1>3
    <2> QED BY <1>5, <2>1, <2>2, ScriptFrom DEF Script
  <1>7. Db0ClipBcast(d) \o R = Cons(y, t)
    <2>1. PICK a, b, c, e, f \in Seq(Steps) :
              a = <<y>> /\ b = MsgSend("LOCK") /\ c = Step("Pmsr") /\ e = Notify("IN0")
              /\ f = SendAck("ok")
      BY OneStep, PlainSteps DEF PlainKinds, Signals, Acks, MsgTypes
    <2>0. /\ a \in Seq(Steps) /\ b \in Seq(Steps) /\ c \in Seq(Steps) /\ e \in Seq(Steps)
          /\ f \in Seq(Steps)
      BY <2>1
    <2>2. Join(Db0ClipBcast(d), R) = Join(Join(Join(Join(Join(a, b), c), e), f), R)
      BY <1>3, <2>1 DEF Db0ClipBcast, Join
    <2>3. Join(Join(Join(Join(Join(a, b), c), e), f), R)
            = Join(a, Join(b, Join(c, Join(e, Join(f, R)))))
      <3>1. PICK u \in Seq(Steps) : u = Join(a, b)
        BY <2>0, Joins
      <3>2. PICK v \in Seq(Steps) : v = Join(c, Join(e, Join(f, R)))
        <4>1. Join(f, R) \in Seq(Steps)
          BY <2>0, Joins
        <4>2. Join(e, Join(f, R)) \in Seq(Steps)
          BY <2>0, <4>1, Joins
        <4> QED BY <2>0, <4>2, Joins
      <3>3. Join(Join(Join(Join(u, c), e), f), R) = Join(u, v)
        BY <2>0, <3>2, Join5
      <3>4. Join(u, v) = Join(a, Join(b, v))
        BY <2>0, <3>1, Joins
      <3> QED BY <3>1, <3>2, <3>3, <3>4
    <2>4. Join(e, Join(f, R)) = s
      BY <1>1, <2>1 DEF Join
    <2>5. Join(c, s) = s1
      BY <1>2, <1>4, <2>1, ScriptChains DEF PlainKinds, Join
    <2>6. Join(b, s1) = t
      BY <1>5, <2>1 DEF Join
    <2>7. Join(a, t) = Cons(y, t) /\ Db0ClipBcast(d) \o R = Join(Db0ClipBcast(d), R)
      BY <2>1 DEF Cons, Join
    <2> QED BY <2>2, <2>3, <2>4, <2>5, <2>6, <2>7
  <1> QED BY <1>5, <1>6, <1>7


(* A change of Pstate: the sibling is locked before the clock moves.       *)
LEMMA ChangeScript ==
    ASSUME NEW d \in Db0Messages, NEW k \in {"AckUpdate", "Db0Started"},
           NEW R \in Seq(Steps), Ends(R)
    PROVE  \E t \in Seq(Steps) :
               /\ t = (Update(d) \o Step(k)) \o R /\ Script(t, R)
               /\ <<k, "">> \in StepsOf(t)
               /\ "REGISTERING" \in flags["qm"] /\ "qm" \notin skipLock =>
                      <<"Send", "LOCK">> \in StepsOf(t)
  <1>1. PICK x \in Steps : x = <<k, "">> /\ x[1] = k
    BY HandSteps
  <1>2. PICK y \in Steps : y = <<"NotifySibling", "">> /\ y[1] = "NotifySibling"
    BY HandSteps
  <1>3. PICK z \in Steps : z = <<"Pmsr", "">> /\ z[1] = "Pmsr"
    BY HandSteps
  <1>4. PICK u \in Steps : u = <<"UpdateAnalog", d.value>> /\ u[1] = "UpdateAnalog"
    BY HandSteps
  <1>5. PICK s0 \in Seq(Steps) :
            /\ s0 = Cons(x, R) /\ Handles(s0, R) /\ Item(s0, 1) = x
            /\ StepsOf(s0) = {x} \union StepsOf(R)
            /\ <<"Send", "LOCK">> \notin StepsOf(s0)
            /\ \A w \in StepsOf(s0) : w[1] # "Store"
    BY <1>1, AckScript
  <1>6. PICK s1 \in Seq(Steps) :
            /\ s1 = Cons(y, s0) /\ Handles(s1, R) /\ Item(s1, 1) = y
            /\ StepsOf(s1) = {y} \union StepsOf(s0)
    <2>1. Fits(y[1], y[2], Item(s0, 1)[1], Item(s0, 1)[2])
      BY <1>1, <1>2, <1>5 DEF Fits
    <2>2. y[1] \notin {"Send", "AwaitMsgAck", "Pmsr"}
      BY <1>2
    <2> QED BY <1>5, <2>1, <2>2, OneMore
  <1>7. PICK s2 \in Seq(Steps) :
            /\ s2 = Cons(z, s1) /\ Handles(s2, R) /\ Item(s2, 1) = z
            /\ StepsOf(s2) = {z} \union StepsOf(s1)
    <2>1. Fits(z[1], z[2], Item(s1, 1)[1], Item(s1, 1)[2])
      BY <1>2, <1>3, <1>6 DEF Fits
    <2>2. z[1] \notin {"Send", "AwaitMsgAck"}
      BY <1>3
    <2>3. \A w \in StepsOf(s1) : w[1] # "Store"
      BY <1>2, <1>5, <1>6
    <2> QED BY <1>6, <2>1, <2>2, <2>3, OneMore
  <1>8. PICK s3 \in Seq(Steps) :
            /\ s3 = Cons(u, s2) /\ Handles(s3, R) /\ Item(s3, 1) = u
            /\ StepsOf(s3) = {u} \union StepsOf(s2)
    <2>1. Fits(u[1], u[2], Item(s2, 1)[1], Item(s2, 1)[2])
      BY <1>3, <1>4, <1>7 DEF Fits
    <2>2. u[1] \notin {"Send", "AwaitMsgAck", "Pmsr"}
      BY <1>4
    <2> QED BY <1>7, <2>1, <2>2, OneMore
  <1>9. x \in StepsOf(s2) /\ x \in StepsOf(s3) /\ x[1] \in AckKinds
    BY <1>1, <1>5, <1>6, <1>7, <1>8 DEF AckKinds
  <1>10. Script(s2, R)
    <2>1. z[1] \in Firsts /\ z[1] # "UpdateAnalog"
      BY <1>3 DEF Firsts
    <2> QED BY <1>7, <1>9, <2>1 DEF Script
  <1>11. "qm" \in skipLock => Script(s3, R)
    BY <1>4, <1>8, <1>9 DEF Firsts, Script
  <1>12. PICK s4 \in Seq(Steps) :
               /\ s4 = MsgSend("LOCK") \o s3 /\ Script(s4, R) /\ Item(s4, 1)[1] = "Send"
               /\ Item(s4, 1)[2] = "LOCK" /\ <<"Send", "LOCK">> \in StepsOf(s4)
               /\ StepsOf(s3) \subseteq StepsOf(s4)
    <2>1. Item(s3, 1)[1] \in {"UpdateAnalog", "Pmsr"}
      BY <1>4, <1>8
    <2>2. PICK w \in Steps : w = <<"Send", "LOCK">> /\ w[1] = "Send"
      BY HandSteps
    <2>3. w # u /\ w # y /\ w # z
      BY <1>2, <1>3, <1>4, <2>2
    <2>4. <<"Send", "LOCK">> \notin StepsOf(s3)
      BY <1>5, <1>6, <1>7, <1>8, <2>2, <2>3
    <2>5. \E v \in StepsOf(s3) : v[1] \in AckKinds
      BY <1>9
    <2> QED BY <1>8, <2>1, <2>4, <2>5, LockedScript DEF Script
  <1> DEFINE Cond == d.value # record["qm"].quadPstate \/ "REGISTERING" \in flags["qm"]
  <1>13. PICK f, g, h, c \in Seq(Steps) :
             f = <<u>> /\ g = MsgSend("LOCK") /\ h = <<z, y>> /\ c = Step(k)
    BY OneStep, TwoSteps, PlainSteps DEF PlainKinds, MsgTypes
  <1>14. /\ f \in Seq(Steps) /\ g \in Seq(Steps) /\ h \in Seq(Steps) /\ c \in Seq(Steps)
    BY <1>13
  <1>15. /\ Join(c, R) = s0 /\ Join(h, s0) = s2 /\ Join(f, s2) = s3 /\ Join(g, s3) = s4
    <2>1. Join(c, R) = s0
      <3>1. k \in PlainKinds
        BY DEF PlainKinds
      <3>2. Step(k) \o R = Cons(<<k, "">>, R)
        BY <3>1, ScriptChains
      <3> QED BY <1>1, <1>5, <1>13, <3>2 DEF Join
    <2>2. Join(h, s0) = s2
      BY <1>2, <1>3, <1>6, <1>7, <1>13, ScriptChains DEF Join
    <2>3. Join(f, s2) = s3
      BY <1>8, <1>13 DEF Join, Cons
    <2>4. Join(g, s3) = s4
      BY <1>12, <1>13 DEF Join
    <2> QED BY <2>1, <2>2, <2>3, <2>4
  <1>16. CASE ~Cond
    <2>1. Update(d) = h
      <3>1. <<>> \o h = h
        BY <1>14, Concat
      <3> QED BY <1>2, <1>3, <1>13, <1>16, <3>1 DEF Update
    <2>2. (Update(d) \o Step(k)) \o R = Join(Join(h, c), R)
      BY <1>13, <2>1 DEF Join
    <2>3. Join(Join(h, c), R) = s2
      BY <1>14, <1>15, Joins
    <2> QED BY <1>1, <1>9, <1>10, <1>16, <2>2, <2>3
  <1>17. CASE Cond /\ "qm" \in skipLock
    <2>1. Update(d) = Join(f, h)
      <3>1. <<>> \o f = f
        BY <1>14, Concat
      <3> QED BY <1>2, <1>3, <1>4, <1>13, <1>17, <3>1 DEF Update, Join
    <2>2. (Update(d) \o Step(k)) \o R = Join(Join(Join(f, h), c), R)
      BY <1>13, <2>1 DEF Join
    <2>3. Join(Join(Join(f, h), c), R) = Join(f, Join(h, Join(c, R)))
      BY <1>14, Join4
    <2> QED BY <1>1, <1>9, <1>11, <1>15, <1>17, <2>2, <2>3
  <1>18. CASE Cond /\ "qm" \notin skipLock
    <2>1. Update(d) = Join(Join(g, f), h)
      BY <1>2, <1>3, <1>4, <1>13, <1>18 DEF Update, Join
    <2>2. (Update(d) \o Step(k)) \o R = Join(Join(Join(Join(g, f), h), c), R)
      BY <1>13, <2>1 DEF Join
    <2>3. Join(Join(Join(Join(g, f), h), c), R) = Join(g, Join(f, Join(h, Join(c, R))))
      BY <1>14, Join5
    <2>4. x \in StepsOf(s4)
      BY <1>9, <1>12
    <2>5. (Update(d) \o Step(k)) \o R = s4
      BY <1>15, <2>2, <2>3
    <2> QED BY <1>1, <1>12, <2>4, <2>5
  <1> QED BY <1>16, <1>17, <1>18


-----------------------------------------------------------------------------
(* Steps of the quad manager that only decide what it does next.           *)
Deciding ==
    /\ SSame /\ GSame
    /\ UNCHANGED <<irqVars, doorbellVars, cmeVars, sysVars>>
    /\ Q1[1] \in {"NotifySibling", "ReadDb0", "RegisterDb0"}

LEMMA NoTicks ==
    ASSUME TypeInv PROVE ticks["DB0"] > 0 \/ ticks["DB0"] = 0
  <1>1. ticks \in [{"DB0", "RECVD", "IN0"} -> 0 .. DB0_FIT_TICK_THRESHOLD + 1]
    BY DEF TypeInv, IrqType
  <1>2. ticks["DB0"] \in Nat
    BY <1>1 DEF DB0_FIT_TICK_THRESHOLD
  <1> QED BY <1>2

LEMMA DecidingKept ==
    ASSUME TypeInv, Kept, Deciding, QForm(todo["qm"])',
           Q1'[1] \in Firsts \union {"Raise", "EndDb0", "EndDb3", "AwaitDb0"},
           Q1'[1] = "UpdateAnalog" => "qm" \in skipLock /\ Q1[1] = "ReadDb0",
           \E R \in Seq(Steps) : RQ = {Q1} \union StepsOf(R) /\ StepsOf(R) \subseteq RQ',
           Q1[1] = "NotifySibling" =>
               /\ <<"Db0Started", "">> \in RQ' => <<"Db0Started", "">> \in RQ
               /\ (HasReg' => HasReg) /\ (RegDue' => RegDue)
    PROVE  Lines' /\ Ticks' /\ Pairing' /\ Standstill' /\ Forms'
  <1>1. /\ UNCHANGED <<eisr, ticks, icrr, type4, db0, db3, registered, alive, mode, flags,
                       skipLock>>
        /\ SSame /\ GSame
    BY DEF Deciding, irqVars, doorbellVars, cmeVars, sysVars, pgpeVars
  <1>2. SamePgpe /\ Interlock' = Interlock /\ SameBits
    BY <1>1, SameFrame DEF SameBits
  <1>3. Q1[1] \in {"NotifySibling", "ReadDb0", "RegisterDb0"}
    BY DEF Deciding
  <1>4. Lines'
    BY <1>1, <1>2, <1>3, QuietLines DEF AnswerKinds, Kept
  <1>5. Forms'
    BY <1>1, <1>2, FormsKept DEF Kept, Forms, SSame
  <1>6. Ticks'
    <2>1. Q1'[1] # "ReadDb0"
      BY DEF Firsts
    <2>2. Q1[1] = "RegisterDb0" => RegDue
      <3> SUFFICES ASSUME Q1[1] = "RegisterDb0" PROVE RegDue
        OBVIOUS
      <3>1. Q1 # End
        BY NoEnd
      <3>2. Q1 \in Steps
        BY <3>1, Heads
      <3>3. Q1 = <<"RegisterDb0", Q1[2]>> /\ Q1 \in RQ
        BY <3>2, Heads
      <3>4. Q1[2] \in 1 .. 3
        BY <3>2, Arguments DEF RegisterKinds
      <3> QED BY <3>3, <3>4 DEF RegDue, RegLeft
    <2>3. Q1[1] \in {"ReadDb0", "RegisterDb0"} => ticks["DB0"] = 0
      <3>1. ~(ticks["DB0"] > 0) \/ Q1[1] \notin {"ReadDb0", "RegisterDb0"}
        BY <2>2 DEF Kept, Ticks, T1
      <3> QED BY <3>1, NoTicks
    <2> QED BY <1>1, <1>3, <2>1, <2>3, QmTicks DEF Kept
  <1>7. Pairing'
    <2>1. ~QClipMid /\ ~QHbMid /\ \A k \in Ks : ~QOpen(k)
      BY <1>3 DEF QClipMid, QHbMid, Answered2, Awaits, AnswerKinds, QOpen, Unanswered, Is
    <2> QED BY <1>1, <2>1, QmPairing DEF Kept
  <1>8. K1'
    <2>1. \A x \in RQ : x[1] = "EndDb3" => x \in RQ'
      BY <1>3
    <2> QED BY <1>1, <2>1 DEF Kept, Standstill, K1
  <1>9. Standstill'
    <2>1. CASE Q1'[1] # "UpdateAnalog"
      BY <1>8, <2>1, QmStandstill DEF Firsts, AnswerKinds
    <2>2. CASE Q1'[1] = "UpdateAnalog"
      <3>3. Held
        BY <2>2 DEF Kept, Standstill, L4
      <3>4. Held'
        BY <1>1, <3>3, SamesViews DEF Held
      <3> QED BY <1>8, <2>2, <3>4 DEF Standstill, L1, L2, L3, L4, L5, QHbMid, Answered2,
              Awaits, AnswerKinds, Is
    <2> QED BY <2>1, <2>2
  <1> QED BY <1>4, <1>5, <1>6, <1>7, <1>9 DEF Kept


Notified(i, R, t) ==
    /\ t = Notify(i) \o R /\ QForm(t)
    /\ Item(t, 1)[1] = "Raise" /\ Item(t, 1)[2] = i
    /\ \A y \in StepsOf(t) :
           y \in StepsOf(R) \/ (y[1] \in {"Raise", "AwaitAnswer"} /\ y[2] = i)
    /\ StepsOf(R) \subseteq StepsOf(t)

LEMMA NotifyForm ==
    ASSUME NEW i \in {"IN0", "IN1"}, NEW R \in Seq(Steps), QForm(R),
           Item(R, 1)[1] \in AckKinds \ {"ReadDb0"},
           \A y \in StepsOf(R) : y[1] # "Register" /\ ~(y[1] = "Send" /\ y[2] = "INIT")
    PROVE  \E t \in Seq(Steps) : Notified(i, R, t)
  <1>0. \A k \in SignalKinds : <<k, i>> \in Steps
    <2>1. i \in Signals
      BY DEF Signals
    <2> QED BY <2>1 DEF Steps
  <1>1. PICK x \in Steps : x = <<"AwaitAnswer", i>> /\ x[1] = "AwaitAnswer" /\ x[2] = i
    BY <1>0 DEF SignalKinds
  <1>2. PICK z \in Steps : z = <<"Raise", i>> /\ z[1] = "Raise" /\ z[2] = i
    BY <1>0 DEF SignalKinds
  <1>3. PICK s \in Seq(Steps) :
            /\ s = Cons(x, R) /\ QForm(s) /\ Item(s, 1) = x
            /\ StepsOf(s) = {x} \union StepsOf(R)
    <2> DEFINE y == Item(R, 1)
    <2> HIDE DEF y
    <2>1. y[1] \in AckKinds \ {"ReadDb0"}
      BY DEF y
    <2>2. QThen(x, y)
      BY <1>1, <2>1 DEF QThen, QmKinds, AnswerKinds
    <2>3. QWhence(x, y)
      BY <1>1, <2>1 DEF QWhence, AckKinds, AnswerKinds
    <2>4. QClip(x, y, Item(R, 2))
      BY <1>1 DEF QClip, In2
    <2>5. QNext(x, Item(R, 1), Item(R, 2))
      BY <2>2, <2>3, <2>4 DEF QNext, y
    <2>6. \A w \in StepsOf(R) : QAfter(x, w)
      BY <1>1 DEF QAfter, AckKinds
    <2> QED BY <2>5, <2>6, QCons
  <1>4. PICK t \in Seq(Steps) :
            /\ t = Cons(z, s) /\ QForm(t) /\ Item(t, 1) = z
            /\ StepsOf(t) = {z} \union StepsOf(s)
    <2>2. QThen(z, x)
      BY <1>1, <1>2 DEF QThen, QmKinds, AnswerKinds
    <2>3. QWhence(z, x)
      BY <1>1, <1>2 DEF QWhence, AckKinds, AnswerKinds
    <2>4. QClip(z, x, Item(s, 2))
      BY <1>2 DEF QClip, In2
    <2>5. QNext(z, Item(s, 1), Item(s, 2))
      BY <1>3, <2>2, <2>3, <2>4 DEF QNext
    <2>6. \A w \in StepsOf(R) : QAfter(z, w)
      BY <1>2 DEF QAfter, AckKinds
    <2>7. QAfter(z, x)
      BY <1>1, <1>2 DEF QAfter, AckKinds
    <2> QED BY <1>3, <2>5, <2>6, <2>7, QCons
  <1>5. t = Notify(i) \o R
    BY <1>1, <1>2, <1>3, <1>4, ScriptChains, ZenonT(60) DEF Signals
  <1>6. \A y \in StepsOf(t) :
             y \in StepsOf(R) \/ (y[1] \in {"Raise", "AwaitAnswer"} /\ y[2] = i)
    BY <1>1, <1>2, <1>3, <1>4
  <1> QED BY <1>2, <1>3, <1>4, <1>5, <1>6 DEF Notified

LEMMA KeepsNotifySibling ==
    ASSUME TypeInv, Kept, NotifySibling
    PROVE  Kept'
  <1>1. PICK i \in {"IN0", "IN1"} : At("qm", "NotifySibling") /\ Then("qm", Notify(i))
    BY DEF NotifySibling, Running
  <1>2. Notify(i) \in Seq(Steps)
    BY PlainSteps DEF Signals
  <1>3. PICK R \in Seq(Steps) :
               /\ todo'["qm"] = Notify(i) \o R
               /\ QForm(R) /\ Item(R, 1) = Q2 /\ Item(R, 2) = Q3
               /\ RQ = {Q1} \union StepsOf(R)
               /\ QNext(Q1, Q2, Q3) /\ \A y \in StepsOf(R) : QAfter(Q1, y)
               /\ SSame /\ GSame
               /\ Q1 \in Steps /\ Q1[1] = "NotifySibling"
    BY <1>1, <1>2, QThens DEF Kept
  <1>4. Item(R, 1)[1] \in AckKinds \ {"ReadDb0"}
    BY <1>3 DEF QNext, QThen, QWhence
  <1>5. \A y \in StepsOf(R) : y[1] # "Register" /\ ~(y[1] = "Send" /\ y[2] = "INIT")
    BY <1>3 DEF QAfter, Prelude
  <1>6. PICK t \in Seq(Steps) : Notified(i, R, t)
    <2>1. R \in Seq(Steps) /\ QForm(R)
      BY <1>3
    <2>2. i \in {"IN0", "IN1"}
      BY <1>1
    <2> QED BY <1>4, <1>5, <2>1, <2>2, NotifyForm
  <1>7. /\ QForm(todo["qm"])' /\ Q1'[1] = "Raise" /\ Q1'[2] = i
        /\ \A y \in RQ' :
                  y \in StepsOf(R) \/ (y[1] \in {"Raise", "AwaitAnswer"} /\ y[2] = i)
        /\ StepsOf(R) \subseteq RQ'
    BY <1>3, <1>6 DEF Notified, QForm, Q1, RQ
  <1>8. UNCHANGED <<eisr, ticks, icrr, type4, db0, db3, registered, alive, mode, flags,
                    skipLock>>
    BY DEF NotifySibling, irqVars, doorbellVars, cmeVars, sysVars, pgpeVars
  <1>9. \A y : y[1] \notin {"Raise", "AwaitAnswer", "NotifySibling"} =>
               (y \in RQ' <=> y \in RQ)
    BY <1>3, <1>7
  <1>10. /\ SamePgpe /\ Interlock' = Interlock
         /\ Deciding
    BY <1>3, <1>8, SameFrame DEF Deciding, NotifySibling
  <1>11. \A k, v : k \notin {"Raise", "AwaitAnswer", "NotifySibling"} =>
               (<<k, v>> \in RQ' <=> <<k, v>> \in RQ)
    BY <1>9
  <1>12. /\ HasReg' <=> HasReg
         /\ \A n \in 1 .. 3 : RegLeft(n)' <=> RegLeft(n)
         /\ \A m \in MTypes : <<"Send", m>> \in RQ' <=> <<"Send", m>> \in RQ
         /\ <<"ClearDb0", "">> \in RQ => <<"ClearDb0", "">> \in RQ'
         /\ <<"Db0Started", "">> \in RQ <=> <<"Db0Started", "">> \in RQ'
    BY <1>11 DEF HasReg, RegLeft
  <1>13. RegDue' <=> RegDue
    BY <1>12 DEF RegDue
  <1>14. AckDue' <=> AckDue
    BY <1>9 DEF AckDue, AckKinds
  <1>15. In2Due' => In2Due
    BY <1>3, <1>7 DEF In2, In2Due
  <1>16. Exchange'
    <2>1. NoMoreDue
      BY <1>7, <1>8, <1>12, <1>13, <1>14, <1>15 DEF NoMoreDue, RegHead
    <2> QED BY <1>8, <1>10, <2>1, NoMoreExchange DEF Kept
  <1>17. Lines' /\ Ticks' /\ Pairing' /\ Standstill' /\ Forms'
    <2>1. Q1'[1] \in Firsts \union {"Raise", "EndDb0", "EndDb3", "AwaitDb0"}
          /\ Q1'[1] # "UpdateAnalog"
      BY <1>7
    <2> QED BY <1>3, <1>7, <1>10, <1>12, <1>13, <2>1, DecidingKept
  <1>18. Boot'
    <2>1. \A m \in MTypes : ~Unacked(m) /\ ~Unacked(m)'
      BY <1>3, <1>7 DEF Unacked, Is
    <2>2. \A m \in MTypes : SendDue(m)' <=> SendDue(m)
      BY <1>12, <2>1 DEF SendDue
    <2>3. ~Unacked("LOCK")
      BY <2>1 DEF MTypes
    <2> QED BY <1>3, <1>8, <1>10, <1>12, <2>2, <2>3, QmBoot DEF Kept
  <1> QED BY <1>16, <1>17, <1>18 DEF Kept


LEMMA ReadScript ==
    ASSUME TypeInv, ReadDb0, NEW R \in Seq(Steps), Ends(R)
    PROVE  \E handler \in Seq(Steps) :
               Then("qm", handler) /\ (handler = <<>> \/ Script(handler \o R, R))
  <1>1. PICK d \in Db0Messages : d = db0["qm"]
    BY CmesAre DEF TypeInv, DoorbellType
  <1>2. PICK handler : /\ Then("qm", handler)
                       /\ \/ handler = <<>> \/ handler = Db0Start(d)
                          \/ handler = Db0GlbBcast(d) \/ handler = Db0Stop
                          \/ handler = Db0ClipBcast(d)
                          \/ d.msg = "PMSR" /\ handler = Db0PmsrUpdt(d)
                          \/ handler = SendAck("ok") \/ handler = SendAck("error")
    BY <1>1 DEF ReadDb0
  <1>3. handler \in Seq(Steps)
    <2>1. SendAck("ok") \in Seq(Steps) /\ SendAck("error") \in Seq(Steps)
      BY PlainSteps DEF Acks
    <2>2. <<>> \in Seq(Steps)
      OBVIOUS
    <2> QED BY <1>2, <2>1, <2>2, Db0Scripts
  <1>4. CASE handler = Db0Start(d)
    BY <1>2, <1>3, <1>4, ChangeScript DEF Db0Start
  <1>5. CASE handler = Db0GlbBcast(d)
    BY <1>2, <1>3, <1>5, ChangeScript DEF Db0GlbBcast
  <1>6. CASE handler = Db0Stop
    BY <1>2, <1>3, <1>6, StopScript
  <1>7. CASE handler = Db0ClipBcast(d)
    BY <1>2, <1>3, <1>7, ClipScript
  <1>8. CASE d.msg = "PMSR" /\ handler = Db0PmsrUpdt(d)
    BY <1>2, <1>3, <1>8, SuspendedScript
  <1>9. CASE handler = SendAck("ok") \/ handler = SendAck("error")
    BY <1>2, <1>3, <1>9, AnswerScript DEF Acks
  <1> QED BY <1>2, <1>3, <1>4, <1>5, <1>6, <1>7, <1>8, <1>9

LEMMA LastStep ==
    ASSUME NEW R \in Seq(Steps), QForm(R), Item(R, 1)[1] \in {"EndDb0", "EndDb3"}
    PROVE  StepsOf(R) = {Item(R, 1)} /\ Ends(R)
  <1>1. Item(R, 1) # End
    BY NoEnd
  <1>2. R # <<>>
    BY <1>1, ItemsOf
  <1>3. Item(R, 2)[1] = "none"
    BY <1>1, QFormAt DEF QNext, QThen
  <1>4. \A x \in Steps : x[1] # "none"
    BY DEF Steps, PlainKinds, SignalKinds, MsgKinds, RegisterKinds
  <1>5. Item(R, 2) = End
    BY <1>3, <1>4, ItemsOf
  <1>6. Item(Tail(R), 1) = End /\ Tail(R) \in Seq(Steps)
    BY <1>2, <1>5, TailItems
  <1>7. Tail(R) = <<>>
    BY <1>6, ItemsOf
  <1>8. StepsOf(R) = {Item(R, 1)}
    BY <1>2, <1>7, TailItems, EmptyItems
  <1>9. TailStep(Item(R, 1))
    BY DEF TailStep
  <1> QED BY <1>8, <1>9 DEF Ends

LEMMA KeepsReadDb0 ==
    ASSUME TypeInv, Kept, ReadDb0
    PROVE  Kept'
  <1>1. At("qm", "ReadDb0")
    BY DEF ReadDb0, Running
  <1>2. PICK R \in Seq(Steps) :
               /\ R = Tail(todo["qm"])
               /\ QForm(R) /\ Item(R, 1) = Q2
               /\ RQ = {Q1} \union StepsOf(R)
               /\ QNext(Q1, Q2, Q3) /\ \A y \in StepsOf(R) : QAfter(Q1, y)
               /\ Q1 \in Steps /\ Q1[1] = "ReadDb0"
    BY <1>1, QRest DEF Kept
  <1>3. Item(R, 1)[1] \in {"EndDb0", "EndDb3"}
    BY <1>2 DEF QNext, QThen
  <1>4. R \in Seq(Steps) /\ QForm(R)
    BY <1>2
  <1>5. StepsOf(R) = {Item(R, 1)} /\ Ends(R)
    BY <1>3, <1>4, LastStep
  <1>6. PICK handler \in Seq(Steps) :
            Then("qm", handler) /\ (handler = <<>> \/ Script(handler \o R, R))
    BY <1>4, <1>5, ReadScript
  <1>7. /\ todo'["qm"] = handler \o R /\ SSame /\ GSame
    BY <1>6, <1>1, <1>2, QThens DEF Kept
  <1>8. /\ QForm(todo["qm"])'
        /\ Q1'[1] \in Firsts \union {"Raise", "EndDb0", "EndDb3", "AwaitDb0"}
        /\ Q1'[1] = "UpdateAnalog" => "qm" \in skipLock
        /\ \A y \in RQ' : HandStep(y) \/ y = Q2
        /\ StepsOf(R) \subseteq RQ'
    <2>1. CASE handler = <<>>
      BY <1>4, <1>7, <2>1, <1>2, <1>3, <1>5, Concat DEF QForm, Q1, RQ
    <2>2. CASE Script(handler \o R, R)
      <3>1. PICK t \in Seq(Steps) : t = todo'["qm"] /\ Script(t, R)
        BY <1>7, <2>2 DEF Script
      <3>2. /\ QForm(t) /\ \A y \in StepsOf(t) : HandStep(y) \/ y \in StepsOf(R)
            /\ StepsOf(R) \subseteq StepsOf(t) /\ Item(t, 1)[1] \in Firsts
            /\ Item(t, 1)[1] = "UpdateAnalog" => "qm" \in skipLock
        BY <3>1 DEF Script, Handles
      <3> QED BY <1>2, <1>5, <3>1, <3>2 DEF QForm, Q1, RQ
    <2> QED BY <1>6, <2>1, <2>2
  <1>9. UNCHANGED <<eisr, ticks, icrr, type4, db0, db3, registered, alive, mode, flags,
                    skipLock>>
    BY DEF ReadDb0, irqVars, doorbellVars, cmeVars, sysVars, pgpeVars
  <1>10. SamePgpe /\ Interlock' = Interlock /\ Deciding
    BY <1>2, <1>7, <1>9, SameFrame DEF Deciding, ReadDb0
  <1>11. Q2[1] \in {"EndDb0", "EndDb3"} /\ RQ = {Q1, Q2}
    BY <1>2, <1>3, <1>5
  <1>12. /\ \A y \in RQ' : y[1] \notin {"Register", "RegisterDb0", "ClearDb0"} /\ ~In2(y)
         /\ \A y \in RQ' : y[1] \in {"Send", "AwaitMsgAck"} => y[2] = "LOCK"
    BY <1>8, <1>11 DEF HandStep, In2
  <1>13. /\ \A y \in RQ : y[1] \notin {"Register", "RegisterDb0", "ClearDb0", "Db0Started",
                                        "Send", "AwaitMsgAck"} /\ ~In2(y)
    BY <1>2, <1>11 DEF In2
  <1>14. /\ ~HasReg /\ ~HasReg' /\ ~RegDue /\ ~RegDue' /\ ~In2Due'
         /\ <<"ClearDb0", "">> \notin RQ /\ <<"Db0Started", "">> \notin RQ
         /\ \A m \in {"INIT", "SYNC"} : <<"Send", m>> \notin RQ /\ <<"Send", m>> \notin RQ'
    <2>1. \A x : <<"Register", x>> \notin RQ' /\ <<"RegisterDb0", x>> \notin RQ'
      BY <1>12
    <2>2. \A x : /\ <<"Register", x>> \notin RQ /\ <<"RegisterDb0", x>> \notin RQ
                 /\ <<"ClearDb0", x>> \notin RQ /\ <<"Db0Started", x>> \notin RQ
                 /\ <<"Send", x>> \notin RQ
      BY <1>13
    <2>3. \A m \in {"INIT", "SYNC"} : <<"Send", m>> \notin RQ'
      BY <1>12
    <2> QED BY <1>12, <2>1, <2>2, <2>3 DEF HasReg, RegDue, RegLeft, In2Due
  <1>15. AckDue /\ "DB0" \notin eisr["qm"]
    <2>1. AckDue
      BY <1>2, <1>11 DEF AckDue, AckKinds
    <2> QED BY <1>14, <2>1 DEF Kept, Exchange, E3
  <1>16. Exchange'
    <2>1. Q1'[1] # "RegisterDb0"
      BY <1>8 DEF Firsts
    <2>2. NoMoreDue
      BY <1>9, <1>14, <1>15, <2>1 DEF NoMoreDue, RegHead
    <2> QED BY <1>9, <1>10, <2>2, NoMoreExchange DEF Kept
  <1>17. Lines' /\ Ticks' /\ Pairing' /\ Standstill' /\ Forms'
    BY <1>2, <1>8, <1>10, DecidingKept
  <1>18. Boot'
    <2>1. \A m \in {"INIT", "SYNC", "LOCK"} : ~Unacked(m) /\ ~Unacked(m)'
      BY <1>2, <1>8 DEF Unacked, Is, Firsts
    <2>2. /\ ~SendDue("INIT") /\ ~SendDue("INIT")' /\ ~SendDue("SYNC") /\ ~SendDue("SYNC")'
      BY <1>14, <2>1 DEF SendDue
    <2>3. /\ S1' = S1 /\ RS' = RS /\ Locks(todo["sib"])' = Locks(todo["sib"])
      BY <1>7, SamesViews
    <2>4. B2'
      BY <2>1, <2>2, <2>3 DEF Kept, Boot, B2
    <2> QED BY <1>14, <2>2, <2>4 DEF Boot, B1, B3, B4, B5
  <1> QED BY <1>16, <1>17, <1>18 DEF Kept


-----------------------------------------------------------------------------
(* The registration: what comes after it, and how many messages are left.  *)
Finishes(R) ==
    /\ QForm(R) /\ \A y \in StepsOf(R) : Finale(y)
    /\ Item(R, 1)[1] = "Send" /\ Item(R, 1)[2] = "SYNC"
Registers(m, R, t) ==
    /\ t = Registration(m) \o R /\ Ends(t)
    /\ Item(t, 1)[1] \in {"Registered", "AwaitDb0"}
    /\ \A y \in StepsOf(t) :
           \/ y \in StepsOf(R) \/ (y[1] = "Registered" /\ m = 0)
           \/ y[1] \in {"AwaitDb0", "RegisterDb0"} /\ y[2] = m /\ m \in 1 .. 3
    /\ StepsOf(R) \subseteq StepsOf(t)
    /\ m \in 1 .. 3 => <<"RegisterDb0", m>> \in StepsOf(t)

LEMMA FinaleIsTail == \A y : Finale(y) => TailStep(y)
  BY DEF Finale, TailStep

LEMMA RegisteredLast ==
    ASSUME NEW R \in Seq(Steps), Finishes(R)
    PROVE  \E t \in Seq(Steps) : Registers(0, R, t)
  <1>1. PICK x \in Steps : x = <<"Registered", "">> /\ x[1] = "Registered"
    <2>1. \A k \in PlainKinds : <<k, "">> \in Steps
      BY DEF Steps
    <2> QED BY <2>1 DEF PlainKinds
  <1>2. QForm(R) /\ Item(R, 1)[1] = "Send" /\ Item(R, 1)[2] = "SYNC"
    BY DEF Finishes
  <1>3. QNext(x, Item(R, 1), Item(R, 2))
    BY <1>1, <1>2 DEF QNext, QThen, QWhence, QClip, QmKinds, AnswerKinds, In2
  <1>4. \A y \in StepsOf(R) : QAfter(x, y)
    BY <1>1 DEF Finishes, QAfter, Finale, AckKinds
  <1>5. PICK t \in Seq(Steps) :
            /\ t = Cons(x, R) /\ QForm(t) /\ Item(t, 1) = x
            /\ StepsOf(t) = {x} \union StepsOf(R)
    BY <1>2, <1>3, <1>4, QCons
  <1>6. t = Registration(0) \o R
    BY <1>1, <1>5, ScriptChains DEF Registration, PlainKinds
  <1>7. TailStep(x)
    BY <1>1 DEF TailStep
  <1>8. \A y \in StepsOf(t) : TailStep(y)
    BY <1>5, <1>7, FinaleIsTail DEF Finishes
  <1>9. Ends(t)
    BY <1>1, <1>5, <1>8 DEF Ends
  <1>10. ~(0 \in 1 .. 3)
    OBVIOUS
  <1> QED BY <1>1, <1>5, <1>6, <1>9, <1>10 DEF Registers

LEMMA RegisterNext ==
    ASSUME NEW m \in 1 .. 3, NEW R \in Seq(Steps), Finishes(R)
    PROVE  \E t \in Seq(Steps) : Registers(m, R, t)
  <1>20. \A k \in RegisterKinds : <<k, m>> \in Steps
    BY DEF Steps
  <1>1. PICK x \in Steps : x = <<"RegisterDb0", m>> /\ x[1] = "RegisterDb0" /\ x[2] = m
    BY <1>20 DEF RegisterKinds
  <1>0. PICK z \in Steps : z = <<"AwaitDb0", m>> /\ z[1] = "AwaitDb0" /\ z[2] = m
    BY <1>20 DEF RegisterKinds
  <1>2. QForm(R) /\ Item(R, 1)[1] = "Send" /\ Item(R, 1)[2] = "SYNC"
    BY DEF Finishes
  <1>3. QNext(x, Item(R, 1), Item(R, 2))
    BY <1>1, <1>2 DEF QNext, QThen, QWhence, QClip, QmKinds, AnswerKinds, In2
  <1>4. \A y \in StepsOf(R) : QAfter(x, y)
    BY <1>1 DEF Finishes, QAfter, Finale, AckKinds
  <1>5. PICK s \in Seq(Steps) :
            /\ s = Cons(x, R) /\ QForm(s) /\ Item(s, 1) = x
            /\ StepsOf(s) = {x} \union StepsOf(R)
    BY <1>2, <1>3, <1>4, QCons
  <1>6. QNext(z, Item(s, 1), Item(s, 2))
    BY <1>0, <1>1, <1>5 DEF QNext, QThen, QWhence, QClip, QmKinds, AnswerKinds, In2
  <1>7. \A y \in StepsOf(s) : QAfter(z, y)
    <2>1. QAfter(z, x)
      BY <1>0, <1>1 DEF QAfter, AckKinds
    <2>2. \A y \in StepsOf(R) : QAfter(z, y)
      BY <1>0 DEF Finishes, QAfter, Finale, AckKinds
    <2> QED BY <1>5, <2>1, <2>2
  <1>8. PICK t \in Seq(Steps) :
            /\ t = Cons(z, s) /\ QForm(t) /\ Item(t, 1) = z
            /\ StepsOf(t) = {z} \union StepsOf(s)
    BY <1>5, <1>6, <1>7, QCons
  <1>9. t = Registration(m) \o R
    <2>1. <<z, x>> \o R = Cons(z, Cons(x, R))
      BY TwoCons
    <2>2. m # 0
      OBVIOUS
    <2> QED BY <1>0, <1>1, <1>5, <1>8, <2>1, <2>2 DEF Registration
  <1>10. TailStep(x) /\ TailStep(z)
    BY <1>0, <1>1 DEF TailStep
  <1>11. \A y \in StepsOf(t) : TailStep(y)
    BY <1>5, <1>8, <1>10, FinaleIsTail DEF Finishes
  <1>12. Ends(t)
    BY <1>0, <1>8, <1>11 DEF Ends
  <1>13. /\ StepsOf(R) \subseteq StepsOf(t) /\ <<"RegisterDb0", m>> \in StepsOf(t)
         /\ \A y \in StepsOf(t) : y \in StepsOf(R)
                 \/ (y[1] \in {"AwaitDb0", "RegisterDb0"} /\ y[2] = m)
    BY <1>0, <1>1, <1>5, <1>8
  <1>14. Item(t, 1)[1] = "AwaitDb0"
    BY <1>0, <1>8
  <1> QED BY <1>9, <1>12, <1>13, <1>14 DEF Registers


LEMMA RegisteringViews ==
    ASSUME TypeInv, Kept, NEW k \in {"Register", "RegisterDb0"}, At("qm", k)
    PROVE  \E R \in Seq(Steps) :
               /\ R = Tail(todo["qm"]) /\ Finishes(R)
               /\ RQ = {Q1} \union StepsOf(R)
               /\ Q1 \in Steps /\ Q1[1] = k /\ Q1[2] = Argument("qm")
               /\ "qm" \notin skipLock
               /\ <<"Send", "SYNC">> \in StepsOf(R)
               /\ \A x : <<"Send", x>> \in RQ => x = "SYNC"
               /\ \A y \in StepsOf(R) : y[1] \in {"Send", "AwaitMsgAck", "Ready"}
  <1>1. PICK R \in Seq(Steps) :
               /\ R = Tail(todo["qm"])
               /\ QForm(R) /\ Item(R, 1) = Q2 /\ Item(R, 2) = Q3
               /\ RQ = {Q1} \union StepsOf(R)
               /\ QNext(Q1, Q2, Q3) /\ \A y \in StepsOf(R) : QAfter(Q1, y)
               /\ Q1 \in Steps /\ Q1[1] = k /\ Q1[2] = Argument("qm")
    BY QRest DEF Kept
  <1>2. Finishes(R)
    <2>1. \A y \in StepsOf(R) : Finale(y)
      BY <1>1 DEF QAfter
    <2>2. Q2[1] = "Send" /\ Q2[2] = "SYNC"
      BY <1>1 DEF QNext, QThen
    <2> QED BY <1>1, <2>1, <2>2 DEF Finishes
  <1>3. \A y \in StepsOf(R) : y[1] \in {"Send", "AwaitMsgAck", "Ready"}
    BY <1>2 DEF Finishes, Finale
  <1>4. "qm" \notin skipLock
    BY <1>1, <1>3 DEF Kept, Standstill, K1
  <1>5. <<"Send", "SYNC">> \in StepsOf(R)
    <2>1. Item(R, 1) # End
      BY <1>2, NoEnd DEF Finishes
    <2>2. Item(R, 1) \in StepsOf(R) /\ Item(R, 1) \in Steps
      BY <2>1, ItemsOf
    <2>3. Item(R, 1) = <<"Send", "SYNC">>
      BY <1>2, <2>2, StepIsPair DEF Finishes
    <2> QED BY <2>2, <2>3
  <1>6. \A x : <<"Send", x>> \in RQ => x = "SYNC"
    BY <1>1, <1>2 DEF Finishes, Finale
  <1> QED BY <1>1, <1>2, <1>3, <1>4, <1>5, <1>6

LEMMA KeepsRegister ==
    ASSUME TypeInv, Kept, Register("qm")
    PROVE  Kept'
  <1>1. At("qm", "Register") /\ Forms
    BY DEF Register, Running, Kept
  <1>2. PICK R \in Seq(Steps) :
               /\ R = Tail(todo["qm"]) /\ Finishes(R)
               /\ RQ = {Q1} \union StepsOf(R)
               /\ Q1 \in Steps /\ Q1[1] = "Register" /\ Q1[2] = Argument("qm")
               /\ "qm" \notin skipLock
               /\ <<"Send", "SYNC">> \in StepsOf(R)
               /\ \A x : <<"Send", x>> \in RQ => x = "SYNC"
               /\ \A y \in StepsOf(R) : y[1] \in {"Send", "AwaitMsgAck", "Ready"}
    BY <1>1, RegisteringViews
  <1>3. PICK m \in 0 .. 3 : Then("qm", Registration(m)) /\ m = (IF Interlock THEN 3 ELSE 0)
    BY DEF Register, Interlock
  <1>4. todo'["qm"] = Registration(m) \o R /\ SSame /\ GSame
    BY <1>3, <1>1, <1>2, RegistrationScript, QThens
  <1>5. PICK t \in Seq(Steps) : t = todo'["qm"] /\ Registers(m, R, t)
    <2>1. R \in Seq(Steps) /\ Finishes(R)
      BY <1>2
    <2>2. PICK u \in Seq(Steps) : Registers(m, R, u)
      BY <1>3, <2>1, RegisteredLast, RegisterNext
    <2>3. u = todo'["qm"]
      BY <1>4, <2>2 DEF Registers
    <2> QED BY <2>2, <2>3
  <1>6. /\ QForm(todo["qm"])' /\ Q1'[1] \in {"Registered", "AwaitDb0"}
        /\ StepsOf(R) \subseteq RQ'
        /\ m \in 1 .. 3 => <<"RegisterDb0", m>> \in RQ'
        /\ \A y \in RQ' :
               \/ y \in StepsOf(R) \/ y[1] = "Registered"
               \/ y[1] \in {"AwaitDb0", "RegisterDb0"} /\ y[2] = m /\ m \in 1 .. 3
    BY <1>5 DEF Registers, Ends, QForm, Q1, RQ
  <1>7. /\ eisr'["qm"] = eisr["qm"] \ {"DB0"} /\ eisr'["sib"] = eisr["sib"]
        /\ type4' = "available"
        /\ flags'["qm"] = flags["qm"] \union {"REGISTERING"} /\ flags'["sib"] = flags["sib"]
        /\ UNCHANGED <<ticks, icrr, db0, db3, registered, alive, mode, skipLock>>
    <2>1. eisr' = Clearing("qm", {"DB0"}, eisr)
      BY DEF Register
    <2>2. eisr'["qm"] = eisr["qm"] \ {"DB0"} /\ eisr'["sib"] = eisr["sib"]
      BY <2>1, BitViews DEF Bits
    <2>3. flags \in [Cmes -> SUBSET Flags]
      BY DEF TypeInv, CmeType
    <2>4. flags'["qm"] = flags["qm"] \union {"REGISTERING"} /\ flags'["sib"] = flags["sib"]
      BY <2>3 DEF Register, Cmes
    <2> QED BY <2>2, <2>4 DEF Register, sysVars, pgpeVars
  <1>8. SamePgpe /\ Interlock' = Interlock /\ SameBits
    BY <1>4, <1>7 DEF SamePgpe, Interlock, SameBits
  <1>9. /\ HasReg /\ ~HasReg' /\ ~AckDue' /\ ~In2Due' /\ (RegDue' <=> Interlock)
        /\ Q1'[1] # "RegisterDb0"
    <2>1. HasReg
      <3>1. Q1[2] = ""
        BY <1>2, Blank DEF PlainKinds
      <3> QED BY <1>2, <3>1, StepIsPair DEF HasReg
    <2>2. \A y \in RQ' : y[1] \notin AckKinds \union {"Register"} /\ ~In2(y)
      BY <1>2, <1>6 DEF AckKinds, In2
    <2>3. ~HasReg' /\ ~AckDue' /\ ~In2Due'
      <3>1. \A x : <<"Register", x>> \notin RQ'
        BY <2>2
      <3> QED BY <2>2, <3>1 DEF HasReg, AckDue, In2Due
    <2>4. \A n : <<"RegisterDb0", n>> \in RQ' => n = m /\ m \in 1 .. 3
      BY <1>2, <1>6
    <2>5. m \in 1 .. 3 <=> Interlock
      BY <1>3
    <2>6. RegDue' <=> Interlock
      BY <1>6, <2>4, <2>5 DEF RegDue, RegLeft
    <2> QED BY <1>6, <2>1, <2>3, <2>6
  <1>10. ~registered /\ type4 = "none"
    BY <1>9 DEF Kept, Exchange, E6
  <1>11. Forms'
    BY <1>4, <1>6, <1>7, <1>8, FormsKept DEF Kept, Forms, SSame
  <1>12. Lines'
    BY <1>2, <1>4, <1>7, <1>8, QuietLines DEF Kept, AnswerKinds
  <1>13. Ticks'
    <2>1. ticks["DB0"] = 0
      BY <1>9, NoTicks DEF Kept, Ticks, T1
    <2> QED BY <1>4, <1>7, <2>1, QmTicks DEF Kept
  <1>14. Standstill'
    <2>1. K1'
      BY <1>2, <1>7 DEF K1
    <2> QED BY <1>6, <2>1, QmStandstill DEF AnswerKinds
  <1>15. Pairing'
    <2>1. ~QClipMid /\ ~QHbMid /\ \A k \in Ks : ~QOpen(k)
      BY <1>2 DEF QClipMid, QHbMid, Answered2, Awaits, AnswerKinds, QOpen, Unanswered, Is
    <2>2. /\ \A b \in {"HB", "DB3"} : b \in eisr'["sib"] <=> b \in eisr["sib"]
          /\ "HB" \in eisr["qm"] => "HB" \in eisr'["qm"]
          /\ "DB3" \in eisr["qm"] => "DB3" \in eisr'["qm"]
          /\ type4' # "none" /\ db3' = db3
      BY <1>7
    <2> QED BY <1>4, <2>1, <2>2, QmPairing DEF Kept
  <1>16. Boot'
    <2>1. \A k \in MTypes : ~Unacked(k) /\ ~Unacked(k)'
      BY <1>2, <1>6 DEF Unacked, Is
    <2>2. SendDue("SYNC") /\ SendDue("SYNC")'
      BY <1>2, <1>6 DEF SendDue
    <2>3. \A x : <<"Send", x>> \in RQ' => x = "SYNC"
      BY <1>2, <1>6
    <2>4. ~SendDue("LOCK") /\ ~SendDue("LOCK")' /\ ~SendDue("INIT") /\ ~SendDue("INIT")'
      BY <1>2, <2>1, <2>3 DEF SendDue, MTypes
    <2>5. \A n : <<"RegisterDb0", n>> \in RQ' => n = m /\ m \in 1 .. 3
      BY <1>2, <1>6
    <2>6. Interlock => m = 3 /\ RegLeft(3)' /\ ~RegLeft(1)' /\ ~RegLeft(2)'
      BY <1>3, <1>6, <2>5 DEF RegLeft
    <2>7. ~Interlock => ~RegLeft(3)' /\ ~RegLeft(1)' /\ ~RegLeft(2)'
      BY <1>3, <2>5 DEF RegLeft
    <2>8. RegistrationsLeft' = RegistrationsLeft
      BY <1>8, <1>9, <2>6, <2>7 DEF RegistrationsLeft
    <2>9. LocksDue' = LocksDue
      BY <2>4, <2>8 DEF LocksDue
    <2>10. /\ S1' = S1 /\ RS' = RS /\ Locks(todo["sib"])' = Locks(todo["sib"])
      BY <1>4, SamesViews
    <2>11. LocksLeft' = LocksLeft
      BY <1>8, <2>10 DEF LocksLeft
    <2>12. B1'
      BY <2>2, <2>4, <2>9, <2>10, <2>11 DEF Kept, Boot, B1
    <2> QED BY <1>7, <1>9, <2>2, <2>4, <2>12 DEF Boot, B2, B3, B4, B5
  <1>17. Exchange'
    <2>1. /\ G1' = G1 /\ G2' = G2 /\ G3' = G3 /\ Msg0' = Msg0
      BY <1>4, <1>7, SamesViews DEF Msg0
    <2>2. \A c \in Cmes : eisr[c] \intersect {"DB3", "HB"} = {}
      BY <1>10 DEF Kept, Exchange, E5
    <2>3. /\ "DB0" \notin eisr'["qm"] /\ "DB3" \notin eisr'["qm"] /\ "HB" \notin eisr'["qm"]
          /\ "DB3" \notin eisr'["sib"] /\ "HB" \notin eisr'["sib"]
      BY <1>7, <2>2 DEF Cmes
    <2>4. ~Due'
      BY <1>9, <2>3 DEF Due, Db0Due, RegHead, Db3Due
    <2>5. E5'
      BY <1>7, <1>8, <1>9, <1>10, <2>1, <2>3 DEF Kept, Exchange, E5, Cmes
    <2>6. "ENABLED" \notin flags'["qm"]
      BY <1>7, <1>10 DEF Kept, Exchange, E5
    <2>7. E8'
      BY <1>7, <1>8, <1>9, <2>1 DEF Kept, Exchange, E8
    <2>8. E1' /\ E2' /\ E2a' /\ E3' /\ E4' /\ E6'
      BY <1>7, <1>9, <1>10, <2>3, <2>4 DEF E1, E2, E2a, E3, E4, E6, Db3Due
    <2>9. E9' /\ E11' /\ E12' /\ E13' /\ E14' /\ HB1'
      BY <1>7, <1>9, <2>1, <2>3, <2>6 DEF Kept, Exchange, E9, E11, E12, E13, E14, HB1
    <2> QED BY <2>5, <2>7, <2>8, <2>9 DEF Exchange
  <1> QED BY <1>11, <1>12, <1>13, <1>14, <1>15, <1>16, <1>17 DEF Kept


(* A message that counts: one registration less, and the sibling is locked.*)
Counts(n, R, t) ==
    /\ QForm(t) /\ Item(t, 1)[1] \in Firsts
    /\ Item(t, 1)[1] = "UpdateAnalog" => "qm" \in skipLock
    /\ StepsOf(R) \subseteq StepsOf(t) /\ <<"Send", "LOCK">> \in StepsOf(t)
    /\ \A y \in StepsOf(t) :
           \/ HandStep(y) \/ y \in StepsOf(R) \/ y[1] = "Registered"
           \/ y[1] \in {"AwaitDb0", "RegisterDb0"} /\ y[2] = n - 1 /\ n # 1
    /\ n # 1 => <<"RegisterDb0", n - 1>> \in StepsOf(t)

LEMMA CountedScript ==
    ASSUME NEW n \in 1 .. 3, NEW R \in Seq(Steps), NEW t2, NEW s,
           Registers(n - 1, R, t2), Script(s, t2), <<"Send", "LOCK">> \in StepsOf(s)
    PROVE  Counts(n, R, s)
  <1>1. n - 1 \in 1 .. 3 <=> n # 1
    OBVIOUS
  <1>2. Handles(s, t2) /\ Item(s, 1)[1] \in Firsts
        /\ (Item(s, 1)[1] = "UpdateAnalog" => "qm" \in skipLock)
    BY DEF Script
  <1>3. StepsOf(t2) \subseteq StepsOf(s) /\ StepsOf(R) \subseteq StepsOf(t2)
    BY <1>2 DEF Handles, Registers
  <1>4. n # 1 => <<"RegisterDb0", n - 1>> \in StepsOf(s)
    BY <1>1, <1>3 DEF Registers
  <1>5. ASSUME NEW y \in StepsOf(s)
        PROVE  \/ HandStep(y) \/ y \in StepsOf(R) \/ y[1] = "Registered"
               \/ y[1] \in {"AwaitDb0", "RegisterDb0"} /\ y[2] = n - 1 /\ n # 1
    BY <1>2, <1>1 DEF Handles, Registers
  <1> QED BY <1>2, <1>3, <1>4, <1>5 DEF Counts, Handles

\* What the quad manager has left after this step.
Remains(R) == R = Tail(todo["qm"])

LEMMA CountedMessage ==
    ASSUME TypeInv, Kept, At("qm", "RegisterDb0"), RegisterDb0,
           NEW n \in 1 .. 3, n = Argument("qm"),
           NEW R \in Seq(Steps), Remains(R), Finishes(R), "qm" \notin skipLock,
           "REGISTERING" \in flags["qm"],
           \/ Msg0 = "START" \/ (Msg0 = "CLIP" /\ "ENABLED" \in flags["qm"])
    PROVE  /\ \E t \in Seq(Steps) :
               /\ t = todo'["qm"] /\ Counts(n, R, t)
               /\ Msg0 = "START" => <<"Db0Started", "">> \in StepsOf(t)
           /\ SSame /\ GSame
  <1>1. PICK d \in Db0Messages : d = db0["qm"]
    BY CmesAre DEF TypeInv, DoorbellType
  <1>2. PICK t2 \in Seq(Steps) : Registers(n - 1, R, t2)
    <2>1. n - 1 = 0 \/ n - 1 \in 1 .. 3
      OBVIOUS
    <2> QED BY <2>1, RegisteredLast, RegisterNext
  <1>3. t2 = Registration(n - 1) \o R /\ Ends(t2)
    BY <1>2 DEF Registers
  <1>4. PICK g \in Seq(Steps) : g = Registration(n - 1)
    <2>1. n - 1 \in 0 .. 3
      OBVIOUS
    <2> QED BY <2>1, RegistrationScript
  <1>5. g \in Seq(Steps) /\ t2 \in Seq(Steps)
    BY <1>2, <1>4
  <1>6. CASE Msg0 = "START"
    <2>1. Then("qm", Db0Start(d) \o g)
      BY <1>1, <1>4, <1>6 DEF RegisterDb0, Msg0
    <2>2. Db0Start(d) \in Seq(Steps)
      BY <1>1, Db0Scripts
    <2>3. Db0Start(d) \o g \in Seq(Steps)
      BY <1>5, <2>2, Joined
    <2>4. todo'["qm"] = (Db0Start(d) \o g) \o R /\ SSame /\ GSame
      BY <2>1, <2>3, QThens DEF Kept, Remains
    <2>5. todo'["qm"] = Db0Start(d) \o t2
      <3>1. Join(Join(Db0Start(d), g), R) = Join(Db0Start(d), Join(g, R))
        BY <1>5, <2>2, Join3
      <3> QED BY <1>3, <1>4, <2>4, <3>1 DEF Join
    <2>6. PICK t \in Seq(Steps) :
               /\ t = (Update(d) \o Step("Db0Started")) \o t2 /\ Script(t, t2)
               /\ <<"Db0Started", "">> \in StepsOf(t)
               /\ "REGISTERING" \in flags["qm"] /\ "qm" \notin skipLock =>
                      <<"Send", "LOCK">> \in StepsOf(t)
      BY <1>1, <1>3, <1>5, ChangeScript
    <2>7. Counts(n, R, t)
      BY <1>2, <2>6, CountedScript
    <2> QED BY <2>4, <2>5, <2>6, <2>7 DEF Db0Start
  <1>7. CASE Msg0 = "CLIP" /\ "ENABLED" \in flags["qm"]
    <2>1. Then("qm", Db0ClipBcast(d) \o g)
      BY <1>1, <1>4, <1>7 DEF RegisterDb0, Msg0
    <2>2. Db0ClipBcast(d) \in Seq(Steps)
      BY <1>1, Db0Scripts
    <2>3. Db0ClipBcast(d) \o g \in Seq(Steps)
      BY <1>5, <2>2, Joined
    <2>4. todo'["qm"] = (Db0ClipBcast(d) \o g) \o R /\ SSame /\ GSame
      BY <2>1, <2>3, QThens DEF Kept, Remains
    <2>5. todo'["qm"] = Db0ClipBcast(d) \o t2
      <3>1. Join(Join(Db0ClipBcast(d), g), R) = Join(Db0ClipBcast(d), Join(g, R))
        BY <1>5, <2>2, Join3
      <3> QED BY <1>3, <1>4, <2>4, <3>1 DEF Join
    <2>6. PICK t \in Seq(Steps) : t = Db0ClipBcast(d) \o t2
      BY <1>5, <2>2, Joined
    <2>8. Script(t, t2) /\ <<"Send", "LOCK">> \in StepsOf(t)
      BY <1>1, <1>3, <1>5, <2>6, ClipScript
    <2>7. Counts(n, R, t)
      BY <1>2, <2>8, CountedScript
    <2> QED BY <1>7, <2>4, <2>5, <2>6, <2>7
  <1> QED BY <1>6, <1>7


(* The registration, at one of its messages.                               *)
LEMMA RegisteringDb0 ==
    ASSUME TypeInv, Kept, NEW n \in 1 .. 3, Q1 = <<"RegisterDb0", n>>,
           NEW R \in Seq(Steps), RQ = {Q1} \union StepsOf(R),
           <<"Send", "SYNC">> \in StepsOf(R),
           \A x : <<"Send", x>> \in RQ => x = "SYNC",
           \A y \in StepsOf(R) : y[1] \in {"Send", "AwaitMsgAck", "Ready"}
    PROVE  /\ RegDue /\ Interlock /\ Msg0 # "REGISTER_DONE"
           /\ "REGISTERING" \in flags["qm"] /\ SendDue("SYNC")
           /\ ~HasReg /\ \A i : RegLeft(i) <=> i = n
           /\ \A m \in MTypes : ~Unacked(m)
           /\ ~SendDue("LOCK") /\ ~SendDue("INIT")
  <1>1. RegDue
    BY DEF RegDue, RegLeft
  <1>2. Interlock /\ Msg0 # "REGISTER_DONE"
    BY <1>1 DEF Kept, Exchange, E8
  <1>3. "REGISTERING" \in flags["qm"] /\ SendDue("SYNC")
    BY <1>1 DEF Kept, Boot, B3
  <1>4. \A i : <<"Register", i>> \notin StepsOf(R) /\ <<"RegisterDb0", i>> \notin StepsOf(R)
    OBVIOUS
  <1>5. \A i : <<"Register", i>> # Q1 /\ (<<"RegisterDb0", i>> = Q1 <=> i = n)
    OBVIOUS
  <1>6. ~HasReg /\ \A i : RegLeft(i) <=> i = n
    BY <1>4, <1>5 DEF HasReg, RegLeft
  <1>7. \A m \in MTypes : ~Unacked(m)
    BY DEF Unacked, Is
  <1>8. ~SendDue("LOCK") /\ ~SendDue("INIT")
    BY <1>7 DEF SendDue, MTypes
  <1> QED BY <1>1, <1>2, <1>3, <1>6, <1>7, <1>8

LEMMA OneLess ==
    ASSUME NEW n \in 1 .. 3
    PROVE  /\ \A i \in 1 .. 3 : i = n - 1 => n # 1
           /\ 1 \in 1 .. 3 /\ 2 \in 1 .. 3 /\ 3 \in 1 .. 3
           /\ 1 = n - 1 <=> n = 2
           /\ 2 = n - 1 <=> n = 3
           /\ 3 # n - 1
           /\ n = 1 \/ n = 2 \/ n = 3
           /\ n - 1 + 1 = n + 0
           /\ n = 1 => n - 1 = 0
           /\ n = 2 => n - 1 = 1
           /\ n = 3 => n - 1 = 2
  OBVIOUS

LEMMA CountedKept ==
    ASSUME TypeInv, Kept, NEW n \in 1 .. 3, Q1 = <<"RegisterDb0", n>>, Deciding,
           NEW R \in Seq(Steps), RQ = {Q1} \union StepsOf(R),
           <<"Send", "SYNC">> \in StepsOf(R), "qm" \notin skipLock,
           \A x : <<"Send", x>> \in RQ => x = "SYNC",
           \A y \in StepsOf(R) : y[1] \in {"Send", "AwaitMsgAck", "Ready"},
           NEW t, t = todo'["qm"], Counts(n, R, t),
           Msg0 = "START" => <<"Db0Started", "">> \in StepsOf(t),
           \/ Msg0 = "START" \/ (Msg0 = "CLIP" /\ "ENABLED" \in flags["qm"])
    PROVE  Kept'
  <1>1. /\ UNCHANGED <<eisr, ticks, icrr, type4, db0, db3, registered, alive, mode, flags,
                       skipLock>>
        /\ SSame /\ GSame /\ Q1[1] = "RegisterDb0"
    BY DEF Deciding, irqVars, doorbellVars, cmeVars, sysVars, pgpeVars
  <1>2. SamePgpe /\ Interlock' = Interlock
    BY <1>1, SameFrame
  <1>3. /\ RegDue /\ Interlock /\ "REGISTERING" \in flags["qm"] /\ SendDue("SYNC")
        /\ ~HasReg /\ \A i : RegLeft(i) <=> i = n
        /\ \A m \in MTypes : ~Unacked(m)
        /\ ~SendDue("LOCK") /\ ~SendDue("INIT")
    BY RegisteringDb0
  <1>4. /\ QForm(todo["qm"])' /\ Q1'[1] \in Firsts /\ Q1'[1] # "UpdateAnalog"
        /\ StepsOf(R) \subseteq RQ' /\ <<"Send", "LOCK">> \in RQ'
        /\ n # 1 => <<"RegisterDb0", n - 1>> \in RQ'
        /\ Msg0 = "START" => <<"Db0Started", "">> \in RQ'
        /\ \A y \in RQ' :
               \/ HandStep(y) \/ y \in StepsOf(R) \/ y[1] = "Registered"
               \/ y[1] \in {"AwaitDb0", "RegisterDb0"} /\ y[2] = n - 1 /\ n # 1
    BY DEF Counts, QForm, Q1, RQ
  <1>5. Lines' /\ Ticks' /\ Pairing' /\ Standstill' /\ Forms'
    BY <1>1, <1>4, DecidingKept
  <1>6. /\ \A y \in RQ' : y[1] # "Register" /\ ~In2(y)
        /\ \A y \in RQ' : y[1] = "RegisterDb0" => y[2] = n - 1 /\ n # 1
        /\ \A y \in RQ' : y[1] = "Send" => y[2] \in {"LOCK", "SYNC"}
    <2>1. ASSUME NEW y \in RQ'
          PROVE  /\ y[1] # "Register" /\ ~In2(y)
                 /\ y[1] = "RegisterDb0" => y[2] = n - 1 /\ n # 1
      BY <1>4 DEF HandStep, In2
    <2>2. ASSUME NEW y \in RQ', y[1] = "Send" PROVE y[2] \in {"LOCK", "SYNC"}
      <3>1. CASE y \in StepsOf(R)
        <4>1. y \in Steps
          BY <3>1, ItemsOf
        <4>2. y = <<"Send", y[2]>>
          BY <2>2, <4>1, StepIsPair
        <4> QED BY <3>1, <4>2
      <3> QED BY <1>4, <2>2, <3>1 DEF HandStep
    <2> QED BY <2>1, <2>2
  <1>7. /\ ~HasReg' /\ ~In2Due'
        /\ RegLeft(1)' <=> n = 2
        /\ RegLeft(2)' <=> n = 3
        /\ ~RegLeft(3)'
    <2>1. \A i : <<"Register", i>> \notin RQ'
      BY <1>6
    <2>2. \A i \in 1 .. 3 : <<"RegisterDb0", i>> \in RQ' <=> i = n - 1
      <3>1. \A i : <<"RegisterDb0", i>> \in RQ' => i = n - 1
        BY <1>6
      <3>2. \A i \in 1 .. 3 : i = n - 1 => n # 1
        BY OneLess
      <3> QED BY <1>4, <3>1, <3>2
    <2>3. /\ <<"RegisterDb0", 1>> \in RQ' <=> n = 2
          /\ <<"RegisterDb0", 2>> \in RQ' <=> n = 3
          /\ <<"RegisterDb0", 3>> \notin RQ'
      BY <2>2, OneLess
    <2> QED BY <1>6, <2>1, <2>3 DEF HasReg, In2Due, RegLeft
  <1>8. /\ SendDue("SYNC")' /\ SendDue("LOCK")' /\ ~SendDue("INIT")'
        /\ \A m \in MTypes : ~Unacked(m)'
    <2>1. \A m \in MTypes : ~Unacked(m)'
      BY <1>4 DEF Unacked, Is, Firsts
    <2>2. <<"Send", "INIT">> \notin RQ'
      BY <1>6
    <2> QED BY <1>4, <2>1, <2>2 DEF SendDue, MTypes
  <1>9. LocksDue' = LocksDue
    <2>1. RegistrationsLeft = n
      <3>1. (RegLeft(1) <=> n = 1) /\ (RegLeft(2) <=> n = 2) /\ (RegLeft(3) <=> n = 3)
        BY <1>3
      <3>2. CASE n = 1
        BY <1>3, <3>1, <3>2 DEF RegistrationsLeft
      <3>3. CASE n = 2
        BY <1>3, <3>1, <3>3 DEF RegistrationsLeft
      <3>4. CASE n = 3
        BY <1>3, <3>1, <3>4 DEF RegistrationsLeft
      <3> QED BY <3>2, <3>3, <3>4, OneLess
    <2>2. RegistrationsLeft' = n - 1
      <3>1. CASE n = 1
        BY <1>7, <3>1, OneLess DEF RegistrationsLeft
      <3>2. CASE n = 2
        BY <1>7, <3>2, OneLess DEF RegistrationsLeft
      <3>3. CASE n = 3
        BY <1>7, <3>3, OneLess DEF RegistrationsLeft
      <3> QED BY <3>1, <3>2, <3>3, OneLess
    <2>3. LocksDue = n + 0
      BY <1>3, <2>1 DEF LocksDue
    <2>4. LocksDue' = n - 1 + 1
      BY <1>8, <2>2 DEF LocksDue
    <2> QED BY <2>3, <2>4, OneLess
  <1>10. /\ S1' = S1 /\ RS' = RS /\ Locks(todo["sib"])' = Locks(todo["sib"])
         /\ G1' = G1 /\ G2' = G2 /\ G3' = G3 /\ Msg0' = Msg0
    BY <1>1, SamesViews DEF Msg0
  <1>11. Boot'
    <2>1. LocksLeft' = LocksLeft
      BY <1>2, <1>10 DEF LocksLeft
    <2>2. B1'
      BY <1>3, <1>9, <1>10, <2>1 DEF Kept, Boot, B1
    <2>3. B2' /\ B3' /\ B4' /\ B5'
      BY <1>1, <1>3, <1>7, <1>8 DEF B2, B3, B4, B5
    <2> QED BY <2>2, <2>3 DEF Boot
  <1>12. Exchange'
    <2>1. RegHead /\ Msg0 \in RegMsgs
      BY <1>1 DEF RegHead, RegMsgs
    <2>2. registered /\ (Awaiting \/ Half) /\ type4 = "none" /\ ~Db3Due
      BY <2>1 DEF Kept, Exchange, E1, E4, Due, Awaiting, Half, HalfM
    <2>3. (Awaiting \/ Half)' /\ ~Db3Due'
      BY <1>1, <1>10, <2>2 DEF Awaiting, Half, HalfM, Db3Due
    <2>4. E1' /\ E2' /\ E2a' /\ E4' /\ E5' /\ E6'
      BY <1>1, <1>7, <2>2, <2>3 DEF E1, E2, E2a, E4, E5, E6
    <2>5. E3'
      <3>1. CASE Msg0 = "START"
        BY <1>4, <3>1 DEF E3
      <3>2. CASE Msg0 # "START"
        <4>1. "DB0" \notin eisr["qm"]
          BY <1>1, <2>1, <3>2 DEF Kept, Exchange, E13
        <4> QED BY <1>1, <4>1 DEF E3
      <3> QED BY <3>1, <3>2
    <2>6. E8'
      BY <1>1, <1>2, <1>3, <1>10 DEF Kept, Exchange, E8
    <2>7. E9' /\ E11' /\ E12' /\ E14'
      BY <1>1, <1>7, <1>10, <2>1 DEF Kept, Exchange, E9, E11, E12, E14
    <2>8. E13' /\ HB1'
      BY <1>1, <1>4, <1>7 DEF Kept, Exchange, E13, HB1, Firsts
    <2> QED BY <2>4, <2>5, <2>6, <2>7, <2>8 DEF Exchange
  <1> QED BY <1>5, <1>11, <1>12 DEF Kept

LEMMA UncountedKept ==
    ASSUME TypeInv, Kept, NEW n \in 1 .. 3, Q1 = <<"RegisterDb0", n>>, Deciding,
           NEW R \in Seq(Steps), RQ = {Q1} \union StepsOf(R), "qm" \notin skipLock,
           <<"Send", "SYNC">> \in StepsOf(R),
           \A x : <<"Send", x>> \in RQ => x = "SYNC",
           \A y \in StepsOf(R) : y[1] \in {"Send", "AwaitMsgAck", "Ready"},
           NEW t, t = todo'["qm"], Registers(n, R, t)
    PROVE  Kept'
  <1>1. /\ UNCHANGED <<eisr, ticks, icrr, type4, db0, db3, registered, alive, mode, flags,
                       skipLock>>
        /\ SSame /\ GSame /\ Q1[1] = "RegisterDb0"
    BY DEF Deciding, irqVars, doorbellVars, cmeVars, sysVars, pgpeVars
  <1>2. SamePgpe /\ Interlock' = Interlock
    BY <1>1, SameFrame
  <1>3. /\ RegDue /\ Interlock /\ "REGISTERING" \in flags["qm"] /\ SendDue("SYNC")
        /\ ~HasReg /\ \A i : RegLeft(i) <=> i = n
        /\ \A m \in MTypes : ~Unacked(m)
        /\ ~SendDue("LOCK") /\ ~SendDue("INIT")
    BY RegisteringDb0
  <1>4. /\ QForm(todo["qm"])' /\ Q1'[1] \in {"Registered", "AwaitDb0"}
        /\ StepsOf(R) \subseteq RQ' /\ <<"RegisterDb0", n>> \in RQ'
        /\ \A y \in RQ' : y \in StepsOf(R) \/ (y[1] \in {"AwaitDb0", "RegisterDb0"} /\ y[2] = n)
        /\ Q1'[1] # "Registered"
    <2>1. n # 0
      OBVIOUS
    <2>2. /\ QForm(t) /\ StepsOf(R) \subseteq StepsOf(t) /\ <<"RegisterDb0", n>> \in StepsOf(t)
          /\ \A y \in StepsOf(t) : y \in StepsOf(R) \/ (y[1] \in {"AwaitDb0", "RegisterDb0"} /\ y[2] = n)
          /\ Item(t, 1)[1] \in {"Registered", "AwaitDb0"}
      BY <2>1 DEF Registers, Ends
    <2>3. Item(t, 1)[1] # "Registered"
      <3>1. t \in Seq(Steps)
        <4>1. R \in Seq(Steps) /\ n \in 0 .. 3
          OBVIOUS
        <4>2. Registration(n) \in Seq(Steps)
          BY <4>1, RegistrationScript
        <4> QED BY <4>1, <4>2, Joined DEF Registers
      <3>2. Item(t, 1) \in StepsOf(t) \union {End}
        BY <3>1, ItemsOf
      <3> QED BY <2>2, <3>2, NoEnd
    <2> QED BY <2>2, <2>3 DEF QForm, Q1, RQ
  <1>5. Lines' /\ Ticks' /\ Pairing' /\ Standstill' /\ Forms'
    BY <1>1, <1>4, DecidingKept
  <1>6. \A y \in RQ' : y[1] \notin AckKinds \union {"Register"} /\ ~In2(y)
    BY <1>4 DEF In2, AckKinds
  <1>7. \A k, v : k \notin {"AwaitDb0", "RegisterDb0"} => (<<k, v>> \in RQ' <=> <<k, v>> \in RQ)
    BY <1>4
  <1>8. /\ ~HasReg' /\ ~In2Due' /\ ~AckDue'
        /\ \A i \in 1 .. 3 : RegLeft(i)' <=> RegLeft(i)
        /\ \A m \in MTypes : <<"Send", m>> \in RQ' <=> <<"Send", m>> \in RQ
    <2>1. \A i : <<"Register", i>> \notin RQ'
      BY <1>6
    <2>2. \A i : <<"RegisterDb0", i>> \in RQ' <=> i = n
      BY <1>4
    <2> QED BY <1>3, <1>6, <1>7, <2>1, <2>2 DEF HasReg, In2Due, AckDue, RegLeft
  <1>9. RegDue'
    BY <1>3, <1>8 DEF RegDue
  <1>10. Boot'
    <2>1. \A m \in MTypes : ~Unacked(m)'
      BY <1>4 DEF Unacked, Is
    <2>2. \A m \in MTypes : SendDue(m)' <=> SendDue(m)
      BY <1>3, <1>8, <2>1 DEF SendDue
    <2>3. ~Unacked("LOCK")
      BY <1>3 DEF MTypes
    <2> QED BY <1>1, <1>2, <1>3, <1>8, <2>2, <2>3, QmBoot DEF Kept
  <1>11. Exchange'
    <2>1. Q1'[1] # "RegisterDb0"
      BY <1>4
    <2>2. \A v : <<"ClearDb0", v>> \in RQ' <=> <<"ClearDb0", v>> \in RQ
      BY <1>7
    <2>3. \A v : <<"Db0Started", v>> \in RQ' <=> <<"Db0Started", v>> \in RQ
      BY <1>7
    <2>4. NoMoreDue
      BY <1>1, <1>3, <1>8, <1>9, <2>1, <2>2, <2>3 DEF NoMoreDue, RegHead
    <2> QED BY <1>1, <1>2, <2>4, NoMoreExchange DEF Kept
  <1> QED BY <1>5, <1>10, <1>11 DEF Kept

LEMMA KeepsRegisterDb0 ==
    ASSUME TypeInv, Kept, RegisterDb0
    PROVE  Kept'
  <1>1. At("qm", "RegisterDb0") /\ Forms
    BY DEF RegisterDb0, Running, Kept
  <1>2. PICK R \in Seq(Steps) :
               /\ R = Tail(todo["qm"]) /\ Finishes(R)
               /\ RQ = {Q1} \union StepsOf(R)
               /\ Q1 \in Steps /\ Q1[1] = "RegisterDb0" /\ Q1[2] = Argument("qm")
               /\ "qm" \notin skipLock
               /\ <<"Send", "SYNC">> \in StepsOf(R)
               /\ \A x : <<"Send", x>> \in RQ => x = "SYNC"
               /\ \A y \in StepsOf(R) : y[1] \in {"Send", "AwaitMsgAck", "Ready"}
    BY <1>1, RegisteringViews
  <1>3. PICK n \in 1 .. 3 : n = Argument("qm") /\ Q1 = <<"RegisterDb0", n>>
    BY <1>2, Arguments, StepIsPair DEF RegisterKinds
  <1>4. n \in 1 .. 3 /\ R \in Seq(Steps)
    BY <1>2, <1>3
  <1>5. /\ RegDue /\ Interlock /\ Msg0 # "REGISTER_DONE" /\ "REGISTERING" \in flags["qm"]
    BY <1>2, <1>3, <1>4, RegisteringDb0
  <1>6. CASE Msg0 = "START" \/ (Msg0 = "CLIP" /\ "ENABLED" \in flags["qm"])
    <2>1. /\ \E t \in Seq(Steps) :
               /\ t = todo'["qm"] /\ Counts(n, R, t)
               /\ Msg0 = "START" => <<"Db0Started", "">> \in StepsOf(t)
          /\ SSame /\ GSame
      BY <1>1, <1>2, <1>3, <1>4, <1>5, <1>6, CountedMessage DEF Remains
    <2>2. Deciding
      BY <1>2, <2>1 DEF Deciding, RegisterDb0
    <2> QED BY <1>2, <1>3, <1>4, <1>6, <2>1, <2>2, CountedKept
  <1>7. CASE ~(Msg0 = "START" \/ (Msg0 = "CLIP" /\ "ENABLED" \in flags["qm"]))
    <2>1. Then("qm", Registration(n))
      BY <1>3, <1>5, <1>7 DEF RegisterDb0, Msg0
    <2>2. Registration(n) \in Seq(Steps)
      BY <1>4, RegistrationScript
    <2>3. todo'["qm"] = Registration(n) \o R /\ SSame /\ GSame
      BY <1>1, <1>2, <2>1, <2>2, QThens
    <2>4. PICK t \in Seq(Steps) : Registers(n, R, t)
      BY <1>2, <1>4, RegisterNext
    <2>5. t = todo'["qm"]
      BY <2>3, <2>4 DEF Registers
    <2>6. Deciding
      BY <1>2, <2>3 DEF Deciding, RegisterDb0
    <2> QED BY <1>2, <1>3, <1>4, <2>4, <2>5, <2>6, UncountedKept
  <1> QED BY <1>6, <1>7

-----------------------------------------------------------------------------
(* Steps that none of this sees.                                           *)
SameSignals ==
    /\ eisr'["qm"] = eisr["qm"]
    /\ \A b \in Bits \ {"DB0"} : b \in eisr'["sib"] <=> b \in eisr["sib"]
SameFlags ==
    /\ \A f \in {"INTERLOCK", "REGISTERING", "ENABLED"} :
           f \in flags'["qm"] <=> f \in flags["qm"]
    /\ "INTERLOCK" \in flags'["sib"] <=> "INTERLOCK" \in flags["sib"]

SameInterCme ==
    \A b \in Signals \union {"ACK", "RECVD"} :
        /\ b \in eisr'["qm"] <=> b \in eisr["qm"]
        /\ b \in eisr'["sib"] <=> b \in eisr["sib"]

(* Between the two CMEs nothing changes.                                   *)
LEMMA StaysRest ==
    ASSUME TypeInv, Kept, QSame, SSame, SameInterCme, SameFlags,
           UNCHANGED <<icrr, skipLock>>
    PROVE  Lines' /\ Boot' /\ Standstill'
  <1>1. /\ Q1' = Q1 /\ Q2' = Q2 /\ Q3' = Q3 /\ RQ' = RQ
        /\ S1' = S1 /\ S2' = S2 /\ S3' = S3 /\ RS' = RS
    BY SamesViews
  <1>2. /\ \A b \in Signals \union {"ACK", "RECVD"} : b \in eisr'["qm"] <=> b \in eisr["qm"]
        /\ \A b \in Signals \union {"ACK", "RECVD"} : b \in eisr'["sib"] <=> b \in eisr["sib"]
        /\ {"IN0", "IN1", "IN2"} = Signals
    BY DEF SameInterCme, Signals
  <1>3. /\ \A x : Awaits(x)' <=> Awaits(x)
        /\ \A x \in Signals : Unanswered(x)' <=> Unanswered(x)
        /\ \A x : Unacked(x)' <=> Unacked(x)
    BY <1>1, <1>2 DEF Awaits, Unanswered, Unacked
  <1>4. Lines'
    <2>1. W1' /\ W2'
      BY <1>1, <1>2, <1>3 DEF Kept, Lines, W1, W2
    <2>2. W3' /\ W4'
      BY <1>1, <1>2, <1>3 DEF Kept, Lines, W3, W4
    <2>3. W5'
      BY <1>1, <1>2, <1>3, Heads DEF SignalKinds, Kept, Lines, W5
    <2> QED BY <2>1, <2>2, <2>3 DEF Lines
  <1>5. Boot'
    <2>1. \A m \in MTypes : SendDue(m)' <=> SendDue(m)
      BY <1>1, <1>3 DEF SendDue
    <2>2. /\ HasReg' <=> HasReg
          /\ \A n \in 1 .. 3 : RegLeft(n)' <=> RegLeft(n)
          /\ Unacked("LOCK") => Unacked("LOCK")'
      BY <1>1, <1>3 DEF HasReg, RegLeft
    <2>3. Interlock' = Interlock
      BY DEF Interlock, SameFlags
    <2> QED BY <2>1, <2>2, <2>3, QmBoot DEF Kept, SameFlags
  <1>6. Standstill'
    <2>1. Held' <=> Held
      BY <1>1, <1>2 DEF Held
    <2>2. Answered2' <=> Answered2
      BY <1>1, <1>2 DEF Answered2, Awaits
    <2>3. L1' /\ L2' /\ L3' /\ L4'
      BY <1>1, <1>2, <2>1, <2>2 DEF Kept, Standstill, L1, L2, L3, L4
    <2>4. L5'
      BY <1>1, <1>2, <2>2 DEF Kept, Standstill, L5, QHbMid, SHbMid
    <2>5. K1'
      BY <1>1 DEF Kept, Standstill, K1
    <2> QED BY <2>3, <2>4, <2>5 DEF Standstill
  <1> QED BY <1>4, <1>5, <1>6

LEMMA StaysKept ==
    ASSUME TypeInv, Kept, QSame, SSame, GSame, SameSignals, SameFlags, Ticks',
           UNCHANGED <<icrr, db0, db3, type4, registered, alive, mode, skipLock>>
    PROVE  Kept'
  <1>1. /\ Q1' = Q1 /\ Q2' = Q2 /\ Q3' = Q3 /\ RQ' = RQ
    BY SamesViews
  <1>2. /\ \A b \in Signals \union {"ACK", "RECVD", "DB3", "HB"} :
               b \in eisr'["sib"] <=> b \in eisr["sib"]
        /\ eisr'["qm"] = eisr["qm"]
    BY DEF SameSignals, Bits, Signals
  <1>3. SamePgpe /\ Interlock' = Interlock
    BY DEF SamePgpe, Interlock, SameFlags
  <1>4. Lines' /\ Boot' /\ Standstill'
    BY <1>2, StaysRest DEF SameInterCme
  <1>5. Exchange'
    <2>1. /\ RegDue' <=> RegDue
          /\ AckDue' <=> AckDue
          /\ In2Due' <=> In2Due
          /\ HasReg' <=> HasReg
      BY <1>1 DEF RegDue, RegLeft, AckDue, In2Due, HasReg
    <2>2. RegHead' <=> RegHead
      BY <1>1 DEF RegHead, Msg0
    <2>3. NoMoreDue
      BY <1>1, <1>2, <2>1, <2>2 DEF NoMoreDue, SameFlags
    <2> QED BY <1>3, <2>3, NoMoreExchange DEF Kept
  <1>6. Pairing'
    <2>1. Unanswered("IN2")' <=> Unanswered("IN2")
      BY <1>1, <1>2 DEF Unanswered, Awaits
    <2>2. \A k \in Ks : QOpen(k)' <=> QOpen(k)
      BY <1>1, <2>1 DEF QOpen
    <2>3. (QClipMid' <=> QClipMid) /\ (QHbMid' <=> QHbMid)
      BY <1>1, <1>2 DEF QClipMid, QHbMid, Answered2, Awaits
    <2> QED BY <1>2, <2>2, <2>3, QmPairing DEF Kept
  <1>7. Forms'
    BY <1>3, FormsKept DEF Kept, Forms, QSame, SSame, SamePgpe
  <1> QED BY <1>4, <1>5, <1>6, <1>7 DEF Kept

LEMMA SameTicks ==
    ASSUME Ticks, QSame, SSame, SameSignals, ticks' = ticks
    PROVE  Ticks'
  <1>1. Q1' = Q1 /\ RQ' = RQ /\ S1' = S1 /\ RS' = RS
    BY SamesViews
  <1>2. "RECVD" \in Bits \ {"DB0"} /\ "IN0" \in Bits \ {"DB0"}
    BY DEF Bits, Signals
  <1> QED BY <1>1, <1>2 DEF Ticks, T1, T2, T3, SameSignals, HasReg, RegDue, RegLeft

LEMMA KeepsStop ==
    ASSUME TypeInv, Kept, NEW c \in Cmes, BeginStop(c) \/ EndStop(c)
    PROVE  Kept'
  <1>1. UNCHANGED <<todo, eisr, ticks, icrr, db0, db3, type4, registered, alive, mode, skipLock>>
    BY DEF BeginStop, EndStop, doorbellVars, cmeVars, sysVars, pgpeVars
  <1>2. QSame /\ SSame /\ GSame /\ SameSignals
    BY <1>1 DEF QSame, SSame, GSame, SameSignals
  <1>3. SameFlags
    <2>1. CASE BeginStop(c)
      BY <2>1 DEF BeginStop, cmeVars, SameFlags
    <2>2. CASE EndStop(c)
      BY <2>2 DEF EndStop, DroopFlag, SameFlags, TypeInv, CmeType, Cmes
    <2> QED BY <2>1, <2>2
  <1>4. Ticks'
    BY <1>1, <1>2, SameTicks DEF Kept
  <1> QED BY <1>1, <1>2, <1>3, <1>4, StaysKept

LEMMA KeepsFitTick ==
    ASSUME TypeInv, Kept, NEW c \in Cmes, FitTick(c)
    PROVE  Kept'
  <1>1. UNCHANGED <<todo, eisr, icrr, db0, db3, type4, registered, alive, mode, skipLock, flags>>
    BY DEF FitTick, doorbellVars, cmeVars, sysVars, pgpeVars
  <1>2. QSame /\ SSame /\ GSame /\ SameSignals /\ SameFlags
    BY <1>1 DEF QSame, SSame, GSame, SameSignals, SameFlags
  <1>3. Q1' = Q1 /\ RQ' = RQ /\ S1' = S1 /\ RS' = RS /\ (RegDue' <=> RegDue) /\ (HasReg' <=> HasReg)
    BY <1>2, SamesViews DEF RegDue, RegLeft, HasReg
  <1>4. \A i \in {"DB0", "RECVD", "IN0"} :
            ticks'[i] = ticks[i] \/ (i \in Counted(c) /\ i \in eisr[c])
    <2>1. DOMAIN ticks = {"DB0", "RECVD", "IN0"}
      BY DEF TypeInv, IrqType
    <2>2. PICK W : /\ W \subseteq Counted(c) \intersect eisr[c]
                   /\ ticks' = [i \in DOMAIN ticks |-> IF i \in W THEN ticks[i] + 1
                                                        ELSE ticks[i]]
      BY DEF FitTick
    <2>3. ASSUME NEW i \in {"DB0", "RECVD", "IN0"}
          PROVE  ticks'[i] = ticks[i] \/ (i \in Counted(c) /\ i \in eisr[c])
      <3>1. i \in DOMAIN ticks
        BY <2>1
      <3>2. ticks'[i] = IF i \in W THEN ticks[i] + 1 ELSE ticks[i]
        BY <2>2, <3>1
      <3>3. CASE i \in W
        BY <2>2, <3>3
      <3>4. CASE i \notin W
        BY <3>2, <3>4
      <3> QED BY <3>3, <3>4
    <2> QED BY <2>3
  <1>5. Idle(c)
    BY DEF FitTick
  <1>6. T1'
    <2>1. CASE ticks'["DB0"] = ticks["DB0"]
      BY <1>1, <1>3, <2>1 DEF Kept, Ticks, T1
    <2>2. CASE "DB0" \in Counted(c) /\ "DB0" \in eisr[c]
      <3>1. c = "qm"
        BY <2>2 DEF Counted
      <3>2. Q1 = End /\ RQ = {}
        BY <1>5, <3>1, IdleViews
      <3> QED BY <1>1, <1>3, <2>2, <3>1, <3>2, NoEnd DEF T1, HasReg, RegDue, RegLeft
    <2> QED BY <1>4, <2>1, <2>2
  <1>7. T2'
    <2>1. CASE ticks'["RECVD"] = ticks["RECVD"]
      BY <1>1, <1>3, <2>1 DEF Kept, Ticks, T2
    <2>2. CASE "RECVD" \in Counted(c) /\ "RECVD" \in eisr[c]
      <3>1. c = "sib"
        BY <2>2 DEF Counted, Cmes
      <3>2. S1 = End /\ RS = {}
        BY <1>5, <3>1, IdleViews
      <3> QED BY <1>1, <1>3, <2>2, <3>1, <3>2, NoEnd DEF T2, Is
    <2> QED BY <1>4, <2>1, <2>2
  <1>8. T3'
    <2>1. CASE ticks'["IN0"] = ticks["IN0"]
      BY <1>1, <1>3, <2>1 DEF Kept, Ticks, T3
    <2>2. CASE "IN0" \in Counted(c) /\ "IN0" \in eisr[c]
      <3>1. c = "sib"
        BY <2>2 DEF Counted, Cmes
      <3>2. S1 = End
        BY <1>5, <3>1, IdleViews
      <3> QED BY <1>1, <1>3, <2>2, <3>1, <3>2 DEF T3
    <2> QED BY <1>4, <2>1, <2>2
  <1> QED BY <1>1, <1>2, <1>6, <1>7, <1>8, StaysKept DEF Ticks

-----------------------------------------------------------------------------
(* The steps at the heads, from the forms.                                 *)
LEMMA FormAt ==
    ASSUME NEW p \in Processes, NEW s \in Seq(Steps), NEW r, NEW l,
           Form(p, s, r, l), Item(s, 1) # End
    PROVE  Follows(p, Item(s, 1), Item(s, 2), Item(s, 3), r, l)
  <1>1. Len(s) \in Nat /\ 1 \in 1 .. Len(s)
    BY DEF Item
  <1> QED BY <1>1 DEF Form, Item

LEMMA HeadForms ==
    ASSUME TypeInv, Forms
    PROVE  /\ Q1 # End => QNext(Q1, Q2, Q3)
           /\ S1 # End => SNext(S1, S2)
           /\ G1 # End => GNext(G1, G2, G3, registered, Interlock)
  <1>1. /\ todo["qm"] \in Seq(Steps) /\ todo["sib"] \in Seq(Steps)
        /\ todo["pgpe"] \in Seq(Steps)
        /\ "qm" \in Processes /\ "sib" \in Processes /\ "pgpe" \in Processes
    BY DEF TypeInv, TodoType, Processes
  <1>2. ASSUME Q1 # End PROVE QNext(Q1, Q2, Q3)
    BY <1>1, <1>2, FormAt DEF Q1, Q2, Q3, Forms, QForm, Follows
  <1>3. ASSUME S1 # End PROVE SNext(S1, S2)
    BY <1>1, <1>3, FormAt DEF S1, S2, S3, Forms, SForm, Follows
  <1>4. ASSUME G1 # End PROVE GNext(G1, G2, G3, registered, Interlock)
    BY <1>1, <1>4, FormAt DEF G1, G2, G3, Forms, GForm, Follows
  <1> QED BY <1>2, <1>3, <1>4

LEMMA HeadsAt ==
    ASSUME TypeInv, NEW k
    PROVE  /\ At("qm", k) => Q1 \in Steps /\ Q1[1] = k /\ Q1[2] = Argument("qm") /\ Q1 # End
           /\ At("sib", k) => S1 \in Steps /\ S1[1] = k /\ S1[2] = Argument("sib") /\ S1 # End
           /\ At("pgpe", k) => G1 \in Steps /\ G1[1] = k /\ G1[2] = Argument("pgpe")
                               /\ G1 # End
  <1>1. TodoType /\ "qm" \in Processes /\ "sib" \in Processes /\ "pgpe" \in Processes
    BY DEF TypeInv, Processes
  <1> QED BY <1>1, HeadOf, NoEnd DEF Q1, S1, G1

(* Each step belongs to one of them.                                       *)
LEMMA Separate ==
    ASSUME TypeInv, Forms
    PROVE  /\ \A k : At("qm", k) => k \in QmKinds
           /\ \A k : At("sib", k) => k \in SibKinds
  BY HeadsAt, HeadForms DEF QNext, QThen, SNext

(* The quad manager meets its sibling in IN2 only when it owes something.  *)
LEMMA NoMeeting ==
    ASSUME TypeInv, Forms, ~In2Due, ~Db3Due, "HB" \notin eisr["qm"]
    PROVE  /\ \A k \in Ks : ~QPend(k) /\ ~QOpen(k)
           /\ ~QClipMid /\ ~QHbMid
  <1>1. /\ Q1 # End => Q1 \in RQ
        /\ Q2 # End => Q2 \in RQ
        /\ Q3 # End => Q3 \in RQ
    BY ItemsOf DEF TypeInv, TodoType, Processes, Q1, Q2, Q3, RQ
  <1>3. /\ ~Is(Q1, "Raise", "IN2") /\ ~Is(Q2, "Raise", "IN2") /\ ~Is(Q3, "Raise", "IN2")
        /\ ~Is(Q1, "AwaitAnswer", "IN2")
    BY <1>1, NoEnd DEF Is, In2, In2Due
  <1>4. ~Awaits("IN2")
    BY <1>3, HeadForms, NoEnd DEF QNext, QThen, Awaits, AnswerKinds, Is
  <1>5. Q1[1] # "ToFsafe"
    BY <1>3, HeadForms, NoEnd DEF QNext, QThen, Is
  <1>6. \A k \in Ks : ~QPend(k)
    BY DEF QPend, Db3Due, Ks, Reason
  <1> QED BY <1>3, <1>4, <1>5, <1>6 DEF QOpen, Unanswered, QClipMid, QHbMid, Answered2

LEMMA KeepsRetry ==
    ASSUME TypeInv, Kept, Retry, ~LateRetry
    PROVE  Kept'
  <1>1. /\ At("qm", "AwaitAnswerOrRetry") /\ "IN1" \notin eisr["qm"]
    BY DEF Retry, Running
  <1>2. Q1[1] = "AwaitAnswerOrRetry" /\ Q1[2] = "IN1"
    BY <1>1, HeadsAt, HeadForms DEF Kept, Forms, QNext, QThen
  <1>3. UNCHANGED <<todo, ticks, icrr, type4, db0, db3, registered, alive, mode, flags, skipLock>>
    BY DEF Retry, doorbellVars, cmeVars, sysVars, pgpeVars
  <1>4. QSame /\ SSame /\ GSame
    BY <1>3 DEF QSame, SSame, GSame
  <1>5. /\ Q1' = Q1 /\ Q2' = Q2 /\ Q3' = Q3 /\ RQ' = RQ
        /\ S1' = S1 /\ S2' = S2 /\ S3' = S3 /\ RS' = RS
        /\ G1' = G1 /\ G2' = G2 /\ G3' = G3
    BY <1>4, SamesViews
  <1>6. eisr'["sib"] = eisr["sib"] \union {"IN1"} /\ eisr'["qm"] = eisr["qm"]
    BY BitViews DEF Retry, Bits, Signals
  <1>7. SamePgpe /\ Interlock' = Interlock
    BY <1>3, <1>4, SameFrame
  <1>8. Lines'
    <2>1. Unanswered("IN1")'
      BY <1>1, <1>2, <1>5, <1>6 DEF Unanswered, Awaits, AnswerKinds
    <2>2. \A x : Unanswered(x)' <=> Unanswered(x)
      BY <1>5, <1>6 DEF Unanswered, Awaits
    <2>3. W2'
      BY <1>5, <1>6, <2>1, <2>2 DEF Kept, Lines, W2
    <2>4. W1' /\ W3'
      BY <1>5, <1>6 DEF Kept, Lines, W1, W3, Awaits
    <2>5. W4'
      BY <1>3, <1>5, <1>6 DEF Kept, Lines, W4, Unacked
    <2>6. W5'
      BY <1>5, <2>2 DEF Kept, Lines, W5
    <2> QED BY <2>3, <2>4, <2>5, <2>6 DEF Lines
  <1>9. /\ RegDue' <=> RegDue
        /\ AckDue' <=> AckDue
        /\ In2Due' <=> In2Due
        /\ HasReg' <=> HasReg
        /\ \A n \in 1 .. 3 : RegLeft(n)' <=> RegLeft(n)
    BY <1>5 DEF RegDue, RegLeft, AckDue, In2Due, HasReg
  <1>10. Exchange'
    <2>1. RegHead' <=> RegHead
      BY <1>3, <1>5 DEF RegHead, Msg0
    <2>2. \A b \in {"DB3", "HB"} : b \in eisr'["sib"] => b \in eisr["sib"]
      BY <1>6
    <2>3. NoMoreDue
      BY <1>3, <1>5, <1>6, <1>9, <2>1, <2>2 DEF NoMoreDue
    <2> QED BY <1>3, <1>7, <2>3, NoMoreExchange DEF Kept
  <1>11. Ticks'
    BY <1>2, <1>3, <1>4, <1>5, <1>6, <1>9, QmTicks DEF Kept
  <1>12. Boot'
    <2>1. \A m \in MTypes : Unacked(m)' <=> Unacked(m)
      BY <1>5, <1>6 DEF Unacked
    <2>2. \A m \in MTypes : SendDue(m)' <=> SendDue(m)
      BY <1>5, <2>1 DEF SendDue
    <2>3. Unacked("LOCK") => Unacked("LOCK")'
      BY <2>1 DEF MTypes
    <2> QED BY <1>3, <1>4, <1>7, <1>9, <2>2, <2>3, QmBoot DEF Kept
  <1>13. Pairing'
    <2>1. \A k \in Ks : QOpen(k)' <=> QOpen(k)
      BY <1>5, <1>6 DEF QOpen, Unanswered, Awaits
    <2>2. (QClipMid' <=> QClipMid) /\ (QHbMid' <=> QHbMid)
      BY <1>5, <1>6 DEF QClipMid, QHbMid, Answered2, Awaits
    <2>3. \A b \in {"HB", "DB3"} : b \in eisr'["sib"] <=> b \in eisr["sib"]
      BY <1>6
    <2> QED BY <1>3, <1>4, <1>6, <2>1, <2>2, <2>3, QmPairing DEF Kept
  <1>14. Standstill'
    BY <1>3, <1>5, <1>1, <1>2, <1>6, QmStandstill DEF Kept, Standstill, K1
  <1>15. Forms'
    BY <1>3, <1>4, <1>7, FormsKept DEF Kept, Forms
  <1> QED BY <1>8, <1>10, <1>11, <1>12, <1>13, <1>14, <1>15 DEF Kept

-----------------------------------------------------------------------------
(* An interrupt that is taken is there, also one that has starved.         *)
LEMMA FirstOf ==
    ASSUME NEW E, NEW a \in Seq(E), NEW b \in Seq(E), NEW c \in Seq(E), NEW d \in Seq(E),
           NEW e \in Seq(E), NEW s, s = a \o b \o c \o d \o e, s # <<>>
    PROVE  Head(s) \in E
  <1>1. s \in Seq(E)
    BY ConcatProperties
  <1> QED BY <1>1, HeadTailProperties

LEMMA PendingFirst ==
    ASSUME NEW c, Pending(c) # <<>>
    PROVE  Head(Pending(c)) \in eisr[c]
  <1>1. PICK E : E = eisr[c]
    OBVIOUS
  <1>2. PICK x1, x2, x3, x4, x5 :
           /\ x1 = (IF "DB3" \in eisr[c] THEN <<"DB3">> ELSE <<>>)
           /\ x2 = (IF "HB" \in eisr[c] \ masked[c] THEN <<"HB">> ELSE <<>>)
           /\ x3 = (IF c = "qm" /\ "DB0" \in eisr[c] /\ c \notin busy
                    THEN <<"DB0">> ELSE <<>>)
           /\ x4 = (IF c = "sib" /\ "IN0" \in eisr[c] /\ c \notin busy
                    THEN <<"IN0">> ELSE <<>>)
           /\ x5 = (IF c = "sib" /\ "RECVD" \in eisr[c] /\ c \notin busy
                    THEN <<"RECVD">> ELSE <<>>)
    OBVIOUS
  <1>3. PICK s : s = x1 \o x2 \o x3 \o x4 \o x5 /\ s = Pending(c)
    BY <1>2 DEF Pending
  <1>4. ASSUME NEW x \in E PROVE <<x>> \in Seq(E)
    OBVIOUS
  <1>5. <<>> \in Seq(E)
    OBVIOUS
  <1>6. x1 \in Seq(E) /\ x2 \in Seq(E) /\ x3 \in Seq(E) /\ x4 \in Seq(E) /\ x5 \in Seq(E)
    BY <1>1, <1>2, <1>4, <1>5
  <1>7. Head(s) \in E
    BY <1>3, <1>6, FirstOf
  <1> QED BY <1>1, <1>3, <1>7

LEMMA TakenIs ==
    ASSUME TypeInv, Ticks, NEW c, NEW i, i # "none", Takes(c, i)
    PROVE  Idle(c) /\ i \in eisr[c]
  <1>1. Idle(c) /\ Taken(c) = i /\ Pending(c) # <<>>
    BY DEF Takes, Taken
  <1>2. \A j \in {"DB0", "RECVD", "IN0"} : Starved(j) => ticks[j] > 0
    BY DEF TypeInv, IrqType, Starved, DB0_FIT_TICK_THRESHOLD
  <1>3. CASE c = "qm" /\ Starved("DB0")
    BY <1>1, <1>2, <1>3 DEF Taken, Ticks, T1
  <1>4. CASE c = "sib" /\ Starved("RECVD")
    BY <1>1, <1>2, <1>4 DEF Taken, Ticks, T2
  <1>5. CASE c = "sib" /\ Starved("IN0") /\ ~Starved("RECVD")
    BY <1>1, <1>2, <1>5 DEF Taken, Ticks, T3
  <1>6. CASE i = Head(Pending(c))
    BY <1>1, <1>6, PendingFirst
  <1> QED BY <1>1, <1>3, <1>4, <1>5, <1>6 DEF Taken

-----------------------------------------------------------------------------
(* The PGPE dies while it waits for nothing.                               *)
LEMMA KeepsDeath ==
    ASSUME TypeInv, Kept, NEW when \in {"active", "stopped"}, PgpeDies(when)
    PROVE  Kept'
  <1>1. /\ UNCHANGED <<todo, ticks, icrr, type4, db0, db3, registered, mode, flags, skipLock>>
        /\ alive' = FALSE /\ alive /\ registered /\ Idle("pgpe")
        /\ eisr' = [c \in Cmes |-> eisr[c] \union {"HB"}]
    BY DEF PgpeDies, doorbellVars, cmeVars
  <1>2. /\ QSame /\ SSame /\ GSame
        /\ Q1' = Q1 /\ Q2' = Q2 /\ Q3' = Q3 /\ RQ' = RQ
        /\ S1' = S1 /\ S2' = S2 /\ S3' = S3 /\ RS' = RS
        /\ G1' = G1 /\ G2' = G2 /\ G3' = G3
    BY <1>1, SamesViews DEF QSame, SSame, GSame
  <1>3. eisr'["qm"] = eisr["qm"] \union {"HB"} /\ eisr'["sib"] = eisr["sib"] \union {"HB"}
    BY <1>1 DEF Cmes
  <1>4. SameInterCme /\ SameFlags
    BY <1>1, <1>3 DEF SameInterCme, SameFlags, Signals
  <1>5. Lines' /\ Boot' /\ Standstill'
    BY <1>1, <1>2, <1>4, StaysRest
  <1>6. Ticks'
    BY <1>1, <1>2, <1>3 DEF Kept, Ticks, T1, T2, T3, HasReg, RegDue, RegLeft
  <1>7. G1 = End /\ G1[1] = "none" /\ ~Awaiting /\ ~Half
    BY <1>1, IdleViews, NoEnd DEF Awaiting, Half, HalfM, Writes3
  <1>8. ~Due /\ ~In2Due
    BY <1>1, <1>7 DEF Kept, Exchange, E1, E9, Due
  <1>9. Exchange'
    <2>1. /\ RegDue' <=> RegDue
          /\ AckDue' <=> AckDue
          /\ In2Due' <=> In2Due
          /\ HasReg' <=> HasReg
      BY <1>2 DEF RegDue, RegLeft, AckDue, In2Due, HasReg
    <2>2. /\ RegHead' <=> RegHead
          /\ Msg0' = Msg0
          /\ "DB0" \in eisr'["qm"] <=> "DB0" \in eisr["qm"]
          /\ "DB3" \in eisr'["qm"] <=> "DB3" \in eisr["qm"]
      BY <1>1, <1>2, <1>3 DEF RegHead, Msg0
    <2>3. (Db0Due' <=> Db0Due) /\ (Db3Due' <=> Db3Due)
      BY <1>1, <2>1, <2>2 DEF Db0Due, Db3Due
    <2>4. ~Due' /\ ~In2Due'
      BY <1>8, <2>1, <2>2, <2>3 DEF Due
    <2>5. Interlock' <=> Interlock
      BY <1>1 DEF Interlock
    <2>6. E1' /\ E2' /\ E2a' /\ E4' /\ E9' /\ E14' /\ HB1'
      BY <1>1, <1>2, <1>7, <2>1, <2>4 DEF Kept, Exchange, E1, E2, E2a, E4, E9, E14, HB1, Due
    <2>7. E3' /\ E5' /\ E6' /\ E8'
      BY <1>1, <1>2, <1>8, <2>1, <2>2, <2>4, <2>5 DEF Kept, Exchange, E3, E5, E6, E8, Due
    <2>8. E12' /\ E13'
      BY <1>1, <1>2, <2>1, <2>2 DEF Kept, Exchange, E12, E13
    <2>9. E11'
      BY <1>7, <1>1, <2>1, <2>2 DEF WriteNext, Kept, Exchange, E11
    <2> QED BY <2>6, <2>7, <2>8, <2>9 DEF Exchange
  <1>10. Pairing'
    <2>1. Unanswered("IN2")' <=> Unanswered("IN2")
      BY <1>2, <1>3 DEF Unanswered, Awaits
    <2>2. \A k \in Ks : (QOpen(k)' <=> QOpen(k)) /\ (SOpen(k)' <=> SOpen(k))
      BY <1>2, <2>1 DEF QOpen, SOpen
    <2>3. (QClipMid' <=> QClipMid) /\ (QHbMid' <=> QHbMid)
      BY <1>2, <1>3 DEF QClipMid, QHbMid, Answered2, Awaits
    <2>4. (SClipMid' <=> SClipMid) /\ (SHbMid' <=> SHbMid)
      BY <1>2 DEF SClipMid, SHbMid
    <2>5. /\ QPend("hb")'
          /\ \A k \in Ks \ {"hb"} : (QPend(k)' <=> QPend(k)) /\ (SPend(k)' <=> SPend(k))
      BY <1>1, <1>3 DEF QPend, SPend
    <2>6. C1'
      BY <2>2, <2>3, <2>5 DEF Kept, Pairing, C1
    <2>7. C2'
      BY <2>2, <2>3, <2>4 DEF Ks, Kept, Pairing, C2
    <2>8. C3'
      BY <1>2, <1>7 DEF C3, HalfM, Writes3
    <2>9. /\ \A k \in Ks : ~QPend(k) /\ ~QOpen(k)
          /\ ~QClipMid /\ ~QHbMid
      BY <1>1, <1>8, NoMeeting DEF Kept, Exchange, HB1, Due
    <2>10. \A k \in Ks : ~SPend(k) /\ ~SOpen(k)
      BY <2>9 DEF Kept, Pairing, C1
    <2>11. ~SClipMid /\ ~SHbMid
      BY <2>9 DEF Kept, Pairing, C2, Ks
    <2>12. C4' /\ C5'
      BY <2>2, <2>4, <2>5, <2>10, <2>11 DEF C4, C5
    <2> QED BY <2>6, <2>7, <2>8, <2>12 DEF Pairing
  <1>11. Forms'
    <2>1. Interlock' = Interlock /\ registered' = registered
      BY <1>1 DEF Interlock
    <2>2. QForm(todo["qm"])' /\ SForm(todo["sib"])'
      BY <1>1 DEF Kept, Forms
    <2> QED BY <1>2, <2>1, <2>2, FormsKept DEF Kept
  <1> QED BY <1>5, <1>6, <1>9, <1>10, <1>11 DEF Kept

-----------------------------------------------------------------------------
(* What an interrupt of the quad manager starts: nothing, the handler of   *)
(* doorbell 0, or an exchange in IN2 for the reason k.                     *)
Begins(t, k) ==
    /\ t \in Seq(Steps) /\ QForm(t)
    /\ Item(t, 1)[1] \in {"none", "Raise", "ClearDb0"}
    /\ \A y \in StepsOf(t) :
           y[1] \notin {"Register", "RegisterDb0", "Send", "AwaitMsgAck", "Db0Started"}
    /\ k \in Ks => Is(Item(t, 1), "Raise", "IN2") /\ QReasonOf(Item(t, 3)) = k

LEMMA BeginsKept ==
    ASSUME TypeInv, Kept, Idle("qm"), NEW k, NEW t, t = todo'["qm"], Begins(t, k),
           SSame, GSame, UNCHANGED <<ticks, icrr, db3, type4, registered>>,
           Interlock' = Interlock, eisr'["sib"] = eisr["sib"],
           \A b \in Bits \ {"DB3", "HB"} : b \in eisr'["qm"] <=> b \in eisr["qm"],
           "HB" \in eisr["qm"] => "HB" \in eisr'["qm"] \/ k = "hb",
           "DB3" \in eisr["qm"] => "DB3" \in eisr'["qm"] \/ k = Reason[db3["qm"]],
           "qm" \in skipLock' => /\ Item(t, 1)[1] # "ClearDb0"
                                 /\ \E x \in StepsOf(t) : x[1] = "EndDb3"
    PROVE  Lines' /\ Ticks' /\ Boot' /\ Pairing' /\ Standstill' /\ Forms'
  <1>1. /\ Q1 = End /\ RQ = {} /\ Q1[1] = "none" /\ Q2[1] = "none"
        /\ S1' = S1 /\ S2' = S2 /\ RS' = RS
    BY IdleViews, NoEnd, SamesViews
  <1>2. /\ QForm(todo["qm"])' /\ Q1'[1] \in {"none", "Raise", "ClearDb0"}
        /\ \A y \in RQ' :
              y[1] \notin {"Register", "RegisterDb0", "Send", "AwaitMsgAck", "Db0Started"}
    BY DEF Begins, QForm, Q1, RQ
  <1>3. \A b \in Signals \union {"ACK", "DB0"} : b \in eisr'["qm"] <=> b \in eisr["qm"]
    BY DEF Bits, Signals
  <1>4. /\ \A x : ~Awaits(x) /\ ~Awaits(x)' /\ ~Unanswered(x) /\ ~Unanswered(x)'
        /\ \A x : ~Unacked(x) /\ ~Unacked(x)'
    BY <1>1, <1>2 DEF Awaits, Unanswered, Unacked, Is, AnswerKinds
  <1>5. Lines'
    <2>1. W1' /\ W2'
      BY <1>1, <1>3, <1>4 DEF Kept, Lines, W1, W2
    <2>2. W3' /\ W4' /\ W5'
      BY <1>1, <1>3, <1>4 DEF Kept, Lines, W3, W4, W5
    <2> QED BY <2>1, <2>2 DEF Lines
  <1>6. /\ ~HasReg /\ ~HasReg' /\ ~RegDue /\ ~RegDue'
        /\ \A n \in 1 .. 3 : ~RegLeft(n) /\ ~RegLeft(n)'
    BY <1>1, <1>2 DEF HasReg, RegDue, RegLeft
  <1>7. Ticks'
    <2>1. T1'
      BY <1>1, <1>2, <1>3, <1>6 DEF Kept, Ticks, T1
    <2> QED BY <1>1, <2>1 DEF Kept, Ticks, T2, T3
  <1>8. Boot'
    BY <1>1, <1>2, <1>4, <1>6, QmBoot DEF SendDue, Kept
  <1>9. Pairing'
    <2>1. \A j \in Ks : ~QOpen(j)
      BY <1>1, <1>4 DEF QOpen, Is
    <2>2. ~QClipMid /\ ~QHbMid
      BY <1>1, <1>4 DEF QClipMid, QHbMid, Answered2
    <2>3. k \in Ks => QOpen(k)'
      BY DEF Begins, QOpen, Q1, Q3
    <2>4. "HB" \in eisr["qm"] => "HB" \in eisr'["qm"] \/ QOpen("hb")'
      BY <2>3 DEF Ks
    <2>5. "DB3" \in eisr["qm"] =>
              "DB3" \in eisr'["qm"] \/ \A j \in Ks : j = Reason[db3["qm"]] => QOpen(j)'
      BY <2>3
    <2> QED BY <2>1, <2>2, <2>4, <2>5, QmPairing DEF Kept
  <1>10. Standstill'
    <2>1. K1'
      BY DEF Begins, K1, RQ
    <2>2. Q1'[1] = "ClearDb0" => "qm" \notin skipLock'
      BY DEF Q1
    <2>3. L1' /\ L2' /\ L3' /\ L5'
      BY <1>2, <1>4 DEF L1, L2, L3, L5, Is, Answered2, QHbMid
    <2>4. L4'
      BY <1>2, <2>2 DEF L4
    <2> QED BY <2>1, <2>3, <2>4 DEF Standstill
  <1>11. Forms'
    BY <1>2, FormsKept DEF Kept, Forms, SSame
  <1> QED BY <1>5, <1>7, <1>8, <1>9, <1>10, <1>11

-----------------------------------------------------------------------------
(* Its scripts.                                                            *)
LEMMA QEmpty ==
    /\ <<>> \in Seq(Steps) /\ QForm(<<>>) /\ StepsOf(<<>>) = {}
    /\ Item(<<>>, 1) = End /\ Item(<<>>, 2) = End
    /\ Begins(<<>>, "no")
  <1>1. <<>> \in Seq(Steps) /\ QForm(<<>>)
    BY DEF QForm, Form
  <1> QED BY <1>1, EmptyItems, NoEnd DEF Begins, Ks

LEMMA LastScript ==
    ASSUME NEW x \in Steps, x[1] \in {"EndDb0", "EndDb3", "SendAck"}
    PROVE  \E t \in Seq(Steps) :
               /\ t = <<x>> /\ QForm(t) /\ StepsOf(t) = {x}
               /\ Item(t, 1) = x /\ Item(t, 2) = End
  <1>1. QNext(x, End, End)
    BY NoEnd DEF QNext, QThen, QWhence, QClip, QmKinds, AckKinds, Openers, AnswerKinds,
       In2
  <1>2. PICK e \in Seq(Steps) : e = <<>>
    BY QEmpty
  <1>3. QForm(e) /\ Item(e, 1) = End /\ Item(e, 2) = End /\ StepsOf(e) = {}
    BY <1>2, QEmpty
  <1>4. /\ Cons(x, e) \in Seq(Steps) /\ QForm(Cons(x, e))
        /\ Item(Cons(x, e), 1) = x /\ Item(Cons(x, e), 2) = Item(e, 1)
        /\ StepsOf(Cons(x, e)) = {x} \union StepsOf(e)
    BY <1>1, <1>3, QCons
  <1>5. Cons(x, e) = <<x>>
    BY <1>2, Concat DEF Cons
  <1> QED BY <1>3, <1>4, <1>5

LEMMA MoreScript ==
    ASSUME NEW x \in Steps, NEW s \in Seq(Steps), QForm(s),
           QNext(x, Item(s, 1), Item(s, 2)), \A y \in StepsOf(s) : QAfter(x, y)
    PROVE  \E t \in Seq(Steps) :
               /\ t = Cons(x, s) /\ QForm(t) /\ StepsOf(t) = {x} \union StepsOf(s)
               /\ Item(t, 1) = x /\ Item(t, 2) = Item(s, 1) /\ Item(t, 3) = Item(s, 2)
  BY QCons

LEMMA NotifyIn2 ==
    ASSUME NEW s \in Seq(Steps), QForm(s),
           Item(s, 1)[1] \in Openers \union {"SendAck", "none"},
           Item(s, 1)[1] = "Store" => Item(s, 2)[1] = "Pmsr",
           \A y \in StepsOf(s) : y[1] \notin {"Register", "Send"}
    PROVE  \E t \in Seq(Steps) :
               /\ t = Notify("IN2") \o s /\ QForm(t)
               /\ Is(Item(t, 1), "Raise", "IN2") /\ Is(Item(t, 2), "AwaitAnswer", "IN2")
               /\ Item(t, 3) = Item(s, 1) /\ StepsOf(s) \subseteq StepsOf(t)
               /\ \A y \in StepsOf(t) : \/ y \in StepsOf(s)
                                       \/ Is(y, "Raise", "IN2") \/ Is(y, "AwaitAnswer", "IN2")
  <1>1. \A k \in SignalKinds : \A i \in Signals : <<k, i>> \in Steps
    BY DEF Steps
  <1>2. PICK a \in Steps : a = <<"AwaitAnswer", "IN2">> /\ a[1] = "AwaitAnswer" /\ a[2] = "IN2"
    BY <1>1 DEF SignalKinds, Signals
  <1>3. PICK r \in Steps : r = <<"Raise", "IN2">> /\ r[1] = "Raise" /\ r[2] = "IN2"
    BY <1>1 DEF SignalKinds, Signals
  <1>4. QNext(a, Item(s, 1), Item(s, 2))
    <2>1. QThen(a, Item(s, 1))
      BY <1>2 DEF QThen, QmKinds, AckKinds, Openers, AnswerKinds
    <2>2. QWhence(a, Item(s, 1))
      BY <1>2 DEF QWhence, Openers, AnswerKinds
    <2>3. QClip(a, Item(s, 1), Item(s, 2))
      BY <1>2 DEF QClip
    <2> QED BY <2>1, <2>2, <2>3 DEF QNext
  <1>5. \A y \in StepsOf(s) : QAfter(a, y) /\ QAfter(r, y)
    BY <1>2, <1>3 DEF QAfter, AckKinds, Prelude
  <1>6. PICK u \in Seq(Steps) :
               /\ u = Cons(a, s) /\ QForm(u) /\ StepsOf(u) = {a} \union StepsOf(s)
               /\ Item(u, 1) = a /\ Item(u, 2) = Item(s, 1)
    BY <1>4, <1>5, MoreScript
  <1>7. QNext(r, Item(u, 1), Item(u, 2))
    BY <1>2, <1>3, <1>6 DEF QNext, QThen, QWhence, QClip, QmKinds, AckKinds, AnswerKinds, In2
  <1>8. QAfter(r, a)
    BY <1>2, <1>3 DEF QAfter, AckKinds
  <1>9. PICK t \in Seq(Steps) :
               /\ t = Cons(r, u) /\ QForm(t) /\ StepsOf(t) = {r} \union StepsOf(u)
               /\ Item(t, 1) = r /\ Item(t, 2) = Item(u, 1) /\ Item(t, 3) = Item(u, 2)
    BY <1>5, <1>6, <1>8, <1>7, MoreScript
  <1>10. t = Notify("IN2") \o s
    BY <1>2, <1>3, <1>6, <1>9, TwoCons, ZenonT(60) DEF Notify
  <1>11. Is(r, "Raise", "IN2") /\ Is(a, "AwaitAnswer", "IN2")
    BY <1>2, <1>3 DEF Is
  <1> QED BY <1>6, <1>9, <1>10, <1>11

(* Doorbell 0, from its beginning, before the end of a handler.            *)
LEMMA Db0Script ==
    ASSUME NEW x \in Steps, x[1] \in {"EndDb0", "EndDb3"}
    PROVE  \E t \in Seq(Steps) :
               /\ t = ProcessDb0 \o <<x>> /\ QForm(t)
               /\ <<"ClearDb0", "">> \in StepsOf(t) /\ x \in StepsOf(t)
               /\ \E y \in StepsOf(t) : y[1] = "ReadDb0"
               /\ \A y \in StepsOf(t) : y = x \/ y[1] \in {"ClearDb0", "ReadDb0"}
               /\ Item(t, 1)[1] = "ClearDb0"
  <1>1. \A k \in PlainKinds : <<k, "">> \in Steps
    BY DEF Steps
  <1>2. PICK c \in Steps : c = <<"ClearDb0", "">> /\ c[1] = "ClearDb0"
    <2>1. <<"ClearDb0", "">> \in Steps
      BY <1>1 DEF PlainKinds
    <2> QED BY <2>1
  <1>3. PICK r \in Steps : r = <<"ReadDb0", "">> /\ r[1] = "ReadDb0"
    <2>1. <<"ReadDb0", "">> \in Steps
      BY <1>1 DEF PlainKinds
    <2> QED BY <2>1
  <1>4. PICK s \in Seq(Steps) : /\ s = <<x>> /\ QForm(s) /\ StepsOf(s) = {x}
                                /\ Item(s, 1) = x /\ Item(s, 2) = End
    BY LastScript
  <1>5. QNext(r, Item(s, 1), Item(s, 2)) /\ QAfter(r, x)
    BY <1>3, <1>4 DEF QNext, QThen, QWhence, QClip, QmKinds, AckKinds, AnswerKinds, In2,
       QAfter
  <1>6. PICK u \in Seq(Steps) :
               /\ u = Cons(r, s) /\ QForm(u) /\ StepsOf(u) = {r} \union StepsOf(s)
               /\ Item(u, 1) = r /\ Item(u, 2) = Item(s, 1)
    <2>1. \A y \in StepsOf(s) : QAfter(r, y)
      BY <1>4, <1>5
    <2>2. QForm(s) /\ QNext(r, Item(s, 1), Item(s, 2)) /\ r \in Steps /\ s \in Seq(Steps)
      BY <1>3, <1>4, <1>5
    <2> QED BY <2>1, <2>2, MoreScript
  <1>7. QNext(c, Item(u, 1), Item(u, 2)) /\ QAfter(c, x) /\ QAfter(c, r)
    BY <1>2, <1>3, <1>4, <1>6 DEF QNext, QThen, QWhence, QClip, QmKinds, AckKinds,
       AnswerKinds, In2, QAfter, Openers
  <1>8. PICK t \in Seq(Steps) :
               /\ t = Cons(c, u) /\ QForm(t) /\ StepsOf(t) = {c} \union StepsOf(u)
               /\ Item(t, 1) = c
    BY <1>4, <1>6, <1>7, MoreScript
  <1>9. t = ProcessDb0 \o <<x>>
    <2>1. (<<c>> \o <<r>>) \o s = <<c>> \o (<<r>> \o s)
      BY <1>4, Concat
    <2> QED BY <1>2, <1>3, <1>4, <1>6, <1>8, <2>1 DEF ProcessDb0, Step, Cons
  <1> QED BY <1>2, <1>3, <1>4, <1>6, <1>8, <1>9

Answers(t) == \E y \in StepsOf(t) : y[1] \in AckKinds

LEMMA LockOpens ==
    ASSUME NEW m \in Db3Messages
    PROVE  \E t \in Seq(Steps) :
               /\ t = Notify("IN2") \o ProcessDb0 \o EndDb3(m)
               /\ Begins(t, "lock") /\ Answers(t) /\ Item(t, 1)[1] # "ClearDb0"
               /\ \E y \in StepsOf(t) : y[1] = "EndDb3"
  <1>1. PICK x \in Steps : x = <<"EndDb3", m>> /\ x[1] = "EndDb3"
    <2>1. <<"EndDb3", m>> \in Steps
      BY DEF Steps
    <2> QED BY <2>1
  <1>2. PICK s \in Seq(Steps) :
               /\ s = ProcessDb0 \o <<x>> /\ QForm(s)
               /\ x \in StepsOf(s)
               /\ \E y \in StepsOf(s) : y[1] = "ReadDb0"
               /\ \A y \in StepsOf(s) : y = x \/ y[1] \in {"ClearDb0", "ReadDb0"}
               /\ Item(s, 1)[1] = "ClearDb0"
    BY <1>1, Db0Script
  <1>3. PICK t \in Seq(Steps) :
               /\ t = Notify("IN2") \o s /\ QForm(t)
               /\ Is(Item(t, 1), "Raise", "IN2") /\ Is(Item(t, 2), "AwaitAnswer", "IN2")
               /\ Item(t, 3) = Item(s, 1) /\ StepsOf(s) \subseteq StepsOf(t)
               /\ \A y \in StepsOf(t) : \/ y \in StepsOf(s)
                                       \/ Is(y, "Raise", "IN2") \/ Is(y, "AwaitAnswer", "IN2")
    <2>1. Item(s, 1)[1] \in Openers \union {"SendAck", "none"} /\ Item(s, 1)[1] # "Store"
      BY <1>2 DEF Openers
    <2>2. \A y \in StepsOf(s) : y[1] \notin {"Register", "Send"}
      BY <1>1, <1>2
    <2> QED BY <1>2, <2>1, <2>2, NotifyIn2
  <1>4. t = Notify("IN2") \o ProcessDb0 \o EndDb3(m)
    <2>1. PICK n, p, e \in Seq(Steps) : n = Notify("IN2") /\ p = ProcessDb0 /\ e = <<x>>
      <3>1. Notify("IN2") \in Seq(Steps) /\ ProcessDb0 \in Seq(Steps)
        BY PlainSteps, LockScripts DEF Signals
      <3>2. <<x>> \in Seq(Steps)
        OBVIOUS
      <3> QED BY <3>1, <3>2
    <2>2. n \in Seq(Steps) /\ p \in Seq(Steps) /\ e \in Seq(Steps)
      BY <2>1
    <2>3. (n \o p) \o e = n \o (p \o e)
      <3>1. Join(Join(n, p), e) = Join(n, Join(p, e))
        BY <2>2, Join3
      <3> QED BY <3>1 DEF Join
    <2> QED BY <1>1, <1>2, <1>3, <2>1, <2>3 DEF EndDb3
  <1>5. /\ \A y \in StepsOf(t) :
               y[1] \notin {"Register", "RegisterDb0", "Send", "AwaitMsgAck", "Db0Started"}
        /\ Is(Item(t, 1), "Raise", "IN2") /\ QReasonOf(Item(t, 3)) = "lock"
        /\ Item(t, 1)[1] = "Raise"
    <2>1. \A y \in StepsOf(s) : y[1] \in {"ClearDb0", "ReadDb0", "EndDb3"}
      BY <1>1, <1>2
    <2>2. \A y \in StepsOf(t) : y[1] \in {"ClearDb0", "ReadDb0", "EndDb3", "Raise", "AwaitAnswer"}
      BY <1>3, <2>1 DEF Is
    <2>3. QReasonOf(Item(t, 3)) = "lock"
      BY <1>2, <1>3 DEF QReasonOf
    <2>4. Is(Item(t, 1), "Raise", "IN2") /\ Item(t, 1)[1] = "Raise"
      BY <1>3 DEF Is
    <2> QED BY <2>2, <2>3, <2>4
  <1>6. Begins(t, "lock")
    BY <1>3, <1>5 DEF Begins
  <1>7. Answers(t) /\ \E y \in StepsOf(t) : y[1] = "EndDb3"
    BY <1>1, <1>2, <1>3 DEF Answers, AckKinds
  <1> QED BY <1>4, <1>5, <1>6, <1>7

LEMMA AckOpens ==
    ASSUME NEW a \in Acks
    PROVE  \E t \in Seq(Steps) :
               /\ t = Notify("IN2") \o SendAck(a) /\ QForm(t)
               /\ Begins(t, "last") /\ Answers(t) /\ Item(t, 1)[1] # "ClearDb0"
               /\ Is(Item(t, 1), "Raise", "IN2") /\ Is(Item(t, 2), "AwaitAnswer", "IN2")
               /\ \A y \in StepsOf(t) : \/ y[1] = "SendAck"
                                       \/ Is(y, "Raise", "IN2") \/ Is(y, "AwaitAnswer", "IN2")
  <1>1. PICK x \in Steps : x = <<"SendAck", a>> /\ x[1] = "SendAck"
    <2>1. <<"SendAck", a>> \in Steps
      BY DEF Steps
    <2> QED BY <2>1
  <1>2. PICK s \in Seq(Steps) : /\ s = <<x>> /\ QForm(s) /\ StepsOf(s) = {x}
                                /\ Item(s, 1) = x /\ Item(s, 2) = End
    BY <1>1, LastScript
  <1>3. PICK t \in Seq(Steps) :
               /\ t = Notify("IN2") \o s /\ QForm(t)
               /\ Is(Item(t, 1), "Raise", "IN2") /\ Is(Item(t, 2), "AwaitAnswer", "IN2")
               /\ Item(t, 3) = Item(s, 1) /\ StepsOf(s) \subseteq StepsOf(t)
               /\ \A y \in StepsOf(t) : \/ y \in StepsOf(s)
                                       \/ Is(y, "Raise", "IN2") \/ Is(y, "AwaitAnswer", "IN2")
    <2>1. Item(s, 1)[1] \in Openers \union {"SendAck", "none"} /\ Item(s, 1)[1] # "Store"
      BY <1>1, <1>2 DEF Openers
    <2>2. \A y \in StepsOf(s) : y[1] \notin {"Register", "Send"}
      BY <1>1, <1>2
    <2> QED BY <1>2, <2>1, <2>2, NotifyIn2
  <1>4. t = Notify("IN2") \o SendAck(a)
    BY <1>1, <1>2, <1>3 DEF SendAck
  <1>5. /\ \A y \in StepsOf(t) :
               y[1] \notin {"Register", "RegisterDb0", "Send", "AwaitMsgAck", "Db0Started"}
        /\ Is(Item(t, 1), "Raise", "IN2") /\ QReasonOf(Item(t, 3)) = "last"
        /\ Item(t, 1)[1] = "Raise"
    BY <1>1, <1>2, <1>3, ZenonT(60) DEF Is, QReasonOf
  <1>6. Begins(t, "last")
    BY <1>3, <1>5 DEF Begins
  <1>7. Answers(t)
    BY <1>1, <1>2, <1>3 DEF Answers, AckKinds
  <1> QED BY <1>1, <1>2, <1>3, <1>4, <1>5, <1>6, <1>7

LEMMA ClipOpens ==
    ASSUME NEW d \in Db0Messages
    PROVE  \E t \in Seq(Steps) :
               /\ t = Notify("IN2") \o <<<<"Store", d>>, <<"Pmsr", "">>>> \o Notify("IN2")
                      \o SendAck("ok")
               /\ Begins(t, "clip") /\ Answers(t) /\ Item(t, 1)[1] # "ClearDb0"
  <1>1. PICK u \in Seq(Steps) :
            /\ u = Notify("IN2") \o SendAck("ok") /\ QForm(u)
            /\ Is(Item(u, 1), "Raise", "IN2") /\ Is(Item(u, 2), "AwaitAnswer", "IN2")
            /\ Answers(u)
            /\ \A y \in StepsOf(u) : \/ y[1] = "SendAck"
                                    \/ Is(y, "Raise", "IN2") \/ Is(y, "AwaitAnswer", "IN2")
    BY AckOpens DEF Acks
  <1>2. PICK p \in Steps : p = <<"Pmsr", "">> /\ p[1] = "Pmsr"
    <2>1. \A k \in PlainKinds : <<k, "">> \in Steps
      BY DEF Steps
    <2>2. <<"Pmsr", "">> \in Steps
      BY <2>1 DEF PlainKinds
    <2> QED BY <2>2
  <1>3. PICK c \in Steps : c = <<"Store", d>> /\ c[1] = "Store"
    <2>1. <<"Store", d>> \in Steps
      BY DEF Steps
    <2> QED BY <2>1
  <1>4. PICK v \in Seq(Steps) :
            /\ v = Cons(p, u) /\ QForm(v) /\ StepsOf(v) = {p} \union StepsOf(u)
            /\ Item(v, 1) = p /\ Item(v, 2) = Item(u, 1)
    <2>1. QNext(p, Item(u, 1), Item(u, 2))
      BY <1>1, <1>2 DEF QNext, QThen, QWhence, QClip, QmKinds, AckKinds, AnswerKinds, In2, Is
    <2>2. \A y \in StepsOf(u) : QAfter(p, y)
      BY <1>1, <1>2 DEF QAfter, AckKinds, Is, Openers
    <2>3. QForm(u) /\ p \in Steps /\ u \in Seq(Steps)
      BY <1>1, <1>2
    <2> QED BY <2>1, <2>2, <2>3, MoreScript
  <1>5. PICK w \in Seq(Steps) :
            /\ w = Cons(c, v) /\ QForm(w) /\ StepsOf(w) = {c} \union StepsOf(v)
            /\ Item(w, 1) = c /\ Item(w, 2) = Item(v, 1)
    <2>1. QNext(c, Item(v, 1), Item(v, 2))
      BY <1>1, <1>2, <1>3, <1>4
         DEF QNext, QThen, QWhence, QClip, QmKinds, AckKinds, AnswerKinds, In2, Is
    <2>2. \A y \in StepsOf(v) : QAfter(c, y)
      BY <1>1, <1>2, <1>3, <1>4 DEF QAfter, AckKinds, Is
    <2>3. QForm(v) /\ c \in Steps /\ v \in Seq(Steps)
      BY <1>3, <1>4
    <2> QED BY <2>1, <2>2, <2>3, MoreScript
  <1>6. PICK t \in Seq(Steps) :
               /\ t = Notify("IN2") \o w /\ QForm(t)
               /\ Is(Item(t, 1), "Raise", "IN2") /\ Is(Item(t, 2), "AwaitAnswer", "IN2")
               /\ Item(t, 3) = Item(w, 1) /\ StepsOf(w) \subseteq StepsOf(t)
               /\ \A y \in StepsOf(t) : \/ y \in StepsOf(w)
                                       \/ Is(y, "Raise", "IN2") \/ Is(y, "AwaitAnswer", "IN2")
    <2>1. /\ Item(w, 1)[1] \in Openers \union {"SendAck", "none"}
          /\ Item(w, 2)[1] = "Pmsr"
      BY <1>2, <1>3, <1>4, <1>5 DEF Openers
    <2>2. \A y \in StepsOf(w) : y[1] \notin {"Register", "Send"}
      BY <1>1, <1>2, <1>3, <1>4, <1>5 DEF Is
    <2> QED BY <1>5, <2>1, <2>2, NotifyIn2
  <1>7. t = Notify("IN2") \o <<<<"Store", d>>, <<"Pmsr", "">>>> \o Notify("IN2") \o SendAck("ok")
    <2>1. PICK n, q, e \in Seq(Steps) :
              n = Notify("IN2") /\ q = <<c, p>> /\ e = SendAck("ok")
      <3>1. Notify("IN2") \in Seq(Steps) /\ SendAck("ok") \in Seq(Steps)
        BY PlainSteps DEF Signals, Acks
      <3>2. <<c, p>> \in Seq(Steps)
        BY TwoSteps
      <3> QED BY <3>1, <3>2
    <2>2. n \in Seq(Steps) /\ q \in Seq(Steps) /\ e \in Seq(Steps)
      BY <2>1
    <2>3. Join(Join(Join(n, q), n), e) = Join(n, Join(q, Join(n, e)))
      BY <2>2, Join4
    <2>4. q \o u = Cons(c, Cons(p, u))
      BY <2>1, TwoCons
    <2>5. Join(n, e) = u
      BY <1>1, <2>1 DEF Join
    <2>6. Join(q, u) = w
      BY <1>4, <1>5, <2>4 DEF Join
    <2>7. t = Join(n, w)
      BY <1>6, <2>1 DEF Join
    <2> QED BY <1>2, <1>3, <2>1, <2>3, <2>5, <2>6, <2>7 DEF Join
  <1>8. /\ \A y \in StepsOf(t) :
               y[1] \notin {"Register", "RegisterDb0", "Send", "AwaitMsgAck", "Db0Started"}
        /\ Is(Item(t, 1), "Raise", "IN2") /\ QReasonOf(Item(t, 3)) = "clip"
        /\ Item(t, 1)[1] = "Raise"
    <2>1. Item(t, 3)[1] = "Store"
      BY <1>3, <1>5, <1>6
    <2>2. QReasonOf(Item(t, 3)) = "clip"
      BY <2>1 DEF QReasonOf
    <2>3. \A y \in StepsOf(v) : y[1] \in {"Pmsr", "SendAck", "Raise", "AwaitAnswer"}
      BY <1>1, <1>2, <1>4 DEF Is
    <2>4. \A y \in StepsOf(w) : y[1] \in {"Store", "Pmsr", "SendAck", "Raise", "AwaitAnswer"}
      BY <1>3, <1>5, <2>3
    <2>5. \A y \in StepsOf(t) : y[1] \in {"Store", "Pmsr", "SendAck", "Raise", "AwaitAnswer"}
      BY <1>6, <2>4 DEF Is
    <2>6. Is(Item(t, 1), "Raise", "IN2") /\ Item(t, 1)[1] = "Raise"
      BY <1>6 DEF Is
    <2> QED BY <2>2, <2>5, <2>6
  <1>9. Begins(t, "clip")
    BY <1>6, <1>8 DEF Begins
  <1>10. Answers(t)
    BY <1>1, <1>4, <1>5, <1>6 DEF Answers, AckKinds
  <1> QED BY <1>7, <1>8, <1>9, <1>10

LEMMA SafeOpens ==
    \E t \in Seq(Steps) :
        /\ t = Notify("IN2") \o Step("ToFsafe") \o Notify("IN2")
        /\ Begins(t, "hb") /\ ~Answers(t) /\ Item(t, 1)[1] = "Raise"
  <1>1. PICK z \in Seq(Steps) : z = <<>>
    BY QEmpty
  <1>2. QForm(z) /\ Item(z, 1) = End /\ Item(z, 2) = End /\ StepsOf(z) = {}
    BY <1>1, QEmpty
  <1>3. PICK u \in Seq(Steps) :
               /\ u = Notify("IN2") \o z /\ QForm(u)
               /\ Is(Item(u, 1), "Raise", "IN2") /\ Is(Item(u, 2), "AwaitAnswer", "IN2")
               /\ \A y \in StepsOf(u) : \/ y \in StepsOf(z)
                                       \/ Is(y, "Raise", "IN2") \/ Is(y, "AwaitAnswer", "IN2")
    BY <1>2, NotifyIn2, NoEnd
  <1>4. PICK f \in Steps : f = <<"ToFsafe", "">> /\ f[1] = "ToFsafe"
    <2>1. \A k \in PlainKinds : <<k, "">> \in Steps
      BY DEF Steps
    <2>2. <<"ToFsafe", "">> \in Steps
      BY <2>1 DEF PlainKinds
    <2> QED BY <2>2
  <1>5. PICK v \in Seq(Steps) :
            /\ v = Cons(f, u) /\ QForm(v) /\ StepsOf(v) = {f} \union StepsOf(u)
            /\ Item(v, 1) = f /\ Item(v, 2) = Item(u, 1)
    <2>1. QNext(f, Item(u, 1), Item(u, 2))
      BY <1>3, <1>4 DEF QNext, QThen, QWhence, QClip, QmKinds, AckKinds, AnswerKinds, In2, Is
    <2>2. \A y \in StepsOf(u) : QAfter(f, y)
      BY <1>2, <1>3, <1>4 DEF QAfter, AckKinds, Is, Openers
    <2>3. QForm(u) /\ f \in Steps /\ u \in Seq(Steps)
      BY <1>3, <1>4
    <2> QED BY <2>1, <2>2, <2>3, MoreScript
  <1>6. PICK t \in Seq(Steps) :
               /\ t = Notify("IN2") \o v /\ QForm(t)
               /\ Is(Item(t, 1), "Raise", "IN2") /\ Is(Item(t, 2), "AwaitAnswer", "IN2")
               /\ Item(t, 3) = Item(v, 1) /\ StepsOf(v) \subseteq StepsOf(t)
               /\ \A y \in StepsOf(t) : \/ y \in StepsOf(v)
                                       \/ Is(y, "Raise", "IN2") \/ Is(y, "AwaitAnswer", "IN2")
    <2>1. /\ Item(v, 1)[1] \in Openers \union {"SendAck", "none"}
          /\ Item(v, 1)[1] # "Store"
      BY <1>4, <1>5 DEF Openers
    <2>2. \A y \in StepsOf(v) : y[1] \notin {"Register", "Send"}
      BY <1>2, <1>3, <1>4, <1>5 DEF Is
    <2> QED BY <1>5, <2>1, <2>2, NotifyIn2
  <1>7. t = Notify("IN2") \o Step("ToFsafe") \o Notify("IN2")
    <2>1. PICK n, q \in Seq(Steps) : n = Notify("IN2") /\ q = <<f>>
      <3>1. Notify("IN2") \in Seq(Steps) /\ <<f>> \in Seq(Steps)
        BY PlainSteps DEF Signals
      <3> QED BY <3>1
    <2>2. n \in Seq(Steps) /\ q \in Seq(Steps)
      BY <2>1
    <2>3. (n \o q) \o n = n \o (q \o n) /\ n \o z = n
      <3>1. Join(Join(n, q), n) = Join(n, Join(q, n))
        BY <2>2, Join3
      <3>2. n \o z = n
        BY <1>1, <2>2, Concat
      <3> QED BY <3>1, <3>2 DEF Join
    <2> QED BY <1>3, <1>4, <1>5, <1>6, <2>1, <2>3 DEF Step, Cons
  <1>8. /\ \A y \in StepsOf(t) :
               /\ y[1] \notin {"Register", "RegisterDb0", "Send", "AwaitMsgAck", "Db0Started"}
               /\ y[1] \notin AckKinds
        /\ Is(Item(t, 1), "Raise", "IN2") /\ QReasonOf(Item(t, 3)) = "hb"
        /\ Item(t, 1)[1] = "Raise"
    <2>1. \A y \in StepsOf(u) : y[1] \in {"Raise", "AwaitAnswer"}
      BY <1>2, <1>3 DEF Is
    <2>2. \A y \in StepsOf(v) : y[1] \in {"ToFsafe", "Raise", "AwaitAnswer"}
      BY <1>4, <1>5, <2>1
    <2>3. \A y \in StepsOf(t) : y[1] \in {"ToFsafe", "Raise", "AwaitAnswer"}
      BY <1>6, <2>2 DEF Is
    <2>4. \A y \in StepsOf(t) :
              /\ y[1] \notin {"Register", "RegisterDb0", "Send", "AwaitMsgAck", "Db0Started"}
              /\ y[1] \notin AckKinds
      BY <2>3 DEF AckKinds
    <2>5. QReasonOf(Item(t, 3)) = "hb"
      BY <1>4, <1>5, <1>6 DEF QReasonOf
    <2>6. Is(Item(t, 1), "Raise", "IN2") /\ Item(t, 1)[1] = "Raise"
      BY <1>6 DEF Is
    <2> QED BY <2>4, <2>5, <2>6
  <1>9. Begins(t, "hb") /\ ~Answers(t)
    BY <1>6, <1>8 DEF Begins, Answers
  <1> QED BY <1>7, <1>8, <1>9

-----------------------------------------------------------------------------
(* The interrupts of the quad manager.                                     *)

LEMMA QuietExchange ==
    ASSUME \A y \in RQ' : y[1] \notin {"Register", "RegisterDb0", "Send", "AwaitMsgAck",
                                       "Db0Started"},
           Q1'[1] # "RegisterDb0"
    PROVE  /\ ~HasReg' /\ ~RegDue' /\ ~RegHead'
           /\ E6' /\ E11' /\ E12' /\ E13'
  BY DEF HasReg, RegDue, RegLeft, RegHead, E6, E11, E12, E13

LEMMA IdleExchange ==
    ASSUME Idle("qm")
    PROVE  /\ ~HasReg /\ ~RegDue /\ ~RegHead /\ ~AckDue /\ ~In2Due
           /\ "DB0" \in eisr["qm"] => Db0Due
  BY IdleViews, NoEnd DEF HasReg, RegDue, RegLeft, RegHead, AckDue, In2Due, Db0Due

LEMMA DueNow ==
    ASSUME Exchange, Due
    PROVE  registered /\ (Awaiting \/ Half) /\ type4 = "none" /\ G1 # End
  BY NoEnd DEF Exchange, E1, Awaiting, Half, HalfM, Writes3

LEMMA KeepsTakeDb0 ==
    ASSUME TypeInv, Kept, TakeDb0
    PROVE  Kept'
  <1>1. Idle("qm") /\ "DB0" \in eisr["qm"]
    BY TakenIs DEF TakeDb0, Kept
  <1>2. PICK x \in Steps : x = <<"EndDb0", "">> /\ x[1] = "EndDb0"
    <2>1. \A k \in PlainKinds : <<k, "">> \in Steps
      BY DEF Steps
    <2>2. <<"EndDb0", "">> \in Steps
      BY <2>1 DEF PlainKinds
    <2> QED BY <2>2
  <1>3. PICK t \in Seq(Steps) :
               /\ t = ProcessDb0 \o <<x>> /\ QForm(t)
               /\ <<"ClearDb0", "">> \in StepsOf(t)
               /\ \A y \in StepsOf(t) : y = x \/ y[1] \in {"ClearDb0", "ReadDb0"}
               /\ Item(t, 1)[1] = "ClearDb0"
    BY <1>2, Db0Script
  <1>4. /\ UNCHANGED <<eisr, ticks, icrr, type4, db0, db3, registered, alive, mode, flags,
                       skipLock>>
        /\ todo' = [todo EXCEPT !["qm"] = ProcessDb0 \o Step("EndDb0")]
    BY DEF TakeDb0, doorbellVars, cmeVars, sysVars, pgpeVars
  <1>5. t = todo'["qm"] /\ SSame /\ GSame
    <2>1. TodoType /\ "qm" \in Processes
      BY DEF TypeInv, Processes
    <2> QED BY <1>2, <1>3, <1>4, <2>1 DEF TodoType, SSame, GSame, Step, Processes
  <1>6. Begins(t, "no")
    BY <1>2, <1>3 DEF Begins, Ks
  <1>7. "qm" \notin skipLock
    BY <1>1, IdleViews DEF Kept, Standstill, K1
  <1>8. SamePgpe /\ Interlock' = Interlock
    BY <1>4, <1>5, SameFrame
  <1>9. Lines' /\ Ticks' /\ Boot' /\ Pairing' /\ Standstill' /\ Forms'
    BY <1>1, <1>4, <1>5, <1>6, <1>7, <1>8, BeginsKept
  <1>10. /\ Q1'[1] = "ClearDb0" /\ <<"ClearDb0", "">> \in RQ'
         /\ \A y \in RQ' : y[1] \in {"EndDb0", "ClearDb0", "ReadDb0"}
    BY <1>2, <1>3, <1>5 DEF Q1, RQ
  <1>11. ~HasReg' /\ ~RegDue' /\ ~RegHead' /\ E6' /\ E11' /\ E12' /\ E13'
    BY <1>10, QuietExchange
  <1>12. registered /\ (Awaiting \/ Half) /\ type4 = "none" /\ ~Db3Due
    <2>1. Db0Due
      BY <1>1, IdleExchange
    <2> QED BY <2>1, DueNow DEF Kept, Exchange, E4, Due
  <1>13. /\ G1' = G1 /\ G2' = G2 /\ (Awaiting' <=> Awaiting) /\ (Half' <=> Half)
         /\ (Db3Due' <=> Db3Due)
    BY <1>4, <1>5, SamesViews DEF Awaiting, Half, HalfM, Db3Due
  <1>14. ~In2Due'
    BY <1>10 DEF In2Due, In2
  <1>15. Exchange'
    <2>1. E1' /\ E2' /\ E2a' /\ E4' /\ E5'
      BY <1>4, <1>12, <1>13 DEF E1, E2, E2a, E4, E5
    <2>2. E3' /\ E9'
      BY <1>10, <1>14 DEF E3, E9
    <2>3. E8'
      BY <1>4, <1>8, <1>11 DEF Kept, Exchange, E8, Msg0
    <2>4. E14' /\ HB1'
      BY <1>4, <1>13, <1>14 DEF Kept, Exchange, E14, HB1
    <2> QED BY <1>11, <2>1, <2>2, <2>3, <2>4 DEF Exchange
  <1> QED BY <1>9, <1>15 DEF Kept

LEMMA KeepsTakeLoss ==
    ASSUME TypeInv, Kept, TakeHeartbeatLoss("qm")
    PROVE  Kept'
  <1>1. Idle("qm") /\ "HB" \in eisr["qm"]
    BY TakenIs DEF TakeHeartbeatLoss, Kept
  <1>2. PICK t \in Seq(Steps) :
        /\ t = Notify("IN2") \o Step("ToFsafe") \o Notify("IN2")
        /\ Begins(t, "hb") /\ ~Answers(t) /\ Item(t, 1)[1] = "Raise"
    BY SafeOpens
  <1>3. /\ UNCHANGED <<ticks, icrr, type4, db0, db3, registered, alive, mode, flags,
                       skipLock>>
        /\ todo' = [todo EXCEPT !["qm"] = t]
        /\ eisr' = Clearing("qm", {"HB"}, eisr)
    BY <1>2 DEF TakeHeartbeatLoss, doorbellVars, cmeVars, sysVars, pgpeVars
  <1>4. t = todo'["qm"] /\ SSame /\ GSame
    BY <1>3 DEF TypeInv, Processes, TodoType, SSame, GSame
  <1>5. eisr'["qm"] = eisr["qm"] \ {"HB"} /\ eisr'["sib"] = eisr["sib"]
    BY <1>3, BitViews DEF Bits
  <1>6. "qm" \notin skipLock
    BY <1>1, IdleViews DEF Kept, Standstill, K1
  <1>7. SamePgpe /\ Interlock' = Interlock
    BY <1>3, <1>4, SameFrame
  <1>8. Lines' /\ Ticks' /\ Boot' /\ Pairing' /\ Standstill' /\ Forms'
    BY <1>1, <1>2, <1>3, <1>4, <1>5, <1>6, <1>7, BeginsKept
  <1>9. /\ Q1'[1] = "Raise"
        /\ \A y \in RQ' : y[1] \notin AckKinds
        /\ \A y \in RQ' : y[1] \notin {"Register", "RegisterDb0", "Send", "AwaitMsgAck",
                                       "Db0Started"}
    BY <1>2, <1>4 DEF Begins, Answers, Q1, RQ
  <1>10. ~HasReg' /\ ~RegDue' /\ ~RegHead' /\ E6' /\ E11' /\ E12' /\ E13'
    BY <1>9, QuietExchange
  <1>11. ~alive /\ registered /\ ~Due /\ G1 = End
    BY <1>1, DueNow DEF Kept, Exchange, HB1, E14, E5
  <1>12. ~HasReg /\ ~RegDue /\ ("DB0" \notin eisr["qm"]) /\ ~Db3Due
    BY <1>1, <1>11, IdleExchange DEF Due
  <1>13. ~Due' /\ ~AckDue' /\ ~Db3Due'
    BY <1>3, <1>5, <1>9, <1>10, <1>12 DEF Due, AckDue, Db0Due, Db3Due
  <1>14. Exchange'
    <2>1. G1' = G1
      BY <1>4, SamesViews
    <2>2. E1' /\ E2' /\ E2a' /\ E4' /\ E5'
      BY <1>3, <1>10, <1>11, <1>13, <2>1, NoEnd DEF Kept, Exchange, E1, E2, E2a, E4, E5
    <2>3. E3' /\ E9'
      BY <1>3, <1>11, <1>13 DEF E3, E9
    <2>4. E8'
      BY <1>3, <1>7, <1>10 DEF Kept, Exchange, E8, Msg0
    <2>5. E14' /\ HB1'
      BY <1>3, <1>5, <1>11, <2>1 DEF Kept, Exchange, E14, HB1
    <2> QED BY <1>10, <2>2, <2>3, <2>4, <2>5 DEF Exchange
  <1> QED BY <1>8, <1>14 DEF Kept

(* The script of doorbell 3.                                               *)
LEMMA Db3Opens ==
    ASSUME TypeInv, NEW m \in Db3Messages
    PROVE  \E t \in Seq(Steps) :
               /\ t = Db3Steps("qm", m)
               /\ Begins(t, Reason[m]) /\ Item(t, 1)[1] # "ClearDb0"
               /\ m = "SUSPEND" => t = <<>>
               /\ m # "SUSPEND" => Answers(t) /\ Item(t, 1)[1] = "Raise"
               /\ m \in LockLike => \E y \in StepsOf(t) : y[1] = "EndDb3"
  <1>1. CASE m \in LockLike
    <2>1. PICK t \in Seq(Steps) :
               /\ t = Notify("IN2") \o ProcessDb0 \o EndDb3(m)
               /\ Begins(t, "lock") /\ Answers(t) /\ Item(t, 1)[1] # "ClearDb0"
               /\ \E y \in StepsOf(t) : y[1] = "EndDb3"
      BY LockOpens
    <2>2. t = Db3Steps("qm", m) /\ Reason[m] = "lock" /\ m # "SUSPEND"
      <3>1. t = Db3Steps("qm", m)
        BY <1>1, <2>1, ZenonT(30) DEF Db3Steps, LockLike
      <3>2. Reason[m] = "lock" /\ m # "SUSPEND"
        BY <1>1 DEF LockLike, Reason
      <3> QED BY <3>1, <3>2
    <2>3. Item(t, 1)[1] = "Raise"
      BY <2>1 DEF Begins, Is, Ks
    <2> QED BY <2>1, <2>2, <2>3
  <1>2. CASE m \in {"HANDOFF", "UNSUSPEND"}
    <2>1. PICK a \in Acks : a = (IF m = "HANDOFF" THEN "ok" ELSE "unsuspended")
      BY DEF Acks
    <2>2. PICK t \in Seq(Steps) :
               /\ t = Notify("IN2") \o SendAck(a)
               /\ Begins(t, "last") /\ Answers(t) /\ Item(t, 1)[1] # "ClearDb0"
      BY AckOpens
    <2>3. t = Db3Steps("qm", m) /\ Reason[m] = "last" /\ m # "SUSPEND" /\ m \notin LockLike
      <3>1. CASE m = "HANDOFF"
        BY <2>1, <2>2, <3>1 DEF Db3Steps, LockLike, Reason
      <3>2. CASE m = "UNSUSPEND"
        BY <2>1, <2>2, <3>2 DEF Db3Steps, LockLike, Reason
      <3> QED BY <1>2, <3>1, <3>2
    <2>4. Item(t, 1)[1] = "Raise"
      BY <2>2 DEF Begins, Is, Ks
    <2> QED BY <2>2, <2>3, <2>4
  <1>3. CASE m = "CLIP"
    <2>1. PICK d \in Db0Messages : d = db0["qm"]
      BY CmesAre DEF TypeInv, DoorbellType
    <2>2. PICK t \in Seq(Steps) :
               /\ t = Notify("IN2") \o <<<<"Store", d>>, <<"Pmsr", "">>>> \o Notify("IN2")
                      \o SendAck("ok")
               /\ Begins(t, "clip") /\ Answers(t) /\ Item(t, 1)[1] # "ClearDb0"
      BY ClipOpens
    <2>3. t = Db3Steps("qm", m) /\ Reason[m] = "clip" /\ m # "SUSPEND" /\ m \notin LockLike
      BY <1>3, <2>1, <2>2 DEF Db3Steps, LockLike, Reason
    <2>4. Item(t, 1)[1] = "Raise"
      BY <2>2 DEF Begins, Is, Ks
    <2> QED BY <2>2, <2>3, <2>4
  <1>4. CASE m = "SUSPEND"
    <2>1. PICK t \in Seq(Steps) : t = <<>>
      BY QEmpty
    <2>2. t = Db3Steps("qm", m) /\ Reason[m] = "no" /\ m \notin LockLike
      BY <1>4, <2>1 DEF Db3Steps, LockLike, Reason
    <2>3. Begins(t, "no") /\ Item(t, 1)[1] # "ClearDb0"
      BY <2>1, QEmpty, NoEnd
    <2> QED BY <1>4, <2>1, <2>2, <2>3
  <1> QED BY <1>1, <1>2, <1>3, <1>4 DEF LockLike, Db3Messages

LEMMA Db3Flags ==
    ASSUME TypeInv, NEW c \in Cmes, TakeDb3(c)
    PROVE  SameFlags
  <1>1. \/ UNCHANGED flags
        \/ \E F \in {{"DROOP"}, {"NO_HANDOFF"}, {}} :
               \/ flags' = [flags EXCEPT ![c] = @ \union F]
               \/ flags' = [flags EXCEPT ![c] = @ \ F]
    <2>1. CASE db3[c] \in {"SUSPEND", "UNSUSPEND"}
      BY <2>1 DEF TakeDb3, DroopFlag
    <2>2. CASE db3[c] \notin {"SUSPEND", "UNSUSPEND"}
      BY <2>2 DEF TakeDb3
    <2> QED BY <2>1, <2>2
  <1>2. CASE UNCHANGED flags
    BY <1>2 DEF SameFlags
  <1>3. ASSUME NEW F \in {{"DROOP"}, {"NO_HANDOFF"}, {}},
               \/ flags' = [flags EXCEPT ![c] = @ \union F]
               \/ flags' = [flags EXCEPT ![c] = @ \ F]
        PROVE  SameFlags
    <2>1. F \intersect {"INTERLOCK", "REGISTERING", "ENABLED"} = {}
      OBVIOUS
    <2>2. flags \in [Cmes -> SUBSET Flags] /\ "qm" \in Cmes /\ "sib" \in Cmes
      BY DEF TypeInv, CmeType, Cmes
    <2>3. \A d \in Cmes : flags'[d] \in {flags[d], flags[d] \union F, flags[d] \ F}
      BY <1>3, <2>2
    <2> QED BY <2>1, <2>2, <2>3 DEF SameFlags
  <1> QED BY <1>1, <1>2, <1>3

LEMMA KeepsTakeDb3 ==
    ASSUME TypeInv, Kept, TakeDb3("qm")
    PROVE  Kept'
  <1>1. Idle("qm") /\ "DB3" \in eisr["qm"]
    BY TakenIs DEF TakeDb3, Kept
  <1>2. PICK m \in Db3Messages : m = db3["qm"]
    BY <1>1, CmesAre DEF TypeInv, Db3Written
  <1>3. PICK t \in Seq(Steps) :
               /\ t = Db3Steps("qm", m)
               /\ Begins(t, Reason[m]) /\ Item(t, 1)[1] # "ClearDb0"
               /\ m = "SUSPEND" => t = <<>>
               /\ m # "SUSPEND" => Answers(t) /\ Item(t, 1)[1] = "Raise"
               /\ m \in LockLike => \E y \in StepsOf(t) : y[1] = "EndDb3"
    BY Db3Opens
  <1>4. /\ UNCHANGED <<ticks, icrr, type4, db0, db3, registered, alive, mode>>
        /\ todo' = [todo EXCEPT !["qm"] = t]
        /\ eisr' = Clearing("qm", {"DB3"}, eisr)
        /\ (skipLock' = skipLock) \/ m \in LockLike
    <2>1. /\ UNCHANGED <<ticks, icrr, type4, db0, db3, registered, alive, mode>>
          /\ todo' = [todo EXCEPT !["qm"] = t]
          /\ eisr' = Clearing("qm", {"DB3"}, eisr)
      BY <1>2, <1>3 DEF TakeDb3, doorbellVars, sysVars, pgpeVars
    <2>2. (skipLock' = skipLock) \/ m \in LockLike
      BY <1>2 DEF TakeDb3, LockLike
    <2> QED BY <2>1, <2>2
  <1>5. t = todo'["qm"] /\ SSame /\ GSame
    BY <1>4 DEF TypeInv, Processes, TodoType, SSame, GSame
  <1>6. eisr'["qm"] = eisr["qm"] \ {"DB3"} /\ eisr'["sib"] = eisr["sib"]
    BY <1>4, BitViews DEF Bits
  <1>7. "qm" \notin skipLock
    BY <1>1, IdleViews DEF Kept, Standstill, K1
  <1>8. SameFlags
    BY Db3Flags, CmesAre
  <1>9. SamePgpe /\ Interlock' = Interlock
    BY <1>4, <1>5, <1>8 DEF SamePgpe, SameFlags, Interlock
  <1>10. Lines' /\ Ticks' /\ Boot' /\ Pairing' /\ Standstill' /\ Forms'
    <2>1. "qm" \in skipLock' => \E y \in StepsOf(t) : y[1] = "EndDb3"
      BY <1>3, <1>4, <1>7
    <2>2. Begins(t, Reason[m]) /\ Item(t, 1)[1] # "ClearDb0"
      BY <1>3
    <2>3. "DB3" \in eisr["qm"] => "DB3" \in eisr'["qm"] \/ Reason[m] = Reason[db3["qm"]]
      BY <1>2
    <2>4. \A b \in Bits \ {"DB3", "HB"} : b \in eisr'["qm"] <=> b \in eisr["qm"]
      BY <1>6
    <2>5. "HB" \in eisr["qm"] => "HB" \in eisr'["qm"]
      BY <1>6
    <2> QED BY <1>1, <1>4, <1>5, <1>6, <1>9, <2>1, <2>2, <2>3, <2>4, <2>5, BeginsKept
  <1>11. /\ Q1'[1] # "RegisterDb0"
         /\ \A y \in RQ' : y[1] \notin {"Register", "RegisterDb0", "Send", "AwaitMsgAck",
                                        "Db0Started"}
    BY <1>3, <1>5 DEF Begins, Q1, RQ
  <1>12. ~HasReg' /\ ~RegDue' /\ ~RegHead' /\ E6' /\ E11' /\ E12' /\ E13'
    BY <1>11, QuietExchange
  <1>13. /\ ~HasReg /\ ~RegDue /\ ~RegHead /\ ~AckDue /\ ~In2Due
         /\ "DB0" \in eisr["qm"] => Db0Due
    BY <1>1, IdleExchange
  <1>14. ~Db3Due'
    BY <1>6 DEF Db3Due
  <1>15. CASE m = "SUSPEND"
    <2>1. RQ' = {}
      BY <1>3, <1>5, <1>15, EmptyItems DEF RQ
    <2>2. ~AckDue' /\ ~In2Due'
      BY <2>1 DEF AckDue, In2Due
    <2>3. \A b \in {"DB0", "DB3", "HB"} : b \in eisr'["qm"] => b \in eisr["qm"]
      BY <1>6
    <2>4. RQ = {}
      BY <1>1, IdleViews
    <2>5. NoMoreDue
      BY <1>6, <1>8, <1>12, <1>13, <2>2, <2>3, <2>4 DEF NoMoreDue, SameFlags
    <2>6. Exchange'
      BY <1>4, <1>9, <2>5, NoMoreExchange DEF Kept
    <2> QED BY <1>10, <2>6 DEF Kept
  <1>16. CASE m # "SUSPEND"
    <2>1. Db3Due
      BY <1>1, <1>2, <1>16 DEF Db3Due
    <2>2. /\ registered /\ (Awaiting \/ Half) /\ type4 = "none" /\ G1 # End
          /\ "DB0" \notin eisr["qm"] /\ alive
    <3>1. registered /\ (Awaiting \/ Half) /\ type4 = "none" /\ G1 # End
      BY <2>1, DueNow DEF Due, Kept
    <3>2. "DB0" \notin eisr["qm"] /\ alive
      BY <1>13, <2>1, <3>1 DEF Kept, Exchange, E4, E14
    <3> QED BY <3>1, <3>2
    <2>3. AckDue'
      BY <1>3, <1>5, <1>16 DEF Answers, AckDue, RQ
    <2>4. (Awaiting' <=> Awaiting) /\ (Half' <=> Half)
      BY <1>4, <1>5, SamesViews DEF Awaiting, Half, HalfM
    <2>5. E1' /\ E2' /\ E2a' /\ E4' /\ E5'
      BY <1>4, <1>14, <2>2, <2>4 DEF E1, E2, E2a, E4, E5
    <2>6. E3' /\ E9'
      BY <1>6, <2>2, <2>3 DEF E3, E9
    <2>7. E8'
      BY <1>4, <1>9, <1>12 DEF Kept, Exchange, E8, Msg0, SamePgpe
    <2>8. E14' /\ HB1'
      BY <2>2, <1>4, <1>6 DEF Kept, Exchange, HB1, E14
    <2>9. Exchange'
      BY <1>12, <2>5, <2>6, <2>7, <2>8 DEF Exchange
    <2> QED BY <1>10, <2>9 DEF Kept
  <1> QED BY <1>15, <1>16
=============================================================================
