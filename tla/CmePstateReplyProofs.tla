------------------------ MODULE CmePstateReplyProofs ------------------------
(***************************************************************************)
(* That under QuadRegime the PGPE hears only the answers it expects, and   *)
(* the quad manager only what it can act on (Replies): the scripts of the  *)
(* PGPE say which answer follows what it writes, what is still owed to it  *)
(* is that answer, and both agree whether Pstates are started.  So nobody  *)
(* panics (NoPanic).                                                       *)
(***************************************************************************)
EXTENDS CmePstateQuadProofs

-----------------------------------------------------------------------------
(* What the PGPE hears and what it waits for.  Its scripts once more:      *)
(* which answer it expects to what it has written, and what comes when it  *)
(* has it.                                                                 *)
RG == StepsOf(todo["pgpe"])
Unsent == {"NONE", "REGISTER_DONE"}
Replayed == {"REPLAY", "ENTER_SAFE"}
ReplyTo(msg) == IF msg = "STOP" THEN "suspended" ELSE "ok"
ReplyTo3(m) == IF m = "UNSUSPEND" THEN "unsuspended" ELSE "ok"
Expect(y, e) == y[1] = "AwaitAck" /\ y[2].expected = e
Repeats(y) == Expect(y, "ok") /\ y[2].replay \in Replayed
Writes0(x, msg) == x[1] = "Write0" /\ x[2][1] = Cmes /\ x[2][2].msg = msg
WritesQm(x) == x[1] = "Write0" /\ x[2][1] = {"qm"}
Becoming(m) == <<"Become", m>>
Goes(y) == \/ y = End \/ y[1] = "Become"
           \/ y[1] = "Write0" /\ y[2][1] = Cmes /\ y[2][2].msg \in {"CLIP", "PMSR"}

PFirst(x, y) ==     \* what follows x
    /\ x[1] = "Write0" =>
          /\ x[2][2].msg # "NONE"
          /\ x[2][1] # Cmes => x[2][2].msg = "PAYLOAD"
          /\ x[2][1] = {"sib"} => y[1] = "Write3"
          /\ x[2][1] = Cmes => y = End \/ (Expect(y, ReplyTo(x[2][2].msg)) /\ ~y[2].nacked)
          /\ x[2][1] = Cmes /\ x[2][2].msg = "START" => Repeats(y)
    /\ x[1] = "Write3" /\ x[2][1] = "sib" =>
          /\ x[2][2] = "SUSPEND" => y[1] = "PollDroop"
          /\ x[2][2] # "SUSPEND" => Expect(y, ReplyTo3(x[2][2]))
          /\ x[2][2] \in Replayed => Repeats(y)
    /\ Writes3(x, "qm", "SUSPEND") => Writes3(y, "sib", "SUSPEND")
    /\ x[1] = "PollDroop" => y[1] = "Write3" /\ y[2][1] = "qm" /\ y[2][2] \in Replayed
    /\ x[1] = "AwaitAck" =>
          /\ Goes(y)
          /\ x[2].replay \in Replayed \union {"none"}
          /\ x[2].nacked => x[2].expected = "ok"
          /\ x[2].expected = "suspended" => y = Becoming("stopped")
          /\ x[2].expected \in {"ok", "suspended", "unsuspended"}
    /\ x[1] = "Become" => y = End
PSecond(x, y, z) == \* what y follows
    /\ y[1] = "Write3" /\ y[2][1] = "qm" => WritesQm(x) \/ (x[1] = "PollDroop" /\ z[1] = "Write3")
    /\ y[1] = "PollDroop" => Writes3(x, "sib", "SUSPEND")
    /\ Writes3(y, "sib", "SUSPEND") => Writes3(x, "qm", "SUSPEND")
    /\ y[1] = "Become" => Expect(x, IF y[2] = "stopped" THEN "suspended" ELSE "ok")
PNext(x, y, z) == PFirst(x, y) /\ PSecond(x, y, z)
PForm(s) == \A i \in 1 .. Len(s) : PNext(s[i], Item(s, i + 1), Item(s, i + 2))

(* Expects: this answer will do, now or when the second doorbell 3 has     *)
(* been written.  Starting: the quad manager has Pstates still to start.   *)
Enabled == "ENABLED" \in flags["qm"]
Expects(e) == Expect(G1, e) \/ \E m \in Ms : HalfM(m) /\ ReplyTo3(m) = e
Starting ==
    /\ ~Enabled
    /\ \/ Writes0(G1, "START")
       \/ /\ Msg0 = "START" /\ type4 \in {"none", "nack"}
          /\ \/ Repeats(G1)
             \/ G1[1] = "Write3" /\ G1[2][2] \in Replayed \union {"SUSPEND"}
             \/ G1[1] = "PollDroop"
Updating == Msg0 \in {"GLB", "PAYLOAD"} \/ (Msg0 = "START" /\ Starting)
Readable ==
    /\ Msg0 # "NONE" /\ Expects(ReplyTo(Msg0))
    /\ Msg0 = "START" => Starting
    /\ Msg0 = "STOP" => Enabled

(* What the quad manager may have still to do.                             *)
In0(y) == y[1] = "NotifySibling" \/ (y[1] \in {"Raise", "AwaitAnswer"} /\ y[2] = "IN0")
Owed(y) ==
    /\ y[1] = "SendAck" => Expects(y[2]) /\ ~Starting
    /\ y[1] = "AckUpdate" => Expects("ok") /\ Msg0 \in {"GLB", "PAYLOAD"}
    /\ y[1] = "Db0Started" => Expects("ok") /\ Msg0 = "START" /\ Starting
    /\ y[1] = "ReadDb0" => Readable
    /\ y[1] = "ToFsafe" => ~alive
    /\ In0(y) => Msg0 \notin Unsent
Owed3(m) == IF m \in LockLike THEN Readable ELSE Expects(ReplyTo3(m)) /\ ~Starting
R1 == /\ \A y \in RQ : Owed(y)
      /\ RegHead \/ (Db0Due /\ ~AckDue) => Readable
      /\ \A m \in Db3Messages : Db3Due /\ db3["qm"] = m => Owed3(m)
R2 == /\ <<"SendAck", "suspended">> \in RQ /\ Enabled => Q1[1] = "Db0Stop"
      /\ Q1[1] = "Db0Stop" => <<"SendAck", "suspended">> \in RQ
      /\ \A i \in Nat \ {0, 1} : Item(todo["qm"], i)[1] # "Db0Stop"

(* What it has answered.                                                   *)
R3 == /\ type4 \notin {"none", "available", "nack"} => Expect(G1, type4)
      /\ type4 = "nack" => Expect(G1, "ok") /\ Updating
      /\ type4 = "suspended" => ~Enabled

(* What it has been told, and so its sibling.                              *)
R4 == /\ Msg0 \notin Unsent \/ Enabled \/ WritesQm(G1) => db0["sib"].msg \notin Unsent
      /\ Enabled => Msg0 \notin Unsent
      /\ Writes0(G1, "REGISTER_DONE") => ~Enabled
      /\ G1[1] = "PollDroop" => Updating
      /\ G1[1] = "Write3" /\ G1[2][2] = "SUSPEND" => Updating
      /\ G1[1] = "Write3" /\ G1[2][1] = "qm" /\ G1[2][2] \in LockLike => Updating
      /\ G1[1] = "Write3" /\ G2[1] = "Write0" => Msg0 = "PAYLOAD"
      /\ G1[1] = "Write0" /\ G1[2][1] = {"sib"} => Msg0 = "PAYLOAD"

(* Pstates are started where the PGPE thinks so, or are being started.     *)
R5 == alive /\ registered =>
      /\ mode # "stopped" \/ Becoming("active") \in RG =>
             Enabled \/ Starting \/ Becoming("stopped") \in RG
      /\ mode = "stopped" /\ Becoming("active") \notin RG =>
            /\ ~Enabled
            /\ \/ G1 = End
               \/ Writes0(G1, "REGISTER_DONE") /\ G3 = End
               \/ Expect(G1, "ok") /\ Msg0 = "REGISTER_DONE" /\ G2 = End /\ ~G1[2].nacked
      /\ Becoming("active") \in RG => mode = "stopped"
      /\ Becoming("safe") \in RG \/ Becoming("stopped") \in RG => mode = "active"
      /\ Becoming("stopped") \in RG =>
             \/ Writes0(G1, "STOP")
             \/ Expect(G1, "suspended")
             \/ G1 = Becoming("stopped") /\ ~Enabled
      /\ Writes0(G1, "START") => ~Enabled
      /\ Writes0(G1, "STOP") => Enabled
GPart == PForm(todo["pgpe"]) /\ R3 /\ R4 /\ R5
Replies == R1 /\ R2 /\ GPart

-----------------------------------------------------------------------------
(* The form, from the front.                                               *)
LEMMA PTail ==
    ASSUME NEW s \in Seq(Steps), s # <<>>, PForm(s)
    PROVE  PForm(Tail(s)) /\ PNext(Item(s, 1), Item(s, 2), Item(s, 3))
  <1>1. /\ Tail(s) \in Seq(Steps) /\ Len(s) \in Nat \ {0}
        /\ Len(Tail(s)) = Len(s) - 1
        /\ \A i \in 1 .. Len(s) - 1 : Tail(s)[i] = s[i + 1]
    BY HeadTailProperties
  <1>2. ASSUME NEW i \in 1 .. Len(Tail(s))
        PROVE  PNext(Tail(s)[i], Item(Tail(s), i + 1), Item(Tail(s), i + 2))
    <2>1. i + 1 \in 1 .. Len(s) /\ Tail(s)[i] = s[i + 1] /\ i \in Nat
      BY <1>1
    <2>2. PNext(s[i + 1], Item(s, (i + 1) + 1), Item(s, (i + 1) + 2))
      BY <2>1 DEF PForm
    <2>3. /\ Item(Tail(s), i + 1) = Item(s, (i + 1) + 1)
          /\ Item(Tail(s), i + 2) = Item(s, (i + 2) + 1)
          /\ (i + 1) + 2 = (i + 2) + 1
      BY <2>1, TailItems, SMTT(60)
    <2> QED BY <2>1, <2>2, <2>3
  <1>3. PNext(Item(s, 1), Item(s, 2), Item(s, 3))
    BY <1>1 DEF Item, PForm
  <1> QED BY <1>2, <1>3 DEF PForm

LEMMA PCons ==
    ASSUME NEW x \in Steps, NEW s \in Seq(Steps), PForm(s), PNext(x, Item(s, 1), Item(s, 2))
    PROVE  PForm(Cons(x, s))
  <1> DEFINE t == Cons(x, s)
  <1>0. Len(s) \in Nat
    OBVIOUS
  <1>1. /\ t \in Seq(Steps) /\ t # <<>> /\ Item(t, 1) = x
        /\ \A i \in Nat \ {0} : Item(t, i + 1) = Item(s, i)
    BY ConsItems
  <1>3. /\ Len(t) = Len(s) + 1 /\ t[1] = x
        /\ \A i \in 1 .. Len(s) : t[i + 1] = s[i]
    BY ConsItems
  <1> HIDE DEF t
  <1>2. ASSUME NEW i \in 1 .. Len(t)
        PROVE  PNext(t[i], Item(t, i + 1), Item(t, i + 2))
    <2>1. CASE i = 1
      <3>1. Item(t, 2) = Item(s, 1) /\ Item(t, 3) = Item(s, 2)
        BY <1>1
      <3>2. i + 1 = 2 /\ i + 2 = 3 /\ t[i] = x
        BY <1>3, <2>1
      <3> QED BY <3>1, <3>2
    <2>2. CASE i # 1
      <3>1. PICK j \in 1 .. Len(s) : i = j + 1
        BY <1>0, <1>3, <2>2
      <3>2. t[i] = s[j] /\ j + 1 \in Nat \ {0} /\ j + 2 \in Nat \ {0}
        BY <1>0, <1>3, <3>1
      <3>3. Item(t, (j + 1) + 1) = Item(s, j + 1) /\ Item(t, (j + 2) + 1) = Item(s, j + 2)
        BY <1>1, <3>2
      <3>4. i + 1 = (j + 1) + 1 /\ i + 2 = (j + 2) + 1
        BY <3>1, <3>2
      <3>5. PNext(s[j], Item(s, j + 1), Item(s, j + 2))
        BY <3>1 DEF PForm
      <3> QED BY <3>2, <3>3, <3>4, <3>5
    <2> QED BY <2>1, <2>2
  <1> QED BY <1>2 DEF PForm, t

LEMMA StepsJoined ==
    ASSUME NEW a \in Seq(Steps), NEW b \in Seq(Steps)
    PROVE  StepsOf(a \o b) = StepsOf(a) \union StepsOf(b)
  <1>1. /\ Len(a) \in Nat /\ Len(b) \in Nat /\ Len(a \o b) = Len(a) + Len(b)
        /\ \A i \in 1 .. Len(a) + Len(b) :
               (a \o b)[i] = IF i <= Len(a) THEN a[i] ELSE b[i - Len(a)]
    BY ConcatProperties
  <1>2. ASSUME NEW i \in 1 .. Len(a \o b)
        PROVE  (a \o b)[i] \in StepsOf(a) \union StepsOf(b)
    <2>1. CASE i <= Len(a)
      BY <1>1, <2>1 DEF StepsOf
    <2>2. CASE ~(i <= Len(a))
      BY <1>1, <2>2 DEF StepsOf
    <2> QED BY <2>1, <2>2
  <1>3. ASSUME NEW i \in 1 .. Len(a) PROVE a[i] \in StepsOf(a \o b)
    BY <1>1 DEF StepsOf
  <1>4. ASSUME NEW i \in 1 .. Len(b) PROVE b[i] \in StepsOf(a \o b)
    <2>1. i + Len(a) \in 1 .. Len(a \o b) /\ (a \o b)[i + Len(a)] = b[i]
      BY <1>1
    <2> QED BY <2>1 DEF StepsOf
  <1>5. StepsOf(a \o b) \subseteq StepsOf(a) \union StepsOf(b)
    BY <1>2 DEF StepsOf
  <1>6. StepsOf(a) \subseteq StepsOf(a \o b) /\ StepsOf(b) \subseteq StepsOf(a \o b)
    BY <1>3, <1>4 DEF StepsOf
  <1> QED BY <1>5, <1>6

LEMMA StepsOfFew ==
    /\ StepsOf(<<>>) = {}
    /\ \A x \in Steps : StepsOf(<<x>>) = {x}
    /\ \A x, y \in Steps : StepsOf(<<x, y>>) = {x, y}
  <1>1. ASSUME NEW x \in Steps PROVE StepsOf(<<x>>) = {x}
    <2>1. Len(<<x>>) = 1 /\ <<x>>[1] = x /\ 1 .. 1 = {1}
      OBVIOUS
    <2> QED BY <2>1, Zenon DEF StepsOf
  <1>2. ASSUME NEW x \in Steps, NEW y \in Steps PROVE StepsOf(<<x, y>>) = {x, y}
    BY DEF StepsOf
  <1> QED BY <1>1, <1>2, EmptyItems

(* The quad manager waits in IN0 only for an answer it owes, and it owes   *)
(* one answer.                                                             *)
LEMMA NoneOwed ==
    ASSUME NEW s \in Seq(Steps), QForm(s), \A x \in StepsOf(s) : x[1] \notin AckKinds
    PROVE  \A y \in StepsOf(s) : ~In0(y)
  <1>1. \A i \in 1 .. Len(s) : QNext(s[i], Item(s, i + 1), Item(s, i + 2))
    BY DEF QForm, Form, Follows
  <1>2. \A i \in Nat : Item(s, i)[1] \notin AckKinds
    BY ItemsOf, NoEnd DEF AckKinds
  <1>3. ASSUME NEW i \in 1 .. Len(s), In0(s[i]) PROVE FALSE
    <2>1. i + 1 \in Nat /\ i + 1 + 1 \in Nat
      OBVIOUS
    <2>2. Item(s, i + 1)[1] \notin AckKinds /\ Item(s, i + 2)[1] \notin AckKinds
      BY <1>2, <2>1
    <2>3. s[i][1] # "NotifySibling"
      BY <1>1, <2>2 DEF QNext, QThen
    <2>4. ~(s[i][1] = "AwaitAnswer" /\ s[i][2] = "IN0")
      BY <1>1, <2>2 DEF QNext, QThen, AnswerKinds
    <2>5. s[i][1] = "Raise" /\ s[i][2] = "IN0"
      BY <1>3, <2>3, <2>4 DEF In0
    <2>6. Item(s, i + 1)[1] \in AnswerKinds /\ Item(s, i + 1)[2] = "IN0"
      BY <1>1, <2>5 DEF QNext, QThen
    <2>7. i + 1 \in 1 .. Len(s) /\ Item(s, i + 1) = s[i + 1]
      BY <2>6, NoEnd DEF AnswerKinds, Item
    <2>8. Item(s, (i + 1) + 1)[1] \in AckKinds
      BY <1>1, <2>6, <2>7 DEF QNext, QThen
    <2> QED BY <1>2, <2>1, <2>8
  <1> QED BY <1>3 DEF StepsOf

LEMMA OneAck ==
    ASSUME NEW s \in Seq(Steps), QForm(s), NEW x \in StepsOf(s), NEW y \in StepsOf(s),
           x[1] \in AckKinds, y[1] \in AckKinds
    PROVE  x = y
  <1>1. PICK i \in 1 .. Len(s) : x = s[i]
    BY DEF StepsOf
  <1>2. PICK j \in 1 .. Len(s) : y = s[j]
    BY DEF StepsOf
  <1>3. \A a \in 1 .. Len(s) : \A b \in a + 1 .. Len(s) : QAfter(s[a], s[b])
    BY DEF QForm, Form, After
  <1>4. ASSUME i < j PROVE FALSE
    BY <1>4, <1>1, <1>2, <1>3 DEF QAfter
  <1>5. ASSUME j < i PROVE FALSE
    BY <1>5, <1>1, <1>2, <1>3 DEF QAfter
  <1>6. i = j
    BY <1>4, <1>5
  <1> QED BY <1>1, <1>2, <1>6

LEMMA StopItems ==
    ASSUME NEW s \in Seq(Steps)
    PROVE  (\A y \in StepsOf(s) : y[1] # "Db0Stop")
               <=> \A i \in Nat \ {0} : Item(s, i)[1] # "Db0Stop"
  <1>1. ASSUME \A y \in StepsOf(s) : y[1] # "Db0Stop", NEW i \in Nat \ {0}
        PROVE  Item(s, i)[1] # "Db0Stop"
    BY <1>1, ItemsOf, NoEnd
  <1>2. ASSUME \A i \in Nat \ {0} : Item(s, i)[1] # "Db0Stop", NEW i \in 1 .. Len(s)
        PROVE  s[i][1] # "Db0Stop"
    BY <1>2 DEF Item
  <1> QED BY <1>1, <1>2 DEF StepsOf

-----------------------------------------------------------------------------
(* Steps that leave the PGPE, and what it waits for, as they are.          *)
GStill ==
    /\ GSame
    /\ UNCHANGED <<db0, type4, mode, registered, alive>>
    /\ Enabled' <=> Enabled

LEMMA StillViews ==
    ASSUME GStill
    PROVE  /\ G1' = G1 /\ G2' = G2 /\ G3' = G3 /\ RG' = RG /\ Msg0' = Msg0
           /\ \A e : Expects(e)' <=> Expects(e)
           /\ Starting' <=> Starting
           /\ Updating' <=> Updating
           /\ Readable' <=> Readable
           /\ \A y : Owed(y)' <=> Owed(y)
           /\ \A m : Owed3(m)' <=> Owed3(m)
  <1>1. G1' = G1 /\ G2' = G2 /\ G3' = G3 /\ RG' = RG /\ Msg0' = Msg0
    BY SamesViews DEF GStill, RG, GSame, Msg0
  <1>2. \A m : HalfM(m)' <=> HalfM(m)
    BY <1>1 DEF HalfM, GStill
  <1>3. \A e : Expects(e)' <=> Expects(e)
    BY <1>1, <1>2 DEF Expects
  <1>4. Starting' <=> Starting
    BY <1>1 DEF Starting, GStill
  <1>5. Updating' <=> Updating
    BY <1>1, <1>4 DEF Updating
  <1>6. Readable' <=> Readable
    BY <1>1, <1>3, <1>4 DEF Readable, GStill
  <1>7. \A y : Owed(y)' <=> Owed(y)
    BY <1>1, <1>3, <1>4, <1>6 DEF GStill, Owed
  <1>8. \A m : Owed3(m)' <=> Owed3(m)
    BY <1>3, <1>4, <1>6 DEF Owed3
  <1> QED BY <1>1, <1>3, <1>4, <1>5, <1>6, <1>7, <1>8

LEMMA StillAnswers ==
    ASSUME GPart, GStill
    PROVE  GPart'
  <1>1. /\ G1' = G1 /\ G2' = G2 /\ G3' = G3 /\ RG' = RG /\ Msg0' = Msg0
        /\ Starting' <=> Starting
        /\ Updating' <=> Updating
        /\ Enabled' <=> Enabled
    BY StillViews DEF GStill
  <1>2. PForm(todo["pgpe"])'
    BY DEF GPart, GStill, GSame, PForm
  <1>3. R3'
    BY <1>1 DEF GPart, R3, GStill
  <1>4. R4'
    BY <1>1 DEF GPart, R4, GStill
  <1>5. R5'
    BY <1>1 DEF GPart, R5, GStill
  <1> QED BY <1>2, <1>3, <1>4, <1>5 DEF GPart

(* Then the quad manager owes what it has owed, if it has no more to do.   *)
LEMMA StillOwes ==
    ASSUME Replies, GStill, R2',
           \A y \in RQ' : y \in RQ \/ Owed(y),
           RegHead' \/ (Db0Due' /\ ~AckDue') => RegHead \/ (Db0Due /\ ~AckDue) \/ Readable,
           Db3Due' => Db3Due /\ db3'["qm"] = db3["qm"]
    PROVE  Replies'
  <1>1. GPart'
    BY StillAnswers DEF Replies
  <1>2. /\ Msg0' = Msg0
        /\ \A e : Expects(e)' <=> Expects(e)
        /\ Starting' <=> Starting
        /\ Readable' <=> Readable
        /\ \A y : Owed(y)' <=> Owed(y)
        /\ \A m : Owed3(m)' <=> Owed3(m)
    BY StillViews
  <1>3. R1
    BY DEF Replies
  <1>4. \A y \in RQ' : Owed(y)'
    BY <1>2, <1>3 DEF R1
  <1>5. RegHead' \/ (Db0Due' /\ ~AckDue') => Readable'
    BY <1>2, <1>3 DEF R1
  <1>6. \A m \in Db3Messages : Db3Due' /\ db3'["qm"] = m => Owed3(m)'
    BY <1>2, <1>3 DEF R1
  <1>7. R1'
    BY <1>2, <1>4, <1>5, <1>6 DEF R1
  <1> QED BY <1>1, <1>7 DEF Replies

(* Nothing is owed when nothing is due.                                    *)
LEMMA NothingDue ==
    ASSUME TypeInv', Forms', GPart', R2', ~Due', \A y \in RQ' : y[1] = "ToFsafe" => ~alive'
    PROVE  Replies'
  <1>1. \A y \in RQ' : y[1] \notin AckKinds
    BY DEF Due, AckDue
  <1>2. \A y \in RQ' : ~In0(y)
    <2>1. todo'["qm"] \in Seq(Steps)
      BY DEF TypeInv, TodoType, Processes
    <2>2. QForm(todo'["qm"])
      BY DEF Forms
    <2>3. RQ' = StepsOf(todo'["qm"])
      BY DEF RQ
    <2> QED BY <1>1, <2>1, <2>2, <2>3, NoneOwed
  <1>3. \A y \in RQ' : Owed(y)'
    BY <1>1, <1>2 DEF Owed, AckKinds
  <1>4. ~RegHead' /\ ~Db0Due' /\ ~Db3Due'
    BY DEF Due
  <1>5. R1'
    BY <1>3, <1>4 DEF R1
  <1> QED BY <1>5 DEF Replies

LEMMA NotDue ==
    ASSUME Exchange', ~registered' \/ (~Awaiting' /\ ~Half')
    PROVE  ~Due'
  BY DEF Exchange, E1

(* Steps of the others: the quad manager has to do what it had.            *)
Aside ==
    /\ QSame
    /\ Enabled' <=> Enabled
    /\ "DB0" \in eisr'["qm"] => "DB0" \in eisr["qm"]
    /\ "DB3" \in eisr'["qm"] => "DB3" \in eisr["qm"]
    /\ db3'["qm"] = db3["qm"]

LEMMA AsideViews ==
    ASSUME Aside, Msg0' = Msg0
    PROVE  /\ Q1' = Q1 /\ RQ' = RQ
           /\ AckDue' <=> AckDue
           /\ RegHead' <=> RegHead
           /\ Db0Due' => Db0Due
           /\ Db3Due' => Db3Due
           /\ Enabled' <=> Enabled
           /\ R2 => R2'
  <1>1. Q1' = Q1 /\ RQ' = RQ
    BY SamesViews DEF Aside
  <1>2. (AckDue' <=> AckDue) /\ (RegHead' <=> RegHead)
    BY <1>1 DEF AckDue, RegHead
  <1>3. (HasReg' <=> HasReg) /\ (RegDue' <=> RegDue)
    BY <1>1 DEF HasReg, RegDue, RegLeft
  <1>4. (Db0Due' => Db0Due) /\ (Db3Due' => Db3Due)
    BY <1>3 DEF Db0Due, Db3Due, Aside
  <1>5. Enabled' <=> Enabled
    BY DEF Aside
  <1>6. R2 => R2'
    BY <1>1, <1>5 DEF Aside, QSame, R2
  <1> QED BY <1>1, <1>2, <1>4, <1>5, <1>6

LEMMA AsideReplies ==
    ASSUME Replies, Aside, GSame, UNCHANGED <<db0, type4, mode, registered, alive>>
    PROVE  Replies'
  <1>1. Msg0' = Msg0
    BY DEF Msg0
  <1>2. /\ Q1' = Q1 /\ RQ' = RQ
        /\ AckDue' <=> AckDue
        /\ RegHead' <=> RegHead
        /\ Db0Due' => Db0Due
        /\ Db3Due' => Db3Due
        /\ Enabled' <=> Enabled
        /\ R2'
    BY <1>1, AsideViews DEF Replies
  <1>3. GStill
    BY <1>2 DEF GStill
  <1> QED BY <1>2, <1>3, StillOwes DEF Aside

-----------------------------------------------------------------------------
(* The sibling, and what goes on beside the doorbells.                     *)
Beside == /\ Aside /\ GSame
          /\ UNCHANGED <<db0, type4, mode, registered, alive>>

LEMMA SibTodo ==
    ASSUME TypeInv,
           todo' = todo \/ (\E s : Then("sib", s)) \/ (\E s : todo' = [todo EXCEPT !["sib"] = s])
    PROVE  QSame /\ GSame
  BY DEF TypeInv, TodoType, Processes, Then, QSame, GSame

(* Only the flags and interrupts of the sibling change, or those that      *)
(* matter only between the two.                                            *)
LEMMA SibBeside ==
    ASSUME TypeInv,
           todo' = todo \/ (\E s : Then("sib", s)) \/ (\E s : todo' = [todo EXCEPT !["sib"] = s]),
           \/ flags' = flags \/ (\E f : flags' = [flags EXCEPT !["sib"] = f])
           \/ flags'["qm"] = flags["qm"],
           \/ eisr' = eisr \/ (\E f : eisr' = [eisr EXCEPT !["sib"] = f])
           \/ \E b \in Bits \ {"DB0", "DB3"} : eisr' = Raising("qm", b, eisr),
           UNCHANGED <<db0, db3, type4, mode, registered, alive>>
    PROVE  Beside
  <1>1. QSame /\ GSame
    BY SibTodo
  <1>2. flags'["qm"] = flags["qm"]
    BY DEF TypeInv, CmeType, Cmes
  <1>3. /\ "DB0" \in eisr'["qm"] => "DB0" \in eisr["qm"]
        /\ "DB3" \in eisr'["qm"] => "DB3" \in eisr["qm"]
    <2>1. CASE eisr' = eisr \/ (\E f : eisr' = [eisr EXCEPT !["sib"] = f])
      BY <2>1 DEF TypeInv, IrqType, Cmes
    <2>2. ASSUME NEW b \in Bits \ {"DB0", "DB3"}, eisr' = Raising("qm", b, eisr)
          PROVE  eisr'["qm"] = eisr["qm"] \union {b}
      BY <2>2, BitViews
    <2> QED BY <2>1, <2>2
  <1>4. Enabled' <=> Enabled
    BY <1>2 DEF Enabled
  <1> QED BY <1>1, <1>3, <1>4 DEF Beside, Aside

LEMMA SibHandles ==
    ASSUME TypeInv, Handle("sib")
    PROVE  Beside /\ panic' = panic
  <1> DEFINE Todo == \/ todo' = todo \/ (\E s : Then("sib", s))
                     \/ (\E s : todo' = [todo EXCEPT !["sib"] = s])
             Flgs == \/ flags' = flags \/ (\E f : flags' = [flags EXCEPT !["sib"] = f])
                     \/ flags'["qm"] = flags["qm"]
             Eisr == \/ eisr' = eisr \/ (\E f : eisr' = [eisr EXCEPT !["sib"] = f])
                     \/ \E b \in Bits \ {"DB0", "DB3"} : eisr' = Raising("qm", b, eisr)
             Rest == UNCHANGED <<db0, db3, type4, mode, registered, alive>>
             Done == Todo /\ Flgs /\ Eisr /\ Rest /\ panic' = panic
  <1>1. CASE RaiseSignal("sib") \/ Answer("sib")
    <2>1. Argument("sib") \in Signals
      BY <1>1, CmesAre, CurrentStep, Arguments
      DEF RaiseSignal, Answer, Running, SignalKinds, TypeInv
    <2>2. eisr' = Raising("qm", Argument("sib"), eisr)
      BY <1>1 DEF RaiseSignal, Answer, Other
    <2>3. Argument("sib") \in Bits \ {"DB0", "DB3"}
      BY <2>1 DEF Bits, Signals
    <2>4. Todo /\ Flgs /\ Rest /\ panic' = panic
      BY <1>1 DEF RaiseSignal, Answer, Continue, doorbellVars, cmeVars, sysVars, pgpeVars
    <2> QED BY <2>2, <2>3, <2>4, SibBeside
  <1>2. CASE AwaitAnswer("sib") \/ AwaitSignal("sib") \/ ClearBit("sib")
    <2>1. Done
      BY <1>2 DEF AwaitAnswer, AwaitSignal, ClearBit, Continue, Clearing, irqVars,
         doorbellVars, cmeVars, sysVars, pgpeVars
    <2> QED BY <2>1, SibBeside
  <1>3. CASE StoreField("sib") \/ UpdatePmsr("sib") \/ SuspendPstates("sib") \/ Ready("sib")
    <2>1. Done
      BY <1>3 DEF StoreField, UpdatePmsr, SuspendPstates, Ready, Continue, irqVars,
         doorbellVars, sysVars, pgpeVars
    <2> QED BY <2>1, SibBeside
  <1>4. CASE Register("sib") \/ FinishDb3("sib") \/ ToFsafe("sib")
    <2>1. Done
      BY <1>4 DEF Register, FinishDb3, ToFsafe, Continue, irqVars, doorbellVars, sysVars,
         pgpeVars
    <2> QED BY <2>1, SibBeside
  <1> QED BY <1>1, <1>2, <1>3, <1>4 DEF Handle

LEMMA SibTakes ==
    ASSUME TypeInv, TakeDb3("sib") \/ TakeHeartbeatLoss("sib") \/ TakeIn0 \/ TakeMsg
    PROVE  Beside /\ panic' = panic
  <1>1. flags'["qm"] = flags["qm"] /\ panic' = panic
    <2>1. CASE TakeDb3("sib")
      BY <2>1 DEF TakeDb3, DroopFlag, TypeInv, CmeType, Cmes, sysVars
    <2>2. CASE TakeHeartbeatLoss("sib") \/ TakeIn0 \/ TakeMsg
      BY <2>2 DEF TakeHeartbeatLoss, TakeIn0, TakeMsg, cmeVars, sysVars
    <2> QED BY <2>1, <2>2
  <1>2. /\ \E s : todo' = [todo EXCEPT !["sib"] = s]
        /\ eisr' = eisr \/ \E f : eisr' = [eisr EXCEPT !["sib"] = f]
        /\ UNCHANGED <<db0, db3, type4, mode, registered, alive>>
    BY DEF TakeDb3, TakeHeartbeatLoss, TakeIn0, TakeMsg, Clearing, doorbellVars, sysVars, pgpeVars
  <1> QED BY <1>1, <1>2, SibBeside

LEMMA BesideQuad ==
    ASSUME TypeInv, NEW c \in Cmes, FitTick(c) \/ BeginStop(c) \/ EndStop(c) \/ Retry
    PROVE  Beside /\ panic' = panic
  <1>1. /\ todo' = todo /\ panic' = panic
        /\ UNCHANGED <<db0, db3, type4, mode, registered, alive>>
        /\ eisr' = eisr \/ \E f : eisr' = [eisr EXCEPT !["sib"] = f]
    BY DEF FitTick, BeginStop, EndStop, Retry, Raising, doorbellVars, sysVars, pgpeVars
  <1>2. "ENABLED" \in flags'["qm"] <=> "ENABLED" \in flags["qm"]
    BY DEF FitTick, BeginStop, EndStop, DroopFlag, Retry, cmeVars, TypeInv, CmeType, Cmes
  <1>3. QSame /\ GSame
    BY <1>1, SibTodo
  <1>4. eisr'["qm"] = eisr["qm"]
    BY <1>1 DEF TypeInv, IrqType, Cmes
  <1> QED BY <1>1, <1>2, <1>3, <1>4 DEF Beside, Aside, Enabled

(* A message that is received is the one that was sent.                    *)
LEMMA RightMessage ==
    ASSUME TypeInv, Kept, Receive
    PROVE  TypeBits[icrr[1]] \intersect TypeBits[Argument("sib")] # {}
  <1>1. /\ S1 \in Steps /\ S1[1] = "Receive" /\ S1[2] = Argument("sib") /\ S1 # End
        /\ S1 \in RS
    BY HeadsAt, Heads DEF Receive, Running
  <1>2. /\ Unacked(icrr[1]) /\ icrr[1] \in MTypes /\ S1[2] \in MTypes
    BY <1>1, Heads DEF Receive, Kept, Lines, W4, Is, MsgKinds
  <1>3. ASSUME icrr[1] = "INIT", S1[2] = "LOCK" PROVE FALSE
    <2>1. SendDue("INIT")
      BY <1>2, <1>3 DEF SendDue
    <2>2. <<"Receive", "INIT">> \in RS
      BY <2>1 DEF Kept, Boot, B5
    <2>3. PICK s \in Seq(Steps) : /\ \A y \in StepsOf(s) : SAfter(S1, y)
                                  /\ RS = {S1} \union StepsOf(s)
      BY <1>1, SibTail DEF Kept, Receive, Running
    <2>4. <<"Receive", "INIT">> # S1
      BY <1>3
    <2>5. SAfter(S1, <<"Receive", "INIT">>)
      BY <2>2, <2>3, <2>4
    <2> QED BY <1>1, <2>5 DEF SAfter
  <1>4. ASSUME icrr[1] = "LOCK", S1[2] = "INIT" PROVE FALSE
    <2>1. S1 = <<"Receive", "INIT">>
      BY <1>1, <1>4, StepIsPair
    <2>2. SendDue("SYNC")
      BY <1>1, <1>4 DEF Kept, Boot, B2
    <2>3. SendDue("INIT")
      BY <1>1, <2>1, <2>2 DEF Kept, Boot, B1
    <2>4. Q1[1] = "AwaitMsgAck" /\ Q1[2] = "LOCK"
      BY <1>2, <1>4 DEF Unacked, Is
    <2>5. <<"Send", "INIT">> \in RQ
      BY <2>3, <2>4 DEF SendDue, Unacked, Is
    <2>6. At("qm", "AwaitMsgAck")
      <3>1. Q1 # End
        BY <2>4, NoEnd
      <3>2. todo["qm"] \in Seq(Steps)
        BY DEF TypeInv, TodoType, Processes
      <3> QED BY <2>4, <3>1, <3>2, ItemsOf DEF At, Q1
    <2>7. PICK R \in Seq(Steps) : /\ RQ = {Q1} \union StepsOf(R)
                                  /\ \A y \in StepsOf(R) : QAfter(Q1, y)
      BY <2>6, QRest DEF Kept
    <2>8. QAfter(Q1, <<"Send", "INIT">>)
      BY <2>4, <2>5, <2>7
    <2> QED BY <2>4, <2>8 DEF QAfter, Prelude
  <1>5. 0 \in TypeBits["INIT"] /\ 0 \in TypeBits["SYNC"]
        /\ 1 \in TypeBits["LOCK"] /\ 1 \in TypeBits["SYNC"]
    BY DEF TypeBits
  <1>6. /\ icrr[1] = "INIT" => S1[2] = "INIT" \/ S1[2] = "SYNC"
        /\ icrr[1] = "LOCK" => S1[2] = "LOCK" \/ S1[2] = "SYNC"
    BY <1>2, <1>3, <1>4 DEF MTypes
  <1> QED BY <1>1, <1>2, <1>5, <1>6 DEF MTypes

(* The sibling reads its doorbell 0 only when it was told something.       *)
LEMMA SiblingTold ==
    ASSUME TypeInv, Kept, Replies, SiblingDb0
    PROVE  db0["sib"].msg \notin Unsent
  <1>1. S1[1] = "SiblingDb0"
    BY HeadsAt DEF SiblingDb0, Running
  <1>2. Q1[1] \in AnswerKinds /\ Q1[2] = "IN0"
    BY <1>1 DEF Kept, Lines, W5, Unanswered, Awaits
  <1>3. Q1 # End /\ Q1 \in RQ
    BY <1>2, Heads DEF AnswerKinds
  <1>4. QNext(Q1, Q2, Q3)
    BY <1>3, HeadForms DEF Kept
  <1>5. In0(Q1)
    BY <1>2, <1>4 DEF QNext, QThen, AnswerKinds, In0
  <1> QED BY <1>3, <1>5 DEF Replies, R1, Owed, GPart, R4

LEMMA SibFollows ==
    ASSUME TypeInv, Kept, Replies, Follow
    PROVE  Beside /\ panic' = panic
  <1>1. CASE PowerOn \/ Spin \/ CheckIn0
    <2>1. /\ \E s : Then("sib", s)
          /\ eisr' = eisr \/ \E f : eisr' = [eisr EXCEPT !["sib"] = f]
          /\ UNCHANGED <<flags, db0, db3, type4, mode, registered, alive, panic>>
      BY <1>1 DEF PowerOn, Spin, CheckIn0, Continue, irqVars, doorbellVars, cmeVars, sysVars,
         pgpeVars
    <2> QED BY <2>1, SibBeside
  <1>2. CASE Receive
    <2>1. /\ \E s : Then("sib", s)
          /\ eisr' = Raising("qm", "ACK", eisr)
          /\ UNCHANGED <<flags, db0, db3, type4, mode, registered, alive, panic>>
      BY <1>2, RightMessage DEF Receive, doorbellVars, pgpeVars
    <2>2. "ACK" \in Bits \ {"DB0", "DB3"}
      BY DEF Bits
    <2> QED BY <2>1, <2>2, SibBeside
  <1>3. CASE SiblingDb0
    <2>1. db0["sib"].msg \notin {"NONE", "REGISTER_DONE"}
      BY <1>3, SiblingTold DEF Unsent
    <2>2. /\ \E s : Then("sib", s)
          /\ \E f : eisr' = [eisr EXCEPT !["sib"] = f]
          /\ UNCHANGED <<db0, db3, type4, mode, registered, alive, panic>>
          /\ flags' = flags \/ \E f : flags' = [flags EXCEPT !["sib"] = f]
      BY <1>3, <2>1 DEF SiblingDb0, Continue, Clearing, doorbellVars, pgpeVars
    <2> QED BY <2>2, SibBeside
  <1> QED BY <1>1, <1>2, <1>3 DEF Follow

LEMMA BesideReplies ==
    ASSUME Replies, Beside
    PROVE  Replies'
  BY AsideReplies DEF Beside

-----------------------------------------------------------------------------
(* The quad manager goes on with what it has to do.                        *)
LEMMA StopsPop ==
    ASSUME TypeInv, Kept, Replies, NEW k, At("qm", k), Continue("qm"),
           (Enabled' => Enabled /\ k # "Db0Stop") \/ <<"SendAck", "suspended">> \notin RQ'
    PROVE  R2'
  <1>1. QPops /\ Q1[1] = k
    BY QContinues DEF Kept
  <1>2. /\ todo["qm"] \in Seq(Steps) /\ todo["qm"] # <<>> /\ todo'["qm"] = Tail(todo["qm"])
    <2>1. TodoType /\ QForm(todo["qm"])
      BY DEF TypeInv, Kept, Forms
    <2>2. "qm" \in Processes /\ TRUE \in BOOLEAN
      BY CmesAre
    <2>3. todo'["qm"] = Tail(todo["qm"])
      BY <2>1, <2>2, ContinueSteps DEF QForm
    <2>4. todo["qm"] # <<>> /\ todo["qm"] \in Seq(Steps)
      BY <2>1, <2>2, CurrentStep
    <2> QED BY <2>3, <2>4
  <1>3. \A i \in Nat \ {0} : Item(todo'["qm"], i) = Item(todo["qm"], i + 1)
    BY <1>2, TailItems
  <1>4. \A i \in Nat \ {0} : Item(todo'["qm"], i)[1] # "Db0Stop"
    <2>1. \A i \in Nat \ {0} : i + 1 \in Nat \ {0, 1}
      OBVIOUS
    <2>2. \A i \in Nat \ {0, 1} : Item(todo["qm"], i)[1] # "Db0Stop"
      BY DEF Replies, R2
    <2> QED BY <1>3, <2>1, <2>2
  <1>5. Q1'[1] # "Db0Stop"
    BY <1>4 DEF Q1
  <1>6. <<"SendAck", "suspended">> \in RQ' /\ Enabled' => FALSE
    BY <1>1 DEF QPops, Replies, R2
  <1>7. \A i \in Nat \ {0, 1} : Item(todo'["qm"], i)[1] # "Db0Stop"
    BY <1>4
  <1> QED BY <1>5, <1>6, <1>7 DEF R2

LEMMA PopReplies ==
    ASSUME TypeInv, Kept, Replies, NEW k, At("qm", k), Continue("qm"),
           k \notin AckKinds \union {"Register", "RegisterDb0", "AwaitDb0", "Db0Stop"},
           UNCHANGED <<db0, db3, type4, mode, registered, alive>>, Enabled' <=> Enabled,
           \A b \in {"DB0", "DB3"} : b \in eisr'["qm"] => b \in eisr["qm"],
           k = "ClearDb0" => "DB0" \notin eisr'["qm"]
    PROVE  Replies'
  <1>1. QPops /\ Q1[1] = k /\ GSame
    BY QContinues DEF Kept
  <1>2. R2'
    BY StopsPop
  <1>3. /\ AckDue' <=> AckDue
        /\ HasReg' <=> HasReg
        /\ RegDue' <=> RegDue
        /\ Q1'[1] # "RegisterDb0"
    BY <1>1, PopIsQuiet
  <1>4. GStill
    BY <1>1 DEF GStill
  <1>5. \A y \in RQ' : y \in RQ
    BY <1>1 DEF QPops
  <1>6. ~RegHead' /\ (Db0Due' => Db0Due) /\ (Db3Due' => Db3Due)
    BY <1>3 DEF RegHead, Db0Due, Db3Due, Msg0
  <1> QED BY <1>2, <1>3, <1>4, <1>5, <1>6, StillOwes

LEMMA QmHandles ==
    ASSUME TypeInv, Kept, Replies,
           \/ RaiseSignal("qm") \/ AwaitAnswer("qm") \/ AwaitSignal("qm") \/ Answer("qm")
           \/ ClearBit("qm") \/ StoreField("qm") \/ UpdatePmsr("qm") \/ SuspendPstates("qm")
           \/ Ready("qm") \/ FinishDb3("qm")
    PROVE  Replies' /\ panic' = panic
  <1> DEFINE Pop(k) == At("qm", k) /\ Continue("qm")
             Same == UNCHANGED <<db0, db3, type4, mode, registered, alive, panic>>
             Left == eisr'["qm"] \subseteq eisr["qm"]
             Easy == {"Raise", "AwaitAnswer", "AwaitAnswerOrRetry", "Store", "Pmsr",
                      "Suspended", "Ready", "EndDb3"}
  <1>1. CASE AwaitSignal("qm") \/ Answer("qm") \/ ClearBit("qm")
    <2>1. \E k \in {"AwaitSignal", "Answer", "ClearBit"} : At("qm", k)
      BY <1>1 DEF AwaitSignal, Answer, ClearBit, Running
    <2>2. \E k \in {"AwaitSignal", "Answer", "ClearBit"} : k \in QmKinds
      BY <2>1, Separate DEF Kept
    <2> QED BY <2>2 DEF QmKinds
  <1>2. CASE RaiseSignal("qm")
    <2>1. Argument("qm") \in Signals
      BY <1>2, CmesAre, CurrentStep, Arguments DEF RaiseSignal, Running, SignalKinds, TypeInv
    <2>2. Argument("qm") \in Bits
      BY <2>1 DEF Bits
    <2>3. eisr' = Raising("sib", Argument("qm"), eisr)
      BY <1>2 DEF RaiseSignal, Other
    <2>4. Left
      BY <2>2, <2>3, BitViews
    <2>5. Pop("Raise") /\ Same /\ UNCHANGED flags
      BY <1>2 DEF RaiseSignal, Running, doorbellVars, cmeVars, sysVars, pgpeVars
    <2> QED BY <2>4, <2>5, PopReplies DEF AckKinds, Enabled
  <1>3. CASE AwaitAnswer("qm")
    <2>1. PICK k \in {"AwaitAnswer", "AwaitAnswerOrRetry"} : Pop(k)
      BY <1>3 DEF AwaitAnswer, Running
    <2>2. Left /\ Same /\ UNCHANGED flags
      BY <1>3 DEF AwaitAnswer, Clearing, doorbellVars, cmeVars, sysVars, pgpeVars, TypeInv,
         IrqType, Cmes
    <2> QED BY <2>1, <2>2, PopReplies DEF AckKinds, Enabled
  <1>4. CASE StoreField("qm") \/ UpdatePmsr("qm")
    <2>1. PICK k \in {"Store", "Pmsr"} : Pop(k)
      BY <1>4 DEF StoreField, UpdatePmsr, Running
    <2>2. Left /\ Same /\ UNCHANGED flags
      BY <1>4 DEF StoreField, UpdatePmsr, irqVars, doorbellVars, sysVars, pgpeVars
    <2> QED BY <2>1, <2>2, PopReplies DEF AckKinds, Enabled
  <1>5. CASE SuspendPstates("qm") \/ Ready("qm") \/ FinishDb3("qm")
    <2>1. PICK k \in {"Suspended", "Ready", "EndDb3"} : Pop(k)
      BY <1>5 DEF SuspendPstates, Ready, FinishDb3, Running
    <2>2. Left /\ Same
      BY <1>5 DEF SuspendPstates, Ready, FinishDb3, irqVars, doorbellVars, sysVars, pgpeVars
    <2>3. Enabled' <=> Enabled
      <3>1. CASE SuspendPstates("qm")
        <4>1. Argument("qm") \in {"set", "clear"}
          BY <3>1, CmesAre, CurrentStep, Arguments DEF SuspendPstates, Running, TypeInv
        <4>2. flags'["qm"] = SuspendedFlag(Argument("qm"), flags["qm"])
          BY <3>1 DEF SuspendPstates, TypeInv, CmeType, Cmes
        <4> QED BY <4>1, <4>2 DEF Enabled, SuspendedFlag
      <3>2. CASE Ready("qm") \/ FinishDb3("qm")
        BY <3>2 DEF Ready, FinishDb3, TypeInv, CmeType, Cmes, Enabled
      <3> QED BY <1>5, <3>1, <3>2
    <2> QED BY <2>1, <2>2, <2>3, PopReplies DEF AckKinds
  <1> QED BY <1>1, <1>2, <1>3, <1>4, <1>5

LEMMA QmManages ==
    ASSUME TypeInv, Kept, Replies,
           Send \/ AwaitMsgAck \/ ClearDb0 \/ UpdateAnalog \/ Registered \/ FinishDb0
    PROVE  Replies' /\ panic' = panic
  <1> DEFINE Pop(k) == At("qm", k) /\ Continue("qm")
             Same == UNCHANGED <<db0, db3, type4, mode, registered, alive, panic>>
             Left == eisr'["qm"] \subseteq eisr["qm"]
  <1>1. CASE Send
    <2>1. Left
      BY <1>1, BitViews DEF Send, Bits
    <2>2. Pop("Send") /\ Same /\ UNCHANGED flags
      BY <1>1 DEF Send, Running, cmeVars, sysVars, pgpeVars
    <2> QED BY <2>1, <2>2, PopReplies DEF AckKinds, Enabled
  <1>2. CASE AwaitMsgAck
    <2>1. Left
      BY <1>2, BitViews DEF AwaitMsgAck, Bits
    <2>2. Pop("AwaitMsgAck") /\ Same /\ UNCHANGED flags
      BY <1>2 DEF AwaitMsgAck, Running, doorbellVars, cmeVars, sysVars, pgpeVars
    <2> QED BY <2>1, <2>2, PopReplies DEF AckKinds, Enabled
  <1>3. CASE ClearDb0
    <2>1. eisr'["qm"] = eisr["qm"] \ {"DB0"}
      BY <1>3, BitViews DEF ClearDb0, Bits
    <2>2. Pop("ClearDb0") /\ Same /\ UNCHANGED flags
      BY <1>3 DEF ClearDb0, Running, doorbellVars, sysVars, pgpeVars
    <2> QED BY <2>1, <2>2, PopReplies DEF AckKinds, Enabled
  <1>4. CASE UpdateAnalog \/ Registered
    <2>1. PICK k \in {"UpdateAnalog", "Registered"} : Pop(k)
      BY <1>4 DEF UpdateAnalog, Registered, Running
    <2>2. Left /\ Same
      BY <1>4 DEF UpdateAnalog, Registered, irqVars, doorbellVars, sysVars, pgpeVars
    <2>3. Enabled' <=> Enabled
      BY <1>4 DEF UpdateAnalog, Registered, TypeInv, CmeType, Cmes, Enabled
    <2> QED BY <2>1, <2>2, <2>3, PopReplies DEF AckKinds
  <1>5. CASE FinishDb0
    BY <1>5, PopReplies DEF FinishDb0, Running, doorbellVars, cmeVars, sysVars,
       pgpeVars, AckKinds, Enabled
  <1> QED BY <1>1, <1>2, <1>3, <1>4, <1>5

LEMMA KindsOf == \A e : <<"SendAck", e>>[1] = "SendAck" /\ <<"SendAck", e>>[2] = e
  OBVIOUS

LEMMA QmForm ==
    ASSUME TypeInv, Kept
    PROVE  todo["qm"] \in Seq(Steps) /\ QForm(todo["qm"]) /\ RQ = StepsOf(todo["qm"])
  BY DEF TypeInv, TodoType, Processes, Kept, Forms, RQ

(* What comes after the step at its head.                                  *)
LEMMA StopsLeft ==
    ASSUME TypeInv, Replies, NEW k, At("qm", k), NEW R, R = Tail(todo["qm"])
    PROVE  \A y \in StepsOf(R) : y[1] # "Db0Stop"
  <1>1. todo["qm"] \in Seq(Steps) /\ todo["qm"] # <<>>
    BY DEF TypeInv, TodoType, Processes, At
  <1>2. R \in Seq(Steps) /\ \A i \in Nat \ {0} : Item(R, i) = Item(todo["qm"], i + 1)
    BY <1>1, TailItems
  <1>3. \A i \in Nat \ {0} : i + 1 \in Nat \ {0, 1}
    OBVIOUS
  <1>4. \A i \in Nat \ {0} : Item(R, i)[1] # "Db0Stop"
    BY <1>2, <1>3 DEF Replies, R2
  <1> QED BY <1>2, <1>4, StopItems

LEMMA NoStops ==
    ASSUME TypeInv', \A y \in RQ' : y[1] # "Db0Stop",
           ~Enabled' \/ <<"SendAck", "suspended">> \notin RQ'
    PROVE  R2'
  <1>1. todo'["qm"] \in Seq(Steps) /\ RQ' = StepsOf(todo'["qm"])
    BY DEF TypeInv, TodoType, Processes, RQ
  <1>2. \A i \in Nat \ {0} : Item(todo'["qm"], i)[1] # "Db0Stop"
    BY <1>1, StopItems
  <1>3. Q1'[1] # "Db0Stop"
    BY <1>2 DEF Q1
  <1>4. \A i \in Nat \ {0, 1} : Item(todo'["qm"], i)[1] # "Db0Stop"
    BY <1>2
  <1> QED BY <1>3, <1>4 DEF R2

LEMMA RepliesAwaitDb0 ==
    ASSUME TypeInv, TypeInv', Kept, Kept', Replies, AwaitDb0
    PROVE  Replies' /\ panic' = panic
  <1>1. At("qm", "AwaitDb0") /\ Continue("qm")
    BY DEF AwaitDb0, Running
  <1>2. /\ QPops /\ SSame /\ GSame /\ Q1 \in Steps /\ Q1[1] = "AwaitDb0"
    BY <1>1, QContinues DEF Kept
  <1>3. "DB0" \in eisr["qm"] /\ eisr'["qm"] = eisr["qm"] \ {"DB0"}
    BY BitViews DEF AwaitDb0, Bits
  <1>4. UNCHANGED <<type4, db0, db3, registered, alive, mode, flags, panic>>
    BY DEF AwaitDb0, doorbellVars, cmeVars, sysVars, pgpeVars
  <1>5. GStill
    BY <1>2, <1>4 DEF GStill, Enabled
  <1>6. R2'
    BY <1>1, <1>4, StopsPop DEF Enabled
  <1>7. Q1'[1] = "RegisterDb0" /\ RQ = {Q1} \union RQ' /\ ~HasReg
    <2>1. Q1'[1] = "RegisterDb0" /\ RQ = {Q1} \union RQ' /\ \A y \in RQ' : QAfter(Q1, y)
      BY <1>2 DEF QPops, QNext, QThen
    <2>2. \A x : <<"Register", x>> \notin RQ' /\ <<"Register", x>> # Q1
      BY <1>2, <2>1 DEF QAfter, Prelude
    <2> QED BY <2>1, <2>2 DEF HasReg
  <1>8. \A y \in RQ' : y[1] \notin AckKinds
    <2>1. todo'["qm"] \in Seq(Steps) /\ QForm(todo'["qm"]) /\ RQ' = StepsOf(todo'["qm"])
          /\ Q1' = Item(todo'["qm"], 1)
      BY QmForm DEF TypeInv, TodoType, Processes, Kept, Forms, RQ, Q1
    <2>2. todo'["qm"] # <<>>
      BY <1>7, <2>1, ItemsOf, NoEnd
    <2>3. /\ \A y \in StepsOf(Tail(todo'["qm"])) : After("qm", Q1', y)
          /\ RQ' = {Q1'} \union StepsOf(Tail(todo'["qm"]))
      BY <2>1, <2>2, FormTail, TailItems, CmesAre DEF QForm
    <2>4. \A y \in StepsOf(Tail(todo'["qm"])) : Finale(y)
      BY <1>7, <2>3 DEF After, QAfter
    <2> QED BY <1>7, <2>3, <2>4 DEF Finale, AckKinds
  <1>9. ~AckDue
    BY <1>2, <1>7, <1>8 DEF AckDue, AckKinds
  <1>10. RegHead' => Db0Due
    BY <1>3, <1>4, <1>7 DEF RegHead, Db0Due, Msg0
  <1>11. ~Db0Due' /\ (Db3Due' => Db3Due)
    BY <1>3, <1>4 DEF Db0Due, Db3Due
  <1> QED BY <1>4, <1>5, <1>6, <1>7, <1>9, <1>10, <1>11, StillOwes

(* No PGPE: nothing is owed.                                               *)
LEMMA NoPgpe ==
    /\ Exchange /\ ~alive => ~Due /\ G1 = End
    /\ Exchange' /\ ~alive' => ~Due' /\ G1' = End
  BY NoEnd DEF Exchange, E1, E14, Awaiting, Half, HalfM, Writes3

LEMMA RepliesToFsafe ==
    ASSUME TypeInv, TypeInv', Kept, Kept', Replies, ToFsafe("qm")
    PROVE  Replies' /\ panic' = panic
  <1>1. At("qm", "ToFsafe") /\ Continue("qm")
    BY DEF ToFsafe, Running
  <1>2. /\ QPops /\ GSame /\ Q1[1] = "ToFsafe" /\ Q1 \in Steps /\ Q1 \in RQ
    BY <1>1, QContinues DEF Kept, QPops
  <1>3. /\ UNCHANGED <<type4, db0, db3, registered, alive, mode, panic>>
        /\ ~Enabled'
    BY DEF ToFsafe, doorbellVars, sysVars, pgpeVars, TypeInv, CmeType, Cmes, Enabled
  <1>4. ~alive
    BY <1>2 DEF Replies, R1, Owed
  <1>5. ~Due' /\ G1 = End /\ ~alive'
    BY <1>3, <1>4, NoPgpe DEF Kept
  <1>6. R2'
    BY <1>1, <1>3, StopsPop
  <1>7. G1' = G1 /\ Msg0' = Msg0 /\ db0' = db0 /\ type4' = type4
    BY <1>2, <1>3, SamesViews DEF Msg0
  <1>8. PForm(todo["pgpe"])'
    BY <1>2 DEF Replies, GPart, GSame
  <1>9. G1[1] = "none"
    BY <1>5, NoEnd
  <1>10. R3' /\ R4' /\ R5'
    <2>1. R3'
      BY <1>3, <1>7, <1>9 DEF Replies, GPart, R3, Expect
    <2>2. R4'
      BY <1>3, <1>7, <1>9 DEF Replies, GPart, R4, WritesQm, Writes0
    <2> QED BY <1>5, <2>1, <2>2 DEF R5
  <1> QED BY <1>3, <1>5, <1>6, <1>8, <1>10, NothingDue DEF GPart, Kept

LEMMA RepliesNotify ==
    ASSUME TypeInv, TypeInv', Kept, Kept', Replies, NotifySibling
    PROVE  Replies' /\ panic' = panic
  <1>1. PICK i \in {"IN0", "IN1"} : At("qm", "NotifySibling") /\ Then("qm", Notify(i))
    BY DEF NotifySibling, Running
  <1>2. Notify(i) \in Seq(Steps)
    BY PlainSteps DEF Signals
  <1>3. PICK R \in Seq(Steps) :
               /\ todo'["qm"] = Notify(i) \o R /\ R = Tail(todo["qm"])
               /\ QForm(R) /\ Item(R, 1) = Q2 /\ Item(R, 2) = Q3
               /\ RQ = {Q1} \union StepsOf(R)
               /\ QNext(Q1, Q2, Q3) /\ \A y \in StepsOf(R) : QAfter(Q1, y)
               /\ SSame /\ GSame
               /\ Q1 \in Steps /\ Q1[1] = "NotifySibling"
    BY <1>1, <1>2, QThens DEF Kept
  <1>4. Item(R, 1)[1] \in AckKinds \ {"ReadDb0"}
    BY <1>3 DEF QNext, QThen, QWhence
  <1>5. \A y \in StepsOf(R) : y[1] # "Register" /\ ~(y[1] = "Send" /\ y[2] = "INIT")
    BY <1>3 DEF QAfter, Prelude
  <1>6. PICK t \in Seq(Steps) : Notified(i, R, t)
    <2>1. R \in Seq(Steps) /\ QForm(R)
      BY <1>3
    <2>2. i \in {"IN0", "IN1"}
      BY <1>1
    <2> QED BY <1>4, <1>5, <2>1, <2>2, NotifyForm
  <1>7. /\ Q1'[1] = "Raise"
        /\ \A y \in RQ' :
                  y \in StepsOf(R) \/ (y[1] \in {"Raise", "AwaitAnswer"} /\ y[2] = i)
        /\ StepsOf(R) \subseteq RQ'
    BY <1>3, <1>6 DEF Notified, Q1, RQ
  <1>8. UNCHANGED <<eisr, type4, db0, db3, registered, alive, mode, flags, panic>>
    BY DEF NotifySibling, irqVars, doorbellVars, cmeVars, sysVars, pgpeVars
  <1>9. \A y : y[1] \notin {"Raise", "AwaitAnswer", "NotifySibling"} =>
               (y \in RQ' <=> y \in RQ)
    BY <1>3, <1>7
  <1>10. \A k, v : k \notin {"Raise", "AwaitAnswer", "NotifySibling"} =>
               (<<k, v>> \in RQ' <=> <<k, v>> \in RQ)
    BY <1>9
  <1>11. (HasReg' <=> HasReg) /\ (RegDue' <=> RegDue)
    BY <1>10 DEF HasReg, RegDue, RegLeft
  <1>12. AckDue' <=> AckDue
    BY <1>9 DEF AckDue, AckKinds
  <1>13. Msg0 \notin Unsent
    BY <1>3 DEF In0, Replies, R1, Owed
  <1>14. \A y \in RQ' : y \in RQ \/ Owed(y)
    BY <1>3, <1>7, <1>13 DEF Owed
  <1>15. R2'
    <2>1. \A y \in RQ' : y[1] # "Db0Stop"
      BY <1>1, <1>3, <1>7, StopsLeft
    <2>2. ~Enabled' \/ <<"SendAck", "suspended">> \notin RQ'
      BY <1>3, <1>8, <1>10 DEF Replies, R2, Enabled
    <2> QED BY <2>1, <2>2, NoStops
  <1>16. GStill
    BY <1>3, <1>8 DEF GStill, Enabled
  <1>17. ~RegHead' /\ (Db0Due' => Db0Due) /\ (Db3Due' => Db3Due)
    BY <1>7, <1>8, <1>11 DEF RegHead, Db0Due, Db3Due, Msg0
  <1> QED BY <1>8, <1>12, <1>14, <1>15, <1>16, <1>17, StillOwes

(* Its answers: it owed them.                                              *)
LEMMA AnswerReplies ==
    ASSUME TypeInv, TypeInv', Kept, Kept', Replies, NEW k \in AckKinds \ {"ReadDb0"},
           At("qm", k), Continue("qm"), UNCHANGED <<db0, db3, mode, registered, alive>>,
           type4' \notin {"none", "available"}, R3',
           Enabled \/ Starting => Enabled' \/ Starting',
           Enabled' => Enabled \/ (Msg0 = "START" /\ k = "Db0Started")
    PROVE  Replies'
  <1>1. QPops /\ GSame /\ Q1 \in Steps /\ Q1[1] = k /\ Q1 \in RQ
    BY QContinues DEF Kept, QPops
  <1>2. AckDue
    BY <1>1 DEF AckDue
  <1>3. ~Unanswered("IN2") /\ ~Is(Q1, "Raise", "IN2")
    BY <1>1 DEF Unanswered, Awaits, AnswerKinds, Is, AckKinds
  <1>4. registered /\ Awaiting /\ ~Half
    BY <1>2, <1>3, AnswerAwaited DEF Kept
  <1>5. ~Due'
    BY DEF Kept, Exchange, E2
  <1>6. G1' = G1 /\ G2' = G2 /\ G3' = G3 /\ RG' = RG /\ Msg0' = Msg0
    BY <1>1, SamesViews DEF RG, GSame, Msg0
  <1>7. G1[1] = "AwaitAck"
    BY <1>4 DEF Awaiting
  <1>8. PForm(todo["pgpe"])'
    BY <1>1 DEF Replies, GPart, GSame
  <1>9. R4'
    BY <1>6, <1>7 DEF Replies, GPart, R4, WritesQm, Writes0, Unsent
  <1>10. R5'
    <2>1. SUFFICES ASSUME alive, registered PROVE R5'
      BY DEF R5
    <2>2. R5 /\ G1 # End /\ G1[1] \notin {"Become", "Write0", "none"}
      BY <1>7, NoEnd DEF Replies, GPart
    <2>3. /\ mode # "stopped" \/ Becoming("active") \in RG =>
                 Enabled \/ Starting \/ Becoming("stopped") \in RG
          /\ mode = "stopped" /\ Becoming("active") \notin RG =>
                ~Enabled /\ Expect(G1, "ok") /\ Msg0 = "REGISTER_DONE" /\ G2 = End
                /\ ~G1[2].nacked
          /\ Becoming("active") \in RG => mode = "stopped"
          /\ Becoming("safe") \in RG \/ Becoming("stopped") \in RG => mode = "active"
          /\ Becoming("stopped") \in RG => Expect(G1, "suspended")
      BY <1>7, <2>1, <2>2 DEF R5, Writes0, Becoming
    <2>4. mode' = mode
      OBVIOUS
    <2>5. /\ mode' # "stopped" \/ Becoming("active") \in RG' =>
                 Enabled' \/ Starting' \/ Becoming("stopped") \in RG'
          /\ mode' = "stopped" /\ Becoming("active") \notin RG' =>
                ~Enabled' /\ Expect(G1', "ok") /\ Msg0' = "REGISTER_DONE" /\ G2' = End
                /\ ~G1'[2].nacked
      BY <1>6, <2>3, <2>4
    <2>6. ~Writes0(G1', "START") /\ ~Writes0(G1', "STOP")
      BY <1>6, <1>7 DEF Writes0
    <2> QED BY <1>6, <2>3, <2>4, <2>5, <2>6 DEF R5
  <1>11. R2'
    <2>1. k = "Db0Started" => <<"SendAck", "suspended">> \notin RQ'
      <3>1. ASSUME k = "Db0Started", <<"SendAck", "suspended">> \in RQ PROVE FALSE
        BY <1>1, <3>1, QmForm, OneAck, KindsOf DEF AckKinds
      <3> QED BY <1>1, <3>1 DEF QPops
    <2>2. (Enabled' => Enabled /\ k # "Db0Stop") \/ <<"SendAck", "suspended">> \notin RQ'
      BY <2>1 DEF AckKinds
    <2> QED BY <2>2, StopsPop
  <1>12. \A y \in RQ' : y[1] = "ToFsafe" => ~alive'
    BY <1>1 DEF QPops, Replies, R1, Owed
  <1> QED BY <1>5, <1>8, <1>9, <1>10, <1>11, <1>12, NothingDue DEF GPart, Kept

(* An answer that is owed is awaited.                                      *)
LEMMA AnswerExpected ==
    ASSUME TypeInv, Kept, Replies, NEW k \in (AckKinds \ {"ReadDb0"}) \union {"Db0Stop"},
           At("qm", k), AckDue
    PROVE  /\ registered /\ Awaiting /\ ~Db3Due
           /\ \A e : Expects(e) => Expect(G1, e)
           /\ Starting => ~Enabled /\ Msg0 = "START" /\ type4 = "none" /\ Repeats(G1)
  <1>1. Q1[1] = k
    BY HeadsAt
  <1>2. ~Unanswered("IN2") /\ ~Is(Q1, "Raise", "IN2")
    BY <1>1 DEF Unanswered, Awaits, AnswerKinds, Is, AckKinds
  <1>3. registered /\ Awaiting /\ ~Half /\ ~Db3Due
    BY <1>2, AnswerAwaited DEF Kept
  <1> QED BY <1>3 DEF Expects, Half, Starting, Awaiting, Writes0

LEMMA RepliesSendAck ==
    ASSUME TypeInv, TypeInv', Kept, Kept', Replies, SendAckToPgpe
    PROVE  Replies' /\ panic' = panic
  <1>1. At("qm", "SendAck") /\ Continue("qm")
    BY DEF SendAckToPgpe, Running
  <1>2. /\ QPops /\ GSame /\ Q1 \in Steps /\ Q1[1] = "SendAck" /\ Q1 \in RQ
        /\ Q1 = <<"SendAck", Argument("qm")>> /\ Q1[2] = Argument("qm")
    BY <1>1, QContinues DEF Kept, QPops
  <1>3. UNCHANGED <<db0, db3, mode, registered, alive, flags, panic>> /\ type4' = Q1[2]
    BY <1>2 DEF SendAckToPgpe, cmeVars, sysVars, pgpeVars
  <1>4. type4' \in Acks
    BY <1>2, <1>3, Arguments
  <1>5. Expects(Q1[2]) /\ ~Starting
    BY <1>2 DEF Replies, R1, Owed
  <1>6. AckDue
    BY <1>2 DEF AckDue, AckKinds
  <1>7. Expect(G1, Q1[2])
    BY <1>1, <1>5, <1>6, AnswerExpected DEF AckKinds
  <1>8. type4' = "suspended" => ~Enabled
    BY <1>2, <1>3 DEF Replies, R2
  <1>9. G1' = G1 /\ (Enabled' <=> Enabled)
    BY <1>2, <1>3, SamesViews DEF Enabled
  <1>10. R3'
    BY <1>3, <1>4, <1>7, <1>8, <1>9 DEF R3, Acks
  <1> QED BY <1>1, <1>3, <1>4, <1>5, <1>9, <1>10, AnswerReplies DEF AckKinds, Acks

LEMMA RepliesAckUpdate ==
    ASSUME TypeInv, TypeInv', Kept, Kept', Replies, AckUpdate
    PROVE  Replies' /\ panic' = panic
  <1>1. At("qm", "AckUpdate") /\ Continue("qm")
    BY DEF AckUpdate, Running
  <1>2. /\ QPops /\ GSame /\ Q1 \in Steps /\ Q1[1] = "AckUpdate" /\ Q1 \in RQ
    BY <1>1, QContinues DEF Kept, QPops
  <1>3. /\ UNCHANGED <<db0, db3, mode, registered, alive, flags, panic>>
        /\ type4' \in {"ok", "nack"}
    BY <1>2 DEF AckUpdate, cmeVars, sysVars, pgpeVars, UpdateAck
  <1>5. Expects("ok") /\ Msg0 \in {"GLB", "PAYLOAD"}
    BY <1>2 DEF Replies, R1, Owed
  <1>6. AckDue
    BY <1>2 DEF AckDue, AckKinds
  <1>7. Expect(G1, "ok") /\ ~Starting
    BY <1>1, <1>5, <1>6, AnswerExpected DEF AckKinds
  <1>9. G1' = G1 /\ (Enabled' <=> Enabled) /\ Msg0' = Msg0
    BY <1>2, <1>3, SamesViews DEF Enabled, Msg0
  <1>10. R3'
    BY <1>3, <1>5, <1>7, <1>9 DEF R3, Updating
  <1> QED BY <1>1, <1>3, <1>7, <1>9, <1>10, AnswerReplies DEF AckKinds

LEMMA RepliesDb0Started ==
    ASSUME TypeInv, TypeInv', Kept, Kept', Replies, Db0Started
    PROVE  Replies' /\ panic' = panic
  <1>1. At("qm", "Db0Started") /\ Continue("qm")
    BY DEF Db0Started, Running
  <1>2. /\ QPops /\ GSame /\ Q1 \in Steps /\ Q1[1] = "Db0Started" /\ Q1 \in RQ
    BY <1>1, QContinues DEF Kept, QPops
  <1>3. /\ UNCHANGED <<db0, db3, mode, registered, alive, panic>>
        /\ \/ type4' = "nack" /\ (Enabled' <=> Enabled)
           \/ type4' = "ok" /\ Enabled'
    BY <1>2 DEF Db0Started, cmeVars, sysVars, pgpeVars, UpdateAck, Enabled, TypeInv, CmeType,
       Cmes
  <1>5. Expects("ok") /\ Msg0 = "START" /\ Starting
    BY <1>2 DEF Replies, R1, Owed
  <1>6. AckDue
    BY <1>2 DEF AckDue, AckKinds
  <1>7. Expect(G1, "ok") /\ ~Enabled /\ Repeats(G1)
    BY <1>1, <1>5, <1>6, AnswerExpected DEF AckKinds
  <1>9. G1' = G1 /\ Msg0' = Msg0
    BY <1>2, <1>3, SamesViews DEF Msg0
  <1>10. type4' = "nack" => Starting'
    BY <1>3, <1>5, <1>7, <1>9 DEF Starting
  <1>11. R3'
    BY <1>3, <1>5, <1>7, <1>9, <1>10 DEF R3, Updating
  <1> QED BY <1>1, <1>3, <1>5, <1>10, <1>11, AnswerReplies DEF AckKinds

LEMMA PgpeHeads ==
    ASSUME TypeInv
    PROVE  /\ todo["pgpe"] \in Seq(Steps) /\ RG \subseteq Steps
           /\ G1 # End => /\ G1 \in RG /\ todo["pgpe"] # <<>>
                          /\ PForm(todo["pgpe"]) => PNext(G1, G2, G3)
           /\ G2 # End => G2 \in RG
           /\ G3 # End => G3 \in RG
           /\ G1 = End => todo["pgpe"] = <<>> /\ RG = {} /\ G2 = End /\ G3 = End
  <1>1. todo["pgpe"] \in Seq(Steps)
    BY DEF TypeInv, TodoType, Processes
  <1>2. /\ RG \subseteq Steps
        /\ G2 # End => G2 \in RG
        /\ G3 # End => G3 \in RG
        /\ G1 # End => G1 \in RG /\ todo["pgpe"] # <<>>
        /\ G1 = End => todo["pgpe"] = <<>>
    BY <1>1, ItemsOf DEF RG, G1, G2, G3
  <1>3. ASSUME G1 # End, PForm(todo["pgpe"]) PROVE PNext(G1, G2, G3)
    BY <1>1, <1>2, <1>3, PTail DEF G1, G2, G3
  <1>4. ASSUME todo["pgpe"] = <<>> PROVE RG = {} /\ G2 = End /\ G3 = End
    BY <1>4, EmptyItems DEF RG, G2, G3
  <1> QED BY <1>1, <1>2, <1>3, <1>4

LEMMA RepliesDb0Stop ==
    ASSUME TypeInv, TypeInv', Kept, Kept', Replies, Db0StopFlags
    PROVE  Replies' /\ panic' = panic
  <1>1. At("qm", "Db0Stop") /\ Continue("qm")
    BY DEF Db0StopFlags, Running
  <1>2. /\ QPops /\ GSame /\ Q1 \in Steps /\ Q1[1] = "Db0Stop" /\ Q1 \in RQ
        /\ Q1'[1] # "RegisterDb0" /\ RQ' \subseteq RQ
    BY <1>1, QContinues DEF Kept, QPops, QNext, QWhence
  <1>3. /\ UNCHANGED <<db0, db3, type4, mode, registered, alive, eisr, panic>>
        /\ ~Enabled'
    BY DEF Db0StopFlags, doorbellVars, sysVars, pgpeVars, Enabled, TypeInv, CmeType, Cmes
  <1>4. <<"SendAck", "suspended">> \in RQ
    BY <1>2 DEF Replies, R2
  <1>5. Expects("suspended") /\ AckDue
    BY <1>4, KindsOf DEF Replies, R1, Owed, AckDue, AckKinds
  <1>6. registered /\ Awaiting /\ ~Db3Due /\ Expect(G1, "suspended")
    BY <1>1, <1>5, AnswerExpected
  <1>7. G1[1] = "AwaitAck" /\ type4 = "none" /\ ~Repeats(G1)
    BY <1>6 DEF Awaiting, Expect, Repeats
  <1>8. Becoming("stopped") \in RG
    <2>1. G1 # End
      BY <1>7, NoEnd
    <2>2. G2 = Becoming("stopped") /\ G2 # End
      BY <1>6, <1>7, <2>1, PgpeHeads, NoEnd
      DEF Replies, GPart, PNext, PFirst, Becoming, Expect, End
    <2> QED BY <2>2, PgpeHeads
  <1>9. /\ G1' = G1 /\ G2' = G2 /\ G3' = G3 /\ RG' = RG /\ Msg0' = Msg0
        /\ PForm(todo["pgpe"])'
    BY <1>2, <1>3, SamesViews DEF RG, GSame, Msg0, Replies, GPart
  <1>10. ~Starting'
    BY <1>3, <1>7, <1>9 DEF Starting, Writes0
  <1>11. R3'
    BY <1>3, <1>7 DEF R3
  <1>12. R4'
    BY <1>3, <1>7, <1>9 DEF Replies, GPart, R4, WritesQm, Writes0
  <1>13. R5'
    <2>1. SUFFICES ASSUME alive, registered PROVE R5'
      BY <1>3 DEF R5
    <2>2. mode = "active" /\ Becoming("active") \notin RG
      BY <1>8, <2>1 DEF Replies, GPart, R5
    <2> QED BY <1>3, <1>6, <1>7, <1>8, <1>9, <2>2 DEF R5, Writes0
  <1>14. R2'
    BY <1>1, <1>3, StopsPop
  <1>15. R1'
    <2>1. \A e : Expect(G1, e) => Expects(e)'
      BY <1>9 DEF Expects
    <2>2. \A y \in RQ : y[1] \in AckKinds => y = <<"SendAck", "suspended">>
      BY <1>4, QmForm, OneAck, KindsOf DEF AckKinds
    <2>3. \A y \in RQ' : Owed(y)'
      <3>1. SUFFICES ASSUME NEW y \in RQ' PROVE Owed(y)'
        OBVIOUS
      <3>2. y \in RQ /\ Owed(y)
        BY <1>2 DEF Replies, R1
      <3>3. y[1] \in AckKinds => y[1] = "SendAck" /\ y[2] = "suspended"
        BY <2>2, <3>2, KindsOf
      <3>4. alive' = alive /\ Expects("suspended")'
        BY <1>3, <1>6, <2>1
      <3> QED BY <1>9, <1>10, <3>2, <3>3, <3>4 DEF Owed, AckKinds
    <2>4. ~RegHead' /\ AckDue' /\ ~Db3Due'
      <3>1. <<"SendAck", "suspended">> \in RQ'
        BY <1>2, <1>4, KindsOf DEF QPops
      <3>2. AckDue'
        BY <3>1, KindsOf DEF AckDue, AckKinds
      <3> QED BY <1>2, <1>3, <1>6, <3>2 DEF RegHead, Db3Due
    <2> QED BY <2>3, <2>4 DEF R1
  <1> QED BY <1>3, <1>9, <1>11, <1>12, <1>13, <1>14, <1>15 DEF Replies, GPart

-----------------------------------------------------------------------------
(* It registers, and reads its doorbell 0.                                 *)
LEMMA RepliesRegister ==
    ASSUME TypeInv, TypeInv', Kept, Kept', Replies, Register("qm")
    PROVE  Replies' /\ panic' = panic
  <1>1. At("qm", "Register")
    BY DEF Register, Running
  <1>2. PICK R \in Seq(Steps) :
           /\ R = Tail(todo["qm"]) /\ Finishes(R)
           /\ Q1 \in Steps /\ Q1[1] = "Register"
           /\ RQ = {Q1} \union StepsOf(R)
           /\ \A y \in StepsOf(R) : y[1] \in {"Send", "AwaitMsgAck", "Ready"}
    BY <1>1, RegisteringViews
  <1>3. PICK m \in {0, 3} : Then("qm", Registration(m))
    BY DEF Register
  <1>4. PICK t \in Seq(Steps) : Registers(m, R, t)
    <2>1. CASE m = 0
      BY <1>2, <2>1, RegisteredLast
    <2>2. CASE m = 3
      <3>1. 3 \in 1 .. 3
        OBVIOUS
      <3> QED BY <1>2, <2>2, <3>1, RegisterNext
    <2> QED BY <1>3, <2>1, <2>2
  <1>5. todo'["qm"] = t /\ GSame
    <2>1. Registration(m) \in Seq(Steps) /\ TodoType
      BY RegistrationScript DEF TypeInv
    <2>2. todo'["qm"] = Registration(m) \o Tail(todo["qm"]) /\ GSame
      BY <1>3, <2>1, ThenSteps, CmesAre DEF GSame, Processes
    <2> QED BY <1>2, <1>4, <2>2 DEF Registers
  <1>6. \A y \in RQ' : y[1] \notin {"ToFsafe", "Db0Stop"}
    BY <1>2, <1>4, <1>5 DEF Registers, RQ
  <1>7. HasReg
    <2>1. Q1 = <<"Register", "">>
      BY <1>2, StepIsPair, Blank DEF PlainKinds
    <2> QED BY <1>2, <2>1 DEF HasReg
  <1>8. /\ UNCHANGED <<db0, db3, mode, registered, alive, panic>> /\ type4' = "available"
        /\ Enabled' <=> Enabled
    BY DEF Register, sysVars, pgpeVars, Enabled, TypeInv, CmeType, Cmes
  <1>9. ~registered
    BY <1>7 DEF Kept, Exchange, E6
  <1>10. ~Due'
    BY <1>8, <1>9, NotDue DEF Kept
  <1>11. R2'
    BY <1>10, <1>6, KindsOf, NoStops DEF Due, AckDue, AckKinds
  <1>12. /\ G1' = G1 /\ G2' = G2 /\ Msg0' = Msg0 /\ PForm(todo["pgpe"])'
    BY <1>5, <1>8, SamesViews DEF GSame, Msg0, Replies, GPart
  <1>13. R4'
    <2>1. G1 = End \/ (G1[1] = "Write0" /\ G1[2][1] = Cmes)
      BY <1>9 DEF Kept, Exchange, E5
    <2>2. G1[1] \notin {"PollDroop", "Write3"} /\ ~(G1[1] = "Write0" /\ G1[2][1] = {"sib"})
      <3>1. Cmes # {"sib"}
        BY DEF Cmes
      <3> QED BY <2>1, <3>1, NoEnd
    <2> QED BY <1>8, <1>12, <2>2 DEF Replies, GPart, R4, WritesQm, Writes0
  <1>14. R3' /\ R5'
    BY <1>8, <1>9 DEF R3, R5
  <1> QED BY <1>6, <1>8, <1>10, <1>11, <1>12, <1>13, <1>14, NothingDue DEF GPart, Kept

(* Steps that are neither an answer nor stop Pstates.                      *)
Plain(y) == y[1] \notin AckKinds \union {"Db0Stop", "ToFsafe"}
Holds(s, e) == s \in Seq(Steps) /\ \A y \in StepsOf(s) : Plain(y) \/ y = e

LEMMA HoldsJoined ==
    ASSUME NEW e, NEW a, NEW b, Holds(a, e), Holds(b, e)
    PROVE  Holds(a \o b, e)
  BY StepsJoined, Joined DEF Holds

LEMMA HoldsFew ==
    ASSUME NEW e
    PROVE  /\ Holds(<<>>, e)
           /\ \A x \in Steps : Plain(x) \/ x = e => Holds(<<x>>, e)
           /\ \A x, y \in Steps : (Plain(x) \/ x = e) /\ (Plain(y) \/ y = e) => Holds(<<x, y>>, e)
  <1>1. Holds(<<>>, e)
    BY StepsOfFew DEF Holds
  <1>2. ASSUME NEW x \in Steps, Plain(x) \/ x = e PROVE Holds(<<x>>, e)
    BY <1>2, StepsOfFew, OneStep DEF Holds
  <1>3. ASSUME NEW x \in Steps, NEW y \in Steps, Plain(x) \/ x = e, Plain(y) \/ y = e
        PROVE  Holds(<<x, y>>, e)
    BY <1>3, StepsOfFew, TwoSteps DEF Holds
  <1> QED BY <1>1, <1>2, <1>3

LEMMA PlainOnes ==
    \A k, v : Plain(<<k, v>>) <=> k \notin AckKinds \union {"Db0Stop", "ToFsafe"}
  <1>1. \A k, v : <<k, v>>[1] = k
    OBVIOUS
  <1> QED BY <1>1 DEF Plain

LEMMA HandlerSteps ==
    ASSUME NEW d \in Db0Messages
    PROVE  /\ Holds(Db0Start(d), <<"Db0Started", "">>)
           /\ Holds(Db0GlbBcast(d), <<"AckUpdate", "">>)
           /\ Holds(Db0ClipBcast(d), <<"SendAck", "ok">>)
           /\ d.msg = "PMSR" => Holds(Db0PmsrUpdt(d), <<"SendAck", "ok">>)
           /\ \A a \in Acks : Holds(SendAck(a), <<"SendAck", a>>)
           /\ Holds(Step("Pmsr") \o Notify("IN0") \o SendAck("suspended"),
                    <<"SendAck", "suspended">>)
  <1>1. \A a \in Acks : Holds(SendAck(a), <<"SendAck", a>>)
    BY HandSteps, HoldsFew DEF SendAck
  <1>2. \A e : /\ Holds(MsgSend("LOCK"), e) /\ Holds(Notify("IN0"), e)
               /\ Holds(Step("Pmsr"), e)
               /\ Holds(<<<<"Pmsr", "">>, <<"NotifySibling", "">>>>, e)
               /\ Holds(<<<<"UpdateAnalog", d.value>>>>, e)
               /\ Holds(<<<<"Store", d>>>>, e)
    <2>1. /\ Plain(<<"Pmsr", "">>) /\ Plain(<<"NotifySibling", "">>)
          /\ Plain(<<"Send", "LOCK">>) /\ Plain(<<"AwaitMsgAck", "LOCK">>)
          /\ Plain(<<"Raise", "IN0">>) /\ Plain(<<"AwaitAnswer", "IN0">>)
          /\ Plain(<<"UpdateAnalog", d.value>>) /\ Plain(<<"Store", d>>)
      BY PlainOnes DEF AckKinds
    <2>2. /\ <<"Pmsr", "">> \in Steps /\ <<"NotifySibling", "">> \in Steps
          /\ <<"Send", "LOCK">> \in Steps /\ <<"AwaitMsgAck", "LOCK">> \in Steps
          /\ <<"Raise", "IN0">> \in Steps /\ <<"AwaitAnswer", "IN0">> \in Steps
          /\ <<"UpdateAnalog", d.value>> \in Steps /\ <<"Store", d>> \in Steps
      BY HandSteps
    <2> QED BY <2>1, <2>2, HoldsFew DEF MsgSend, Notify, Step
  <1>3. \A e : Holds(Update(d), e)
    <2>1. SUFFICES ASSUME NEW e PROVE Holds(Update(d), e)
      OBVIOUS
    <2>2. Holds((IF "qm" \in skipLock THEN <<>> ELSE MsgSend("LOCK"))
                \o <<<<"UpdateAnalog", d.value>>>>, e)
      BY <1>2, HoldsFew, HoldsJoined
    <2>3. Holds(IF d.value # record["qm"].quadPstate \/ "REGISTERING" \in flags["qm"]
                THEN (IF "qm" \in skipLock THEN <<>> ELSE MsgSend("LOCK"))
                     \o <<<<"UpdateAnalog", d.value>>>>
                ELSE <<>>, e)
      BY <2>2, HoldsFew
    <2> QED BY <1>2, <2>3, HoldsJoined DEF Update
  <1>4. /\ Holds(Step("Db0Started"), <<"Db0Started", "">>)
        /\ Holds(Step("AckUpdate"), <<"AckUpdate", "">>)
    BY HandSteps, HoldsFew DEF Step
  <1>5. Holds(Db0Start(d), <<"Db0Started", "">>) /\ Holds(Db0GlbBcast(d), <<"AckUpdate", "">>)
    BY <1>3, <1>4, HoldsJoined DEF Db0Start, Db0GlbBcast
  <1>6. "ok" \in Acks /\ "suspended" \in Acks
    BY DEF Acks
  <1>7. Holds(Db0ClipBcast(d), <<"SendAck", "ok">>)
    <2> DEFINE e == <<"SendAck", "ok">>
    <2>0. /\ Holds(<<<<"Store", d>>>>, e) /\ Holds(MsgSend("LOCK"), e)
          /\ Holds(Step("Pmsr"), e) /\ Holds(Notify("IN0"), e) /\ Holds(SendAck("ok"), e)
      BY <1>1, <1>2, <1>6
    <2> HIDE DEF e
    <2>1. Holds(<<<<"Store", d>>>> \o MsgSend("LOCK"), e)
      BY <2>0, HoldsJoined
    <2>2. Holds(<<<<"Store", d>>>> \o MsgSend("LOCK") \o Step("Pmsr"), e)
      BY <2>0, <2>1, HoldsJoined
    <2>3. Holds(<<<<"Store", d>>>> \o MsgSend("LOCK") \o Step("Pmsr") \o Notify("IN0"), e)
      BY <2>0, <2>2, HoldsJoined
    <2>4. Holds(Db0ClipBcast(d), e)
      BY <2>0, <2>3, HoldsJoined DEF Db0ClipBcast
    <2> QED BY <2>4 DEF e
  <1>8. ASSUME d.msg = "PMSR" PROVE Holds(Db0PmsrUpdt(d), <<"SendAck", "ok">>)
    <2> DEFINE e == <<"SendAck", "ok">>
    <2>0. Holds(Notify("IN0"), e) /\ Holds(SendAck("ok"), e)
      BY <1>1, <1>2, <1>6
    <2>5. Holds(<<<<"Suspended", d.field>>>>, e)
      <3>1. d.field \in {"set", "clear"}
        BY <1>8 DEF Db0Messages
      <3>2. <<"Suspended", d.field>> \in Steps /\ Plain(<<"Suspended", d.field>>)
        BY <3>1, HandSteps, PlainOnes DEF AckKinds
      <3> QED BY <3>2, HoldsFew
    <2> HIDE DEF e
    <2>1. Holds(<<<<"Suspended", d.field>>>> \o Notify("IN0"), e)
      BY <2>0, <2>5, HoldsJoined
    <2>2. Holds(Db0PmsrUpdt(d), e)
      BY <2>0, <2>1, HoldsJoined DEF Db0PmsrUpdt
    <2> QED BY <2>2 DEF e
  <1>9. Holds(Step("Pmsr") \o Notify("IN0") \o SendAck("suspended"), <<"SendAck", "suspended">>)
    <2>0. LET e == <<"SendAck", "suspended">> IN
          Holds(Notify("IN0"), e) /\ Holds(SendAck("suspended"), e) /\ Holds(Step("Pmsr"), e)
      BY <1>1, <1>2, <1>6
    <2>1. Holds(Step("Pmsr") \o Notify("IN0"), <<"SendAck", "suspended">>)
      BY <2>0, HoldsJoined
    <2> QED BY <2>0, <2>1, HoldsJoined
  <1> QED BY <1>1, <1>5, <1>7, <1>8, <1>9

(* A handler begins.                                                       *)
LEMMA ScriptSteps ==
    ASSUME TypeInv, Kept, NEW k, At("qm", k), NEW h \in Seq(Steps), Then("qm", h)
    PROVE  /\ RQ' = StepsOf(h) \union StepsOf(Tail(todo["qm"]))
           /\ RQ = {Q1} \union StepsOf(Tail(todo["qm"])) /\ GSame
           /\ todo'["qm"] = h \o Tail(todo["qm"]) /\ Tail(todo["qm"]) \in Seq(Steps)
           /\ \A y \in StepsOf(Tail(todo["qm"])) : QAfter(Q1, y)
           /\ Q1 \in Steps /\ Q1[1] = k /\ Q1 \in RQ
           /\ Q1[2] = Argument("qm")
  <1>1. PICK R \in Seq(Steps) :
               /\ todo'["qm"] = h \o R /\ R = Tail(todo["qm"])
               /\ RQ = {Q1} \union StepsOf(R)
               /\ \A y \in StepsOf(R) : QAfter(Q1, y)
               /\ GSame /\ Q1 \in Steps /\ Q1[1] = k /\ Q1[2] = Argument("qm")
    BY QThens DEF Kept
  <1>2. RQ' = StepsOf(h) \union StepsOf(R)
    BY <1>1, StepsJoined DEF RQ
  <1> QED BY <1>1, <1>2

LEMMA ScriptStops ==
    ASSUME TypeInv, TypeInv', Kept, Replies, NEW k, At("qm", k), NEW h \in Seq(Steps),
           Then("qm", h),
           \A y \in StepsOf(h) : y[1] # "Db0Stop" /\ y # <<"SendAck", "suspended">>,
           \A y \in StepsOf(Tail(todo["qm"])) : y[1] \notin AckKinds
    PROVE  R2'
  <1>1. RQ' = StepsOf(h) \union StepsOf(Tail(todo["qm"]))
    BY ScriptSteps
  <1>2. \A y \in RQ' : y[1] # "Db0Stop"
    BY <1>1, StopsLeft
  <1>3. <<"SendAck", "suspended">> \notin RQ'
    BY <1>1, KindsOf DEF AckKinds
  <1> QED BY <1>2, <1>3, NoStops

LEMMA ScriptOwes ==
    ASSUME TypeInv, TypeInv', Kept, Replies, NEW k, At("qm", k), NEW h \in Seq(Steps),
           Then("qm", h), R2', \A y \in StepsOf(h) : Owed(y),
           UNCHANGED <<irqVars, doorbellVars, cmeVars, sysVars>>,
           RegHead' \/ (Db0Due' /\ ~AckDue') => RegHead \/ (Db0Due /\ ~AckDue) \/ Readable
    PROVE  Replies' /\ panic' = panic
  <1>1. /\ UNCHANGED <<eisr, db0, db3, type4, mode, registered, alive, flags, panic>>
    BY DEF irqVars, doorbellVars, cmeVars, sysVars, pgpeVars
  <1>2. GStill
    BY <1>1, ScriptSteps DEF GStill, Enabled
  <1>3. \A y \in RQ' : y \in RQ \/ Owed(y)
    BY ScriptSteps
  <1>4. Db3Due' => Db3Due /\ db3'["qm"] = db3["qm"]
    BY <1>1 DEF Db3Due
  <1> QED BY <1>1, <1>2, <1>3, <1>4, StillOwes

LEMMA HoldsOwed ==
    ASSUME NEW h, NEW e, Holds(h, e), Owed(e), Msg0 \notin Unsent, e[1] # "Db0Stop",
           e # <<"SendAck", "suspended">>
    PROVE  /\ h \in Seq(Steps) /\ \A y \in StepsOf(h) : Owed(y)
           /\ \A y \in StepsOf(h) : y[1] # "Db0Stop" /\ y # <<"SendAck", "suspended">>
  <1>1. h \in Seq(Steps) /\ \A y \in StepsOf(h) : Plain(y) \/ y = e
    BY DEF Holds
  <1>2. \A y : Plain(y) => Owed(y)
    BY DEF Plain, Owed, AckKinds
  <1>3. \A y : Plain(y) => y[1] # "Db0Stop" /\ y # <<"SendAck", "suspended">>
    BY KindsOf DEF Plain, AckKinds
  <1> QED BY <1>1, <1>2, <1>3

(* What is readable is answered well.                                      *)
LEMMA ReadableViews ==
    /\ \A e : Expects(e) => \A msg : ~Writes0(G1, msg)
    /\ Readable /\ Msg0 = "START" => ~Enabled /\ Expects("ok") /\ Owed(<<"Db0Started", "">>)
    /\ Readable /\ Msg0 \in {"GLB", "PAYLOAD"} => Owed(<<"AckUpdate", "">>)
    /\ Readable /\ (Msg0 \in {"PMSR", "REGISTER_DONE"} \/ (Msg0 = "CLIP" /\ Enabled)) =>
           Owed(<<"SendAck", "ok">>)
    /\ Readable /\ Msg0 = "STOP" => Enabled /\ Owed(<<"SendAck", "suspended">>)
  <1>0. Cmes # {"sib"} /\ \A k, v : <<k, v>>[1] = k /\ <<k, v>>[2] = v
    BY DEF Cmes
  <1>1. ASSUME NEW e, Expects(e), NEW msg PROVE ~Writes0(G1, msg)
    BY <1>0, <1>1 DEF Expects, Expect, HalfM, Writes3, Writes0
  <1>2. Enabled => ~Starting
    BY DEF Starting
  <1>3. Starting => Msg0 = "START" \/ Writes0(G1, "START")
    BY DEF Starting
  <1>4. ASSUME NEW e, Expects(e), Msg0 # "START" PROVE ~Starting
    BY <1>1, <1>3, <1>4
  <1>5. \A e : /\ Owed(<<"SendAck", e>>) <=> Expects(e) /\ ~Starting
               /\ Owed(<<"AckUpdate", "">>) <=> Expects("ok") /\ Msg0 \in {"GLB", "PAYLOAD"}
               /\ Owed(<<"Db0Started", "">>) <=> Expects("ok") /\ Msg0 = "START" /\ Starting
    BY <1>0 DEF Owed, In0
  <1>6. Readable => /\ Expects(ReplyTo(Msg0))
                    /\ Msg0 = "START" => Starting
                    /\ Msg0 = "STOP" => Enabled
    BY DEF Readable
  <1>7. Starting => ~Enabled
    BY <1>2
  <1> QED BY <1>1, <1>4, <1>5, <1>6, <1>7 DEF ReplyTo

LEMMA StopInOrder ==
    Db0Stop = Step("Db0Stop") \o (Step("Pmsr") \o Notify("IN0") \o SendAck("suspended"))
  <1>1. /\ Step("Pmsr") \in Seq(Steps) /\ Notify("IN0") \in Seq(Steps)
        /\ SendAck("suspended") \in Seq(Steps) /\ Step("Db0Stop") \in Seq(Steps)
    BY HandSteps, PlainSteps DEF PlainKinds, Signals, Acks
  <1>2. Join(Join(Join(Step("Db0Stop"), Step("Pmsr")), Notify("IN0")), SendAck("suspended"))
          = Join(Step("Db0Stop"), Join(Step("Pmsr"), Join(Notify("IN0"), SendAck("suspended"))))
    BY <1>1, Join4
  <1>3. Join(Join(Step("Pmsr"), Notify("IN0")), SendAck("suspended"))
          = Join(Step("Pmsr"), Join(Notify("IN0"), SendAck("suspended")))
    BY <1>1, Join3
  <1> QED BY <1>2, <1>3 DEF Join, Db0Stop

LEMMA ConsJoined ==
    ASSUME NEW x \in Steps, NEW s \in Seq(Steps), NEW r \in Seq(Steps)
    PROVE  Cons(x, s) \o r = Cons(x, s \o r)
  <1>1. PICK q \in Seq(Steps) : q = <<x>>
    BY OneStep
  <1>2. Join(Join(q, s), r) = Join(q, Join(s, r))
    BY Join3
  <1> QED BY <1>1, <1>2 DEF Cons, Join

LEMMA ReadStop ==
    ASSUME TypeInv, TypeInv', Kept, Kept', Replies, At("qm", "ReadDb0"), Then("qm", Db0Stop),
           UNCHANGED <<irqVars, doorbellVars, cmeVars, sysVars>>, Msg0 = "STOP", Readable
    PROVE  Replies' /\ panic' = panic
  <1> DEFINE x == <<"Db0Stop", "">>
             e == <<"SendAck", "suspended">>
             rest == Step("Pmsr") \o Notify("IN0") \o SendAck("suspended")
             R == Tail(todo["qm"])
  <1>1. NoMessage \in Db0Messages
    BY DEF NoMessage, Message, Db0Messages, Values
  <1>2. Holds(rest, e)
    BY <1>1, HandlerSteps
  <1>3. /\ x \in Steps /\ Step("Pmsr") \in Seq(Steps) /\ Notify("IN0") \in Seq(Steps)
        /\ SendAck("suspended") \in Seq(Steps) /\ Step("Db0Stop") \in Seq(Steps)
    BY HandSteps, PlainSteps DEF PlainKinds, Signals, Acks
  <1>4. Db0Stop = Step("Db0Stop") \o rest
    BY StopInOrder
  <1>5. rest \in Seq(Steps) /\ \A y \in StepsOf(rest) : Plain(y) \/ y = e
    BY <1>2 DEF Holds
  <1> HIDE DEF rest, R
  <1>6. /\ Db0Stop = Cons(x, rest) /\ Db0Stop \in Seq(Steps)
        /\ StepsOf(Db0Stop) = {x} \union StepsOf(rest)
    <2>1. Db0Stop = Cons(x, rest)
      BY <1>4, <1>5, ScriptChains DEF PlainKinds
    <2> QED BY <1>3, <1>5, <2>1, ConsItems
  <1>7. /\ R \in Seq(Steps) /\ \A y \in StepsOf(R) : y[1] # "Db0Stop"
        /\ RQ' = StepsOf(Db0Stop) \union StepsOf(R) /\ todo'["qm"] = Db0Stop \o R
    BY <1>6, ScriptSteps, StopsLeft DEF R
  <1>8. Enabled /\ Owed(e) /\ Msg0 \notin Unsent
    BY ReadableViews DEF Unsent
  <1>9. \A y \in StepsOf(Db0Stop) : Owed(y)
    <2>1. \A y : Plain(y) => Owed(y)
      BY <1>8 DEF Plain, Owed, AckKinds
    <2>2. Owed(x)
      BY DEF Owed, In0
    <2> QED BY <1>5, <1>6, <1>8, <2>1, <2>2
  <1>10. e \in StepsOf(rest)
    <2>1. \A a, b \in Seq(Steps) : StepsOf(a \o b) = StepsOf(a) \union StepsOf(b)
      BY StepsJoined
    <2>2. StepsOf(SendAck("suspended")) = {e}
      BY HandSteps, StepsOfFew DEF SendAck, Acks
    <2>3. Step("Pmsr") \o Notify("IN0") \in Seq(Steps)
      BY <1>3, Joined
    <2> QED BY <1>3, <2>1, <2>2, <2>3 DEF rest
  <1>11. R2'
    <2>1. \A y \in StepsOf(rest) : y[1] # "Db0Stop"
      BY <1>5, KindsOf DEF Plain
    <2>2. rest \o R \in Seq(Steps) /\ \A y \in StepsOf(rest \o R) : y[1] # "Db0Stop"
      BY <1>5, <1>7, <2>1, StepsJoined, Joined
    <2>3. todo'["qm"] = Cons(x, rest \o R)
      <3>1. Cons(x, rest) \o R = Cons(x, rest \o R)
        BY <1>3, <1>5, <1>7, ConsJoined
      <3> QED BY <1>6, <1>7, <3>1
    <2>4. \A i \in Nat \ {0} : Item(rest \o R, i)[1] # "Db0Stop"
      BY <2>2, StopItems
    <2>5. /\ Item(todo'["qm"], 1) = x
          /\ \A i \in Nat \ {0} : Item(todo'["qm"], i + 1) = Item(rest \o R, i)
      <3>1. \A s \in Seq(Steps) : /\ Item(Cons(x, s), 1) = x
                                 /\ \A i \in Nat \ {0} : Item(Cons(x, s), i + 1) = Item(s, i)
        BY <1>3, ConsItems, ZenonT(60)
      <3> QED BY <2>2, <2>3, <3>1
    <2>6. ASSUME NEW i \in Nat \ {0, 1} PROVE Item(todo'["qm"], i)[1] # "Db0Stop"
      <3>1. i - 1 \in Nat \ {0} /\ (i - 1) + 1 = i
        BY <2>6
      <3> QED BY <2>4, <2>5, <3>1
    <2>7. Q1'[1] = "Db0Stop"
      <3>1. x[1] = "Db0Stop"
        OBVIOUS
      <3> QED BY <2>5, <3>1 DEF Q1
    <2>8. e \in RQ'
      BY <1>6, <1>7, <1>10
    <2> QED BY <2>6, <2>7, <2>8 DEF R2
  <1> QED BY <1>6, <1>9, <1>11, ScriptOwes

LEMMA RepliesReadDb0 ==
    ASSUME TypeInv, TypeInv', Kept, Kept', Replies, ReadDb0
    PROVE  Replies' /\ panic' = panic
  <1> DEFINE d == db0["qm"]
  <1>1. /\ At("qm", "ReadDb0")
        /\ UNCHANGED <<irqVars, doorbellVars, cmeVars, sysVars>>
    BY DEF ReadDb0, Running
  <1>2. d \in Db0Messages /\ Msg0 = d.msg
    BY DEF TypeInv, DoorbellType, Cmes, Msg0
  <1>3. Q1 \in RQ /\ Q1[1] = "ReadDb0"
    BY <1>1, HeadsAt, Heads
  <1>4. Readable
    BY <1>3 DEF Replies, R1, Owed
  <1>5. \A y \in StepsOf(Tail(todo["qm"])) : y[1] \notin AckKinds
    BY <1>1, <1>3, QRest DEF Kept, QAfter, AckKinds
  <1>6. ASSUME NEW h, Then("qm", h), h \in Seq(Steps), \A y \in StepsOf(h) : Owed(y),
               \A y \in StepsOf(h) : y[1] # "Db0Stop" /\ y # <<"SendAck", "suspended">>
        PROVE  Replies' /\ panic' = panic
    BY <1>1, <1>5, <1>6, <1>4, ScriptStops, ScriptOwes
  <1>7. ASSUME NEW h, NEW e, Then("qm", h), Holds(h, e), Owed(e), Msg0 \notin Unsent,
               e[1] # "Db0Stop", e # <<"SendAck", "suspended">>
        PROVE  Replies' /\ panic' = panic
    BY <1>6, <1>7, HoldsOwed
  <1>8. CASE Then("qm", <<>>)
    BY <1>6, <1>8, EmptyItems, QEmpty
  <1>9. CASE Msg0 = "START" /\ Then("qm", Db0Start(d))
    BY <1>2, <1>4, <1>7, <1>9, HandlerSteps, ReadableViews, KindsOf DEF Unsent
  <1>10. CASE Msg0 \in {"GLB", "PAYLOAD"} /\ Then("qm", Db0GlbBcast(d))
    BY <1>2, <1>4, <1>7, <1>10, HandlerSteps, ReadableViews, KindsOf DEF Unsent
  <1>11. CASE Msg0 = "CLIP" /\ Enabled /\ Then("qm", Db0ClipBcast(d))
    BY <1>2, <1>4, <1>7, <1>11, HandlerSteps, ReadableViews, KindsOf DEF Unsent
  <1>12. CASE Msg0 = "PMSR" /\ Then("qm", Db0PmsrUpdt(d))
    BY <1>2, <1>4, <1>7, <1>12, HandlerSteps, ReadableViews, KindsOf DEF Unsent
  <1>13. CASE Msg0 = "REGISTER_DONE" /\ Then("qm", SendAck("ok"))
    <2>1. SendAck("ok") \in Seq(Steps) /\ StepsOf(SendAck("ok")) = {<<"SendAck", "ok">>}
      BY HandSteps, StepsOfFew, OneStep DEF SendAck, Acks
    <2>2. Owed(<<"SendAck", "ok">>)
      BY <1>4, <1>13, ReadableViews
    <2> QED BY <1>6, <1>13, <2>1, <2>2, KindsOf
  <1>14. CASE Msg0 = "STOP" /\ Then("qm", Db0Stop)
    BY <1>1, <1>4, <1>14, ReadStop
  <1>15. /\ Msg0 = "START" => ~Enabled
         /\ Msg0 = "STOP" => Enabled
         /\ Msg0 # "NONE"
    BY <1>4, ReadableViews DEF Readable
  <1>16. d.msg \in {"NONE", "START", "GLB", "PAYLOAD", "CLIP", "STOP", "PMSR", "REGISTER_DONE"}
    BY <1>2 DEF Db0Messages
  <1> QED BY <1>2, <1>8, <1>9, <1>10, <1>11, <1>12, <1>13, <1>14, <1>15, <1>16
          DEF ReadDb0, Enabled

LEMMA RegistrationHolds ==
    ASSUME NEW m \in 0 .. 3, NEW e
    PROVE  Holds(Registration(m), e)
  <1>1. CASE m = 0
    <2>1. <<"Registered", "">> \in Steps
      BY DEF Steps, PlainKinds
    <2>2. Plain(<<"Registered", "">>)
      BY PlainOnes DEF AckKinds
    <2> QED BY <1>1, <2>1, <2>2, HoldsFew DEF Registration, Step
  <1>2. CASE m # 0
    <2>1. <<"AwaitDb0", m>> \in Steps /\ <<"RegisterDb0", m>> \in Steps
      <3>1. m \in 1 .. 3
        BY <1>2
      <3>2. \A k \in RegisterKinds, i \in 1 .. 3 : <<k, i>> \in Steps
        BY DEF Steps
      <3> QED BY <3>1, <3>2 DEF RegisterKinds
    <2>2. Plain(<<"AwaitDb0", m>>) /\ Plain(<<"RegisterDb0", m>>)
      BY PlainOnes DEF AckKinds
    <2> QED BY <1>2, <2>1, <2>2, HoldsFew DEF Registration
  <1> QED BY <1>1, <1>2

LEMMA RepliesRegisterDb0 ==
    ASSUME TypeInv, TypeInv', Kept, Kept', Replies, RegisterDb0
    PROVE  Replies' /\ panic' = panic
  <1> DEFINE d == db0["qm"]
  <1>1. /\ At("qm", "RegisterDb0")
        /\ UNCHANGED <<irqVars, doorbellVars, cmeVars, sysVars>>
    BY DEF RegisterDb0, Running
  <1>2. d \in Db0Messages /\ Msg0 = d.msg /\ Msg0' = Msg0
    BY <1>1 DEF TypeInv, DoorbellType, Cmes, Msg0, doorbellVars
  <1>3. PICK R \in Seq(Steps) :
           /\ R = Tail(todo["qm"]) /\ Finishes(R)
           /\ RQ = {Q1} \union StepsOf(R)
           /\ Q1 \in Steps /\ Q1[1] = "RegisterDb0" /\ Q1[2] = Argument("qm")
           /\ "qm" \notin skipLock
           /\ <<"Send", "SYNC">> \in StepsOf(R)
           /\ \A x : <<"Send", x>> \in RQ => x = "SYNC"
           /\ \A y \in StepsOf(R) : y[1] \in {"Send", "AwaitMsgAck", "Ready"}
    BY <1>1, RegisteringViews
  <1>4. PICK n \in 1 .. 3 : n = Argument("qm") /\ Q1 = <<"RegisterDb0", n>>
    BY <1>3, Arguments, StepIsPair DEF RegisterKinds
  <1>5. n \in 0 .. 3 /\ n - 1 \in 0 .. 3 /\ n # 0
    OBVIOUS
  <1>6. \A y \in StepsOf(Tail(todo["qm"])) : y[1] \notin AckKinds
    BY <1>3 DEF AckKinds
  <1>7. Msg0 # "REGISTER_DONE"
    BY <1>3, <1>4, RegisteringDb0
  <1>8. Msg0 \in RegMsgs => Readable /\ RegHead
    BY <1>3 DEF Replies, R1, RegHead
  <1>9. ASSUME NEW h, NEW e, Then("qm", h), Holds(h, e), Owed(e), Msg0 \in RegMsgs,
               e[1] # "Db0Stop", e # <<"SendAck", "suspended">>
        PROVE  Replies' /\ panic' = panic
    <2>1. Msg0 \notin Unsent
      BY <1>7, <1>9 DEF Unsent, RegMsgs
    <2>2. /\ h \in Seq(Steps) /\ \A y \in StepsOf(h) : Owed(y)
          /\ \A y \in StepsOf(h) : y[1] # "Db0Stop" /\ y # <<"SendAck", "suspended">>
      BY <1>9, <2>1, HoldsOwed
    <2>3. R2'
      BY <1>1, <1>6, <1>9, <2>2, ScriptStops
    <2> QED BY <1>1, <1>8, <1>9, <2>2, <2>3, ScriptOwes
  <1>10. CASE Msg0 = "START"
    <2>1. Then("qm", Db0Start(d) \o Registration(n - 1))
      BY <1>2, <1>4, <1>10 DEF RegisterDb0
    <2>2. Holds(Db0Start(d), <<"Db0Started", "">>)
      BY <1>2, HandlerSteps
    <2>3. Holds(Registration(n - 1), <<"Db0Started", "">>)
      BY <1>5, RegistrationHolds
    <2>4. Holds(Db0Start(d) \o Registration(n - 1), <<"Db0Started", "">>)
      BY <2>2, <2>3, HoldsJoined
    <2>5. Owed(<<"Db0Started", "">>)
      BY <1>8, <1>10, ReadableViews DEF RegMsgs
    <2>6. <<"Db0Started", "">>[1] = "Db0Started" /\ <<"Db0Started", "">> # <<"SendAck", "suspended">>
      OBVIOUS
    <2> QED BY <1>9, <1>10, <2>1, <2>4, <2>5, <2>6 DEF RegMsgs
  <1>11. CASE Msg0 = "CLIP" /\ Enabled
    <2>1. Then("qm", Db0ClipBcast(d) \o Registration(n - 1))
      BY <1>2, <1>4, <1>11 DEF RegisterDb0, Enabled
    <2>2. Holds(Db0ClipBcast(d), <<"SendAck", "ok">>)
      BY <1>2, HandlerSteps
    <2>3. Holds(Registration(n - 1), <<"SendAck", "ok">>)
      BY <1>5, RegistrationHolds
    <2>4. Holds(Db0ClipBcast(d) \o Registration(n - 1), <<"SendAck", "ok">>)
      BY <2>2, <2>3, HoldsJoined
    <2>5. Owed(<<"SendAck", "ok">>)
      BY <1>8, <1>11, ReadableViews DEF RegMsgs
    <2>6. <<"SendAck", "ok">>[1] = "SendAck" /\ <<"SendAck", "ok">> # <<"SendAck", "suspended">>
      OBVIOUS
    <2> QED BY <1>9, <1>11, <2>1, <2>4, <2>5, <2>6 DEF RegMsgs
  <1>12. CASE ~(Msg0 = "START" \/ (Msg0 = "CLIP" /\ Enabled))
    <2>1. Then("qm", Registration(n))
      BY <1>2, <1>4, <1>7, <1>12 DEF RegisterDb0, Enabled
    <2>2. Registration(n) \in Seq(Steps)
      BY <1>5, RegistrationHolds DEF Holds
    <2>3. PICK t \in Seq(Steps) : Registers(n, R, t)
      BY <1>3, <1>4, RegisterNext
    <2>4. t = todo'["qm"] /\ Q1' = Item(t, 1) /\ RQ' = StepsOf(t)
      BY <1>1, <1>3, <2>1, <2>2, <2>3, ScriptSteps DEF Registers, Q1, RQ
    <2>5. Q1'[1] # "RegisterDb0" /\ RegDue'
      BY <2>3, <2>4 DEF Registers, RegDue, RegLeft
    <2>6. \A y \in StepsOf(Registration(n)) : Plain(y)
      <3>1. \A e : \A y \in StepsOf(Registration(n)) : Plain(y) \/ y = e
        BY <1>5, RegistrationHolds DEF Holds
      <3>2. \A y \in StepsOf(Registration(n)) : Plain(y) \/ y = End
        BY <3>1
      <3>3. StepsOf(Registration(n)) \subseteq Steps
        BY <2>2, ItemsOf
      <3> QED BY <3>2, <3>3, NoEnd
    <2>7. \A y \in StepsOf(Registration(n)) : ~In0(y)
      <3>1. \A y \in StepsOf(Registration(n)) : y \in RQ'
        BY <1>1, <2>1, <2>2, ScriptSteps
      <3>2. \A y \in RQ' : \/ y[1] \in {"Send", "AwaitMsgAck", "Ready"}
                           \/ y[1] \in {"Registered", "AwaitDb0", "RegisterDb0"}
        BY <1>3, <2>3, <2>4 DEF Registers
      <3> QED BY <3>1, <3>2 DEF In0
    <2>8. \A y \in StepsOf(Registration(n)) : Owed(y)
      BY <2>6, <2>7 DEF Plain, Owed, AckKinds
    <2>9. R2'
      BY <2>6, <1>1, <1>6, <2>1, <2>2, KindsOf, ScriptStops DEF Plain, AckKinds
    <2>10. RegHead' \/ (Db0Due' /\ ~AckDue') => RegHead \/ (Db0Due /\ ~AckDue) \/ Readable
      BY <1>2, <1>8, <2>5 DEF RegHead, Db0Due
    <2> QED BY <1>1, <2>1, <2>2, <2>8, <2>9, <2>10, ScriptOwes
  <1> QED BY <1>10, <1>11, <1>12

-----------------------------------------------------------------------------
(* The interrupts of the quad manager: what they begin answers e.          *)
Idly(y) == Plain(y) /\ ~In0(y)
Begun(s, e) == s \in Seq(Steps) /\ \A y \in StepsOf(s) : Idly(y) \/ y = e

LEMMA BegunJoined ==
    ASSUME NEW e, NEW a, NEW b, Begun(a, e), Begun(b, e)
    PROVE  Begun(a \o b, e)
  BY StepsJoined, Joined DEF Begun

LEMMA BegunFew ==
    ASSUME NEW e
    PROVE  /\ Begun(<<>>, e)
           /\ \A x \in Steps : Idly(x) \/ x = e => Begun(<<x>>, e)
           /\ \A x, y \in Steps : (Idly(x) \/ x = e) /\ (Idly(y) \/ y = e) => Begun(<<x, y>>, e)
  <1>1. Begun(<<>>, e)
    BY StepsOfFew, EmptyItems, QEmpty DEF Begun
  <1>2. ASSUME NEW x \in Steps, Idly(x) \/ x = e PROVE Begun(<<x>>, e)
    BY <1>2, StepsOfFew, OneStep DEF Begun
  <1>3. ASSUME NEW x \in Steps, NEW y \in Steps, Idly(x) \/ x = e, Idly(y) \/ y = e
        PROVE  Begun(<<x, y>>, e)
    BY <1>3, StepsOfFew, TwoSteps DEF Begun
  <1> QED BY <1>1, <1>2, <1>3

LEMMA CalmOnes ==
    \A k, v : k \notin AckKinds \union {"Db0Stop", "ToFsafe", "NotifySibling", "Raise",
                                        "AwaitAnswer"} \/ (k \in {"Raise", "AwaitAnswer"}
                                                           /\ v = "IN2")
                 => Idly(<<k, v>>)
  <1>1. \A k, v : <<k, v>>[1] = k /\ <<k, v>>[2] = v
    OBVIOUS
  <1>2. SUFFICES ASSUME NEW k, NEW v,
                        \/ k \notin AckKinds \union {"Db0Stop", "ToFsafe", "NotifySibling",
                                                     "Raise", "AwaitAnswer"}
                        \/ k \in {"Raise", "AwaitAnswer"} /\ v = "IN2"
                 PROVE  Idly(<<k, v>>)
    OBVIOUS
  <1>3. Plain(<<k, v>>)
    BY <1>2, PlainOnes DEF AckKinds
  <1>4. ~In0(<<k, v>>)
    BY <1>1, <1>2 DEF In0
  <1> QED BY <1>3, <1>4 DEF Idly

LEMMA BegunScripts ==
    ASSUME NEW e
    PROVE  /\ Begun(Notify("IN2"), e)
           /\ \A m \in Db3Messages : Begun(EndDb3(m), e)
           /\ \A d \in Db0Messages : Begun(<<<<"Store", d>>, <<"Pmsr", "">>>>, e)
           /\ Begun(Step("EndDb0"), e) /\ Begun(Step("ClearDb0"), e)
           /\ e = <<"ReadDb0", "">> => Begun(Step("ReadDb0"), e)
           /\ \A a \in Acks : e = <<"SendAck", a>> => Begun(SendAck(a), e)
  <1>1. /\ \A i \in Signals : <<"Raise", i>> \in Steps /\ <<"AwaitAnswer", i>> \in Steps
        /\ \A m \in Db3Messages : <<"EndDb3", m>> \in Steps
        /\ \A d \in Db0Messages : <<"Store", d>> \in Steps
        /\ \A k \in PlainKinds : <<k, "">> \in Steps
        /\ \A a \in Acks : <<"SendAck", a>> \in Steps
    BY DEF Steps, SignalKinds
  <1>2. /\ Idly(<<"Raise", "IN2">>) /\ Idly(<<"AwaitAnswer", "IN2">>)
        /\ \A m : Idly(<<"EndDb3", m>>) /\ Idly(<<"Store", m>>)
        /\ Idly(<<"Pmsr", "">>) /\ Idly(<<"EndDb0", "">>) /\ Idly(<<"ClearDb0", "">>)
    BY CalmOnes DEF AckKinds
  <1>3. /\ <<"Raise", "IN2">> \in Steps /\ <<"AwaitAnswer", "IN2">> \in Steps
        /\ <<"Pmsr", "">> \in Steps /\ <<"EndDb0", "">> \in Steps
        /\ <<"ClearDb0", "">> \in Steps /\ <<"ReadDb0", "">> \in Steps
    BY <1>1 DEF Signals, PlainKinds
  <1>4. Begun(Notify("IN2"), e)
    BY <1>2, <1>3, BegunFew DEF Notify
  <1>5. \A m \in Db3Messages : Begun(EndDb3(m), e)
    BY <1>1, <1>2, BegunFew DEF EndDb3
  <1>6. \A d \in Db0Messages : Begun(<<<<"Store", d>>, <<"Pmsr", "">>>>, e)
    BY <1>1, <1>2, <1>3, BegunFew
  <1>7. Begun(Step("EndDb0"), e) /\ Begun(Step("ClearDb0"), e)
    BY <1>2, <1>3, BegunFew DEF Step
  <1>8. e = <<"ReadDb0", "">> => Begun(Step("ReadDb0"), e)
    BY <1>3, BegunFew DEF Step
  <1>9. \A a \in Acks : e = <<"SendAck", a>> => Begun(SendAck(a), e)
    BY <1>1, BegunFew DEF SendAck
  <1> QED BY <1>4, <1>5, <1>6, <1>7, <1>8, <1>9

LEMMA Interrupted ==
    ASSUME TypeInv, TypeInv', Kept, Replies, Idle("qm"), GSame,
           UNCHANGED <<db0, type4, mode, registered, alive>>, Enabled' <=> Enabled,
           NEW t, NEW e, t = todo'["qm"], Begun(t, e), Owed(e), e[1] # "Db0Stop",
           e # <<"SendAck", "suspended">>, Q1'[1] # "RegisterDb0",
           Db0Due' /\ ~AckDue' => Db0Due,
           Db3Due' => Db3Due /\ db3'["qm"] = db3["qm"]
    PROVE  Replies'
  <1>1. t \in Seq(Steps) /\ RQ' = StepsOf(t) /\ \A y \in StepsOf(t) : Idly(y) \/ y = e
    BY DEF Begun, RQ
  <1>2. \A y : Idly(y) => Owed(y) /\ y[1] # "Db0Stop" /\ y # <<"SendAck", "suspended">>
    BY KindsOf DEF Idly, Plain, Owed, AckKinds
  <1>3. \A y \in RQ' : Owed(y) /\ y[1] # "Db0Stop" /\ y # <<"SendAck", "suspended">>
    BY <1>1, <1>2
  <1>4. R2'
    BY <1>3, NoStops
  <1>5. GStill
    BY DEF GStill
  <1>6. ~RegHead' /\ ~AckDue
    BY IdleExchange DEF RegHead
  <1> QED BY <1>3, <1>4, <1>5, <1>6, StillOwes

LEMMA RepliesTakeDb0 ==
    ASSUME TypeInv, TypeInv', Kept, Kept', Replies, TakeDb0
    PROVE  Replies' /\ panic' = panic
  <1> DEFINE e == <<"ReadDb0", "">>
  <1>1. Idle("qm") /\ "DB0" \in eisr["qm"]
    BY TakenIs DEF TakeDb0, Kept
  <1>2. Db0Due /\ ~AckDue
    BY <1>1, IdleExchange
  <1>3. Readable
    BY <1>2 DEF Replies, R1
  <1>4. e[1] = "ReadDb0"
    OBVIOUS
  <1>5. Owed(e) /\ e[1] # "Db0Stop" /\ e # <<"SendAck", "suspended">>
    BY <1>3, <1>4, KindsOf DEF Owed, In0
  <1>6. Begun(ProcessDb0 \o Step("EndDb0"), e)
    <2>1. Begun(ProcessDb0, e)
      BY BegunScripts, BegunJoined DEF ProcessDb0
    <2> QED BY <2>1, BegunScripts, BegunJoined
  <1>7. /\ UNCHANGED <<eisr, type4, db0, db3, registered, alive, mode, flags, panic>>
        /\ todo' = [todo EXCEPT !["qm"] = ProcessDb0 \o Step("EndDb0")]
    BY DEF TakeDb0, doorbellVars, cmeVars, sysVars, pgpeVars
  <1>8. todo'["qm"] = ProcessDb0 \o Step("EndDb0") /\ GSame
    BY <1>7 DEF TypeInv, TodoType, Processes, GSame
  <1>9. Q1'[1] # "RegisterDb0"
    <2>1. \A y \in RQ' : Idly(y) \/ y = e
      BY <1>6, <1>8 DEF Begun, RQ
    <2>2. ASSUME Q1'[1] = "RegisterDb0" PROVE FALSE
      <3>1. PICK x \in Steps : x = <<"EndDb0", "">> /\ x[1] = "EndDb0"
        <4>1. \A k \in PlainKinds : <<k, "">> \in Steps
          BY DEF Steps
        <4>2. <<"EndDb0", "">> \in Steps
          BY <4>1 DEF PlainKinds
        <4> QED BY <4>2
      <3>2. Item(ProcessDb0 \o <<x>>, 1)[1] = "ClearDb0"
        BY <3>1, Db0Script
      <3> QED BY <1>8, <2>2, <3>1, <3>2 DEF Q1, Step
    <2> QED BY <2>2
  <1>10. (Db3Due' => Db3Due) /\ (Enabled' <=> Enabled)
    BY <1>7 DEF Db3Due, Enabled
  <1>11. Replies'
    <2> HIDE DEF e
    <2> QED BY <1>1, <1>2, <1>5, <1>6, <1>7, <1>8, <1>9, <1>10, Interrupted
  <1> QED BY <1>7, <1>11

LEMMA RepliesTakeDb3 ==
    ASSUME TypeInv, TypeInv', Kept, Kept', Replies, TakeDb3("qm")
    PROVE  Replies' /\ panic' = panic
  <1>1. Idle("qm") /\ "DB3" \in eisr["qm"]
    BY TakenIs DEF TakeDb3, Kept
  <1>2. PICK m \in Db3Messages : m = db3["qm"]
    BY <1>1, CmesAre DEF TypeInv, Db3Written
  <1>3. PICK t \in Seq(Steps) :
               /\ t = Db3Steps("qm", m)
               /\ Begins(t, Reason[m])
               /\ m = "SUSPEND" => t = <<>>
               /\ m # "SUSPEND" => Answers(t)
    BY Db3Opens
  <1>4. /\ UNCHANGED <<type4, db0, db3, registered, alive, mode, panic>>
        /\ todo' = [todo EXCEPT !["qm"] = t]
        /\ eisr' = Clearing("qm", {"DB3"}, eisr)
    BY <1>2, <1>3 DEF TakeDb3, doorbellVars, sysVars, pgpeVars
  <1>5. t = todo'["qm"] /\ GSame
    BY <1>4 DEF TypeInv, TodoType, Processes, GSame
  <1>6. eisr'["qm"] = eisr["qm"] \ {"DB3"}
    BY <1>4, BitViews DEF Bits
  <1>7. Enabled' <=> Enabled
    BY Db3Flags, CmesAre DEF SameFlags, Enabled
  <1>8. Q1'[1] # "RegisterDb0" /\ ~Db3Due'
    BY <1>3, <1>5, <1>6 DEF Begins, Q1, Db3Due
  <1>9. ~HasReg /\ ~RegDue /\ ("DB0" \in eisr["qm"] => Db0Due)
    BY <1>1, IdleExchange
  <1>10. Db0Due' => Db0Due
    BY <1>6, <1>9 DEF Db0Due
  <1>11. ASSUME NEW e, Begun(t, e), Owed(e), e[1] # "Db0Stop", e # <<"SendAck", "suspended">>
         PROVE  Replies'
    BY <1>1, <1>4, <1>5, <1>7, <1>8, <1>10, <1>11, Interrupted
  <1>12. CASE m = "SUSPEND"
    <2> DEFINE e == <<"EndDb0", "">>
    <2>1. Idly(e)
      BY CalmOnes DEF AckKinds
    <2>2. Begun(t, e) /\ Owed(e) /\ e[1] # "Db0Stop" /\ e # <<"SendAck", "suspended">>
      BY <1>3, <1>12, <2>1, BegunFew, KindsOf DEF Idly, Plain, Owed, AckKinds
    <2> HIDE DEF e
    <2> QED BY <1>4, <1>11, <2>2
  <1>13. m # "SUSPEND" => Owed3(m)
    BY <1>1, <1>2 DEF Replies, R1, Db3Due
  <1>14. CASE m \in LockLike
    <2> DEFINE e == <<"ReadDb0", "">>
    <2>1. e[1] = "ReadDb0" /\ Readable
      BY <1>13, <1>14 DEF Owed3, LockLike
    <2>2. Owed(e) /\ e[1] # "Db0Stop" /\ e # <<"SendAck", "suspended">>
      BY <2>1, KindsOf DEF Owed, In0
    <2>3. Begun(Notify("IN2") \o ProcessDb0 \o EndDb3(m), e)
      <3>1. Begun(ProcessDb0, e)
        BY BegunScripts, BegunJoined DEF ProcessDb0
      <3>2. Begun(Notify("IN2"), e) /\ Begun(EndDb3(m), e)
        BY BegunScripts
      <3> HIDE DEF e
      <3>3. Begun(Notify("IN2") \o ProcessDb0, e)
        BY <3>1, <3>2, BegunJoined
      <3> QED BY <3>2, <3>3, BegunJoined
    <2>4. t = Notify("IN2") \o ProcessDb0 \o EndDb3(m)
      BY <1>3, <1>14, ZenonT(30) DEF Db3Steps, LockLike
    <2> HIDE DEF e
    <2> QED BY <1>4, <1>11, <2>2, <2>3, <2>4
  <1>15. ASSUME m \notin LockLike, m # "SUSPEND", NEW a \in Acks, a = ReplyTo3(m)
         PROVE  Owed(<<"SendAck", a>>) /\ <<"SendAck", a>>[1] # "Db0Stop"
    BY <1>13, <1>15, KindsOf DEF Owed3, Owed, In0
  <1>16. CASE m \in {"HANDOFF", "UNSUSPEND"}
    <2>1. PICK a \in Acks : a = ReplyTo3(m)
      BY DEF ReplyTo3, Acks
    <2> DEFINE e == <<"SendAck", a>>
    <2>2. Owed(e) /\ e[1] # "Db0Stop" /\ e # <<"SendAck", "suspended">>
      BY <1>15, <1>16, <2>1, KindsOf DEF LockLike, ReplyTo3
    <2>3. Begun(Notify("IN2"), e) /\ Begun(SendAck(a), e)
      BY BegunScripts
    <2>4. t = Notify("IN2") \o SendAck(a)
      <3>1. CASE m = "HANDOFF"
        BY <1>3, <2>1, <3>1 DEF Db3Steps, ReplyTo3
      <3>2. CASE m = "UNSUSPEND"
        BY <1>3, <2>1, <3>2 DEF Db3Steps, ReplyTo3
      <3> QED BY <1>16, <3>1, <3>2
    <2> HIDE DEF e
    <2>5. Begun(t, e)
      BY <2>3, <2>4, BegunJoined
    <2> QED BY <1>4, <1>11, <2>2, <2>5
  <1>17. CASE m = "CLIP"
    <2> DEFINE e == <<"SendAck", "ok">>
    <2>1. "ok" \in Acks /\ "ok" = ReplyTo3(m)
      BY <1>17 DEF ReplyTo3, Acks
    <2>2. Owed(e) /\ e[1] # "Db0Stop" /\ e # <<"SendAck", "suspended">>
      BY <1>15, <1>17, <2>1, KindsOf DEF LockLike
    <2>3. PICK d \in Db0Messages : d = db0["qm"]
      BY CmesAre DEF TypeInv, DoorbellType
    <2>4. /\ Begun(Notify("IN2"), e) /\ Begun(SendAck("ok"), e)
          /\ Begun(<<<<"Store", d>>, <<"Pmsr", "">>>>, e)
      BY <2>1, BegunScripts
    <2>5. t = Notify("IN2") \o <<<<"Store", d>>, <<"Pmsr", "">>>> \o Notify("IN2")
                  \o SendAck("ok")
      BY <1>3, <1>17, <2>3 DEF Db3Steps
    <2> HIDE DEF e
    <2>6. Begun(Notify("IN2") \o <<<<"Store", d>>, <<"Pmsr", "">>>>, e)
      BY <2>4, BegunJoined
    <2>7. Begun(Notify("IN2") \o <<<<"Store", d>>, <<"Pmsr", "">>>> \o Notify("IN2"), e)
      BY <2>4, <2>6, BegunJoined
    <2>8. Begun(t, e)
      BY <2>4, <2>5, <2>7, BegunJoined
    <2> QED BY <1>4, <1>11, <2>2, <2>8
  <1> QED BY <1>12, <1>14, <1>16, <1>17 DEF LockLike, Db3Messages

LEMMA RepliesTakeLoss ==
    ASSUME TypeInv, TypeInv', Kept, Kept', Replies, TakeHeartbeatLoss("qm")
    PROVE  Replies' /\ panic' = panic
  <1> DEFINE e == <<"ToFsafe", "">>
  <1>1. Idle("qm") /\ "HB" \in eisr["qm"]
    BY TakenIs DEF TakeHeartbeatLoss, Kept
  <1>2. ~alive
    BY <1>1 DEF Kept, Exchange, HB1
  <1>3. PICK t \in Seq(Steps) :
        /\ t = Notify("IN2") \o Step("ToFsafe") \o Notify("IN2")
        /\ Begins(t, "hb") /\ ~Answers(t)
    BY SafeOpens
  <1>4. /\ UNCHANGED <<type4, db0, db3, registered, alive, mode, flags, panic>>
        /\ todo' = [todo EXCEPT !["qm"] = t]
        /\ eisr' = Clearing("qm", {"HB"}, eisr)
    BY <1>3 DEF TakeHeartbeatLoss, doorbellVars, cmeVars, sysVars, pgpeVars
  <1>5. t = todo'["qm"] /\ GSame
    BY <1>4 DEF TypeInv, TodoType, Processes, GSame
  <1>6. eisr'["qm"] = eisr["qm"] \ {"HB"}
    BY <1>4, BitViews DEF Bits
  <1>7. Begun(t, e)
    <2>1. Begun(Notify("IN2"), e)
      BY BegunScripts
    <2>2. Begun(Step("ToFsafe"), e)
      <3>1. \A k \in PlainKinds : <<k, "">> \in Steps
        BY DEF Steps
      <3>2. e \in Steps
        BY <3>1 DEF PlainKinds
      <3> QED BY <3>2, BegunFew DEF Step
    <2> HIDE DEF e
    <2>3. Begun(Notify("IN2") \o Step("ToFsafe"), e)
      BY <2>1, <2>2, BegunJoined
    <2> QED BY <1>3, <2>1, <2>3, BegunJoined
  <1>8. e[1] = "ToFsafe"
    OBVIOUS
  <1>9. Owed(e) /\ e[1] # "Db0Stop" /\ e # <<"SendAck", "suspended">>
    BY <1>2, <1>8, KindsOf DEF Owed, In0
  <1>10. Q1'[1] # "RegisterDb0"
    BY <1>3, <1>5 DEF Begins, Q1
  <1>11. (Db3Due' => Db3Due) /\ (Enabled' <=> Enabled) /\ ~Db0Due'
    BY <1>2, <1>4, <1>6, NoPgpe DEF Kept, Db3Due, Enabled, Due
  <1>12. Replies'
    <2> HIDE DEF e
    <2> QED BY <1>1, <1>4, <1>5, <1>7, <1>9, <1>10, <1>11, Interrupted
  <1> QED BY <1>4, <1>12

-----------------------------------------------------------------------------
(* The scripts of the PGPE keep to the form: R is what they lead to.       *)
Reaches(t, R) == /\ t \in Seq(Steps) /\ PForm(t)
                 /\ \A m : Becoming(m) \in StepsOf(t) <=> Becoming(m) \in StepsOf(R)
Added(t, x, s, R) == /\ t = <<x>> \o s /\ Reaches(t, R) /\ Item(t, 1) = x
                     /\ Item(t, 2) = Item(s, 1) /\ Item(t, 3) = Item(s, 2)
(* R may follow an acknowledgement, "ok".                                  *)
Onward(y) == Goes(y) /\ ~(y[1] = "Become" /\ y[2] = "stopped")
Acking(x, e, r, n) == /\ x[1] = "AwaitAck" /\ x[2].expected = e
                      /\ x[2].replay = r /\ x[2].nacked = n

LEMMA PEmpty == <<>> \in Seq(Steps) /\ Reaches(<<>>, <<>>) /\ Onward(Item(<<>>, 1))
  <1>1. PForm(<<>>)
    <2>1. 1 .. Len(<<>>) = {}
      OBVIOUS
    <2> QED BY <2>1, Zenon DEF PForm
  <1>2. Onward(Item(<<>>, 1))
    BY EmptyItems, NoEnd DEF Onward, Goes
  <1>3. <<>> \in Seq(Steps)
    OBVIOUS
  <1> QED BY <1>1, <1>2, <1>3 DEF Reaches

LEMMA PAdd ==
    ASSUME NEW x \in Steps, x[1] # "Become", NEW R, NEW s \in Seq(Steps), Reaches(s, R),
           PNext(x, Item(s, 1), Item(s, 2))
    PROVE  \E t \in Seq(Steps) : Added(t, x, s, R)
  <1>1. PForm(Cons(x, s))
    BY PCons DEF Reaches
  <1>2. /\ Cons(x, s) \in Seq(Steps) /\ Item(Cons(x, s), 1) = x
        /\ \A i \in Nat \ {0} : Item(Cons(x, s), i + 1) = Item(s, i)
        /\ StepsOf(Cons(x, s)) = {x} \union StepsOf(s)
    BY ConsItems, ZenonT(60)
  <1>3. Item(Cons(x, s), 2) = Item(s, 1) /\ Item(Cons(x, s), 3) = Item(s, 2)
    BY <1>2
  <1>4. \A m : Becoming(m) # x
    BY DEF Becoming
  <1>5. \A m : Becoming(m) \in StepsOf(Cons(x, s)) <=> Becoming(m) \in StepsOf(R)
    BY <1>2, <1>4 DEF Reaches
  <1>6. Added(Cons(x, s), x, s, R)
    BY <1>1, <1>2, <1>3, <1>5 DEF Added, Reaches, Cons
  <1> QED BY <1>2, <1>6

LEMMA AwaitStep ==
    ASSUME NEW e \in Acks, NEW r \in Db3Messages \union {"none"}, NEW n \in BOOLEAN
    PROVE  \E x \in Steps : Await(e, r, n) = <<x>> /\ Acking(x, e, r, n)
  <1>1. PICK a \in Awaited : a = [expected |-> e, replay |-> r, nacked |-> n]
                             /\ a.expected = e /\ a.replay = r /\ a.nacked = n
    <2>1. /\ [expected |-> e, replay |-> r, nacked |-> n] \in Awaited
          /\ [expected |-> e, replay |-> r, nacked |-> n].expected = e
          /\ [expected |-> e, replay |-> r, nacked |-> n].replay = r
          /\ [expected |-> e, replay |-> r, nacked |-> n].nacked = n
      BY DEF Awaited
    <2> QED BY <2>1, Zenon
  <1>2. <<"AwaitAck", a>> \in Steps /\ <<"AwaitAck", a>>[1] = "AwaitAck"
        /\ <<"AwaitAck", a>>[2] = a
    BY DEF Steps
  <1>3. Await(e, r, n) = <<<<"AwaitAck", a>>>>
    BY <1>1 DEF Await
  <1>4. Acking(<<"AwaitAck", a>>, e, r, n)
    BY <1>1, <1>2 DEF Acking
  <1> QED BY <1>2, <1>3, <1>4

(* The three answers that are waited for.                                  *)
Suits(y, e) == IF e = "suspended" THEN y = Becoming("stopped")
              ELSE IF e = "ok" THEN Onward(y) ELSE Goes(y) /\ y[1] # "Become"
Waits(e, r, n, t, R, s) ==
    /\ t = Await(e, r, n) \o s /\ Reaches(t, R)
    /\ Acking(Item(t, 1), e, r, n) /\ Item(t, 2) = Item(s, 1)
LEMMA PAwait ==
    ASSUME NEW e \in {"ok", "suspended", "unsuspended"}, NEW r \in Replayed \union {"none"},
           NEW n \in BOOLEAN, n => e = "ok", NEW R, NEW s \in Seq(Steps), Reaches(s, R),
           Suits(Item(s, 1), e)
    PROVE  \E t \in Seq(Steps) : Waits(e, r, n, t, R, s)
  <1>1. PICK x \in Steps : Await(e, r, n) = <<x>> /\ Acking(x, e, r, n)
    BY AwaitStep DEF Acks, Replayed, Db3Messages
  <1>2. PICK y : y = Item(s, 1)
    OBVIOUS
  <1>3. Goes(y)
    BY <1>2 DEF Suits, Onward, Goes, Becoming
  <1>4. y[1] \notin {"Write3", "PollDroop"}
    BY <1>3, NoEnd DEF Goes
  <1>5. y[1] = "Become" => Expect(x, IF y[2] = "stopped" THEN "suspended" ELSE "ok")
    BY <1>1, <1>2 DEF Suits, Onward, Becoming, Expect, Acking
  <1>6. PNext(x, y, Item(s, 2))
    <2>1. PFirst(x, y)
      BY <1>1, <1>2, <1>3 DEF PFirst, Acking, Suits, Writes3
    <2>2. PSecond(x, y, Item(s, 2))
      BY <1>4, <1>5 DEF PSecond, Writes3
    <2> QED BY <2>1, <2>2 DEF PNext
  <1>7. PICK t \in Seq(Steps) : Added(t, x, s, R)
    BY <1>1, <1>2, <1>6, PAdd DEF Acking
  <1> QED BY <1>1, <1>7 DEF Added, Waits

(* Doorbell 0 to both.                                                     *)
Tells(t, d, R, s) == /\ t = Write0(Cmes, d) \o s /\ Reaches(t, R)
                     /\ Writes0(Item(t, 1), d.msg)
                     /\ Item(t, 2) = Item(s, 1) /\ Item(t, 3) = Item(s, 2)
LEMMA PTells ==
    ASSUME NEW d \in Db0Messages, d.msg # "NONE", NEW R, NEW s \in Seq(Steps), Reaches(s, R),
           \/ Item(s, 1) = End
           \/ Expect(Item(s, 1), ReplyTo(d.msg)) /\ ~Item(s, 1)[2].nacked,
           d.msg = "START" => Repeats(Item(s, 1))
    PROVE  \E t \in Seq(Steps) : Tells(t, d, R, s)
  <1>1. PICK x \in Steps : Writing(x, "Write0", Cmes, d)
    <2>1. Cmes \in SUBSET Cmes
      OBVIOUS
    <2> QED BY <2>1, Write0Step, Zenon
  <1>2. Cmes # {"sib"}
    BY DEF Cmes
  <1>3. PICK y : y = Item(s, 1)
    OBVIOUS
  <1>4. y[1] \in {"none", "AwaitAck"}
    BY <1>3, NoEnd DEF Expect
  <1>5. PNext(x, y, Item(s, 2))
    <2>1. PFirst(x, y)
      BY <1>1, <1>2, <1>3 DEF PFirst, Writing, Writes3
    <2>2. PSecond(x, y, Item(s, 2))
      BY <1>4 DEF PSecond, Writes3
    <2> QED BY <2>1, <2>2 DEF PNext
  <1>6. PICK t \in Seq(Steps) : Added(t, x, s, R)
    BY <1>1, <1>3, <1>5, PAdd DEF Writing
  <1>7. Write0(Cmes, d) = <<x>>
    BY <1>1 DEF Write0, Writing
  <1>8. Writes0(x, d.msg)
    BY <1>1 DEF Writes0, Writing
  <1> QED BY <1>6, <1>7, <1>8 DEF Added, Tells

Told(t, d, R, s) == /\ t = Doorbell0(d) \o s /\ Reaches(t, R)
                    /\ Writes0(Item(t, 1), d.msg)
                    /\ Acking(Item(t, 2), "ok", "REPLAY", FALSE) /\ Item(t, 3) = Item(s, 1)
LEMMA PDoorbell0 ==
    ASSUME ~WritesApart, NEW d \in Db0Messages, d.msg \notin {"NONE", "STOP"}, NEW R,
           NEW s \in Seq(Steps), Reaches(s, R), Onward(Item(s, 1))
    PROVE  \E t \in Seq(Steps) : Told(t, d, R, s)
  <1>1. PICK u \in Seq(Steps) : Waits("ok", "REPLAY", FALSE, u, R, s)
    <2>1. Suits(Item(s, 1), "ok")
      BY DEF Suits
    <2>2. "REPLAY" \in Replayed \union {"none"} /\ FALSE \in BOOLEAN
      BY DEF Replayed
    <2> QED BY <2>1, <2>2, PAwait
  <1>2. PICK t \in Seq(Steps) : Tells(t, d, R, u)
    <2>1. Acking(Item(u, 1), "ok", "REPLAY", FALSE) /\ Reaches(u, R)
      BY <1>1 DEF Waits
    <2>2. Expect(Item(u, 1), ReplyTo(d.msg)) /\ ~Item(u, 1)[2].nacked /\ Repeats(Item(u, 1))
      BY <2>1 DEF Acking, Expect, ReplyTo, Repeats, Replayed
    <2>3. u \in Seq(Steps)
      BY <1>1
    <2> QED BY <2>1, <2>2, <2>3, PTells
  <1>3. t = Doorbell0(d) \o s
    <2>1. PICK a, b \in Seq(Steps) : a = Write0(Cmes, d) /\ b = Await("ok", "REPLAY", FALSE)
      <3>1. Write0(Cmes, d) \in Seq(Steps) /\ Await("ok", "REPLAY", FALSE) \in Seq(Steps)
        BY PgpeSteps DEF Acks, Db3Messages
      <3> QED BY <3>1
    <2>2. a \in Seq(Steps) /\ b \in Seq(Steps)
      BY <2>1
    <2>3. Join(Join(a, b), s) = Join(a, Join(b, s))
      BY <2>2, Joins
    <2> QED BY <1>1, <1>2, <2>1, <2>3 DEF Doorbell0, Unicast, Join, Waits, Tells
  <1> QED BY <1>1, <1>2, <1>3 DEF Told, Tells, Waits

LEMMA ToldOnward ==
    ASSUME NEW t, NEW d, NEW R, NEW s, Told(t, d, R, s), d.msg \in {"CLIP", "PMSR"}
    PROVE  Onward(Item(t, 1)) /\ Item(t, 1)[1] = "Write0"
  BY DEF Told, Writes0, Onward, Goes

LEMMA PStarts ==
    ASSUME ~WritesApart, NEW w \in Targets, NEW R, NEW s \in Seq(Steps), Reaches(s, R),
           Onward(Item(s, 1))
    PROVE  \E t \in Seq(Steps) : /\ t = StartPstates(w) \o s /\ Reaches(t, R)
                                 /\ Writes0(Item(t, 1), "START")
  <1>1. w.quadPstate \in Values /\ w.pmin \in Values /\ w.pmax \in Values
    BY DEF Targets, Values
  <1>2. /\ Message("START", "quadPstate", w.quadPstate) \in Db0Messages
        /\ Message("CLIP", "pmin", w.pmin) \in Db0Messages
        /\ Message("CLIP", "pmax", w.pmax) \in Db0Messages
    BY <1>1 DEF Message, Db0Messages
  <1>3. PICK d, c1, c2 \in Db0Messages :
            /\ d = Message("START", "quadPstate", w.quadPstate)
            /\ c1 = Message("CLIP", "pmin", w.pmin) /\ c2 = Message("CLIP", "pmax", w.pmax)
    BY <1>2
  <1>4. /\ d.msg = "START" /\ c1.msg = "CLIP" /\ c2.msg = "CLIP"
        /\ d \in Db0Messages /\ c1 \in Db0Messages /\ c2 \in Db0Messages
    BY <1>3 DEF Message
  <1>5. PICK u \in Seq(Steps) : Told(u, c2, R, s)
    BY <1>4, PDoorbell0
  <1>6. PICK v \in Seq(Steps) : Told(v, c1, R, u)
    <2>1. c1.msg \notin {"NONE", "STOP"} /\ u \in Seq(Steps) /\ Reaches(u, R)
      BY <1>4, <1>5 DEF Told
    <2>2. Onward(Item(u, 1))
      BY <1>4, <1>5, ToldOnward
    <2> QED BY <1>4, <2>1, <2>2, PDoorbell0
  <1>7. PICK t \in Seq(Steps) : Told(t, d, R, v)
    <2>1. d.msg \notin {"NONE", "STOP"} /\ v \in Seq(Steps) /\ Reaches(v, R)
      BY <1>4, <1>6 DEF Told
    <2>2. Onward(Item(v, 1))
      BY <1>4, <1>6, ToldOnward
    <2> QED BY <1>4, <2>1, <2>2, PDoorbell0
  <1>8. t = StartPstates(w) \o s
    <2>1. PICK x, y, z \in Seq(Steps) :
              x = Doorbell0(d) /\ y = Doorbell0(c1) /\ z = Doorbell0(c2)
      BY Doorbells
    <2>2. x \in Seq(Steps) /\ y \in Seq(Steps) /\ z \in Seq(Steps)
      BY <2>1
    <2>3. Join(y, z) \in Seq(Steps) /\ Join(Join(y, z), s) = Join(y, Join(z, s))
      BY <2>2, Joins
    <2>4. Join(Join(x, Join(y, z)), s) = Join(x, Join(Join(y, z), s))
      BY <2>2, <2>3, Joins
    <2>5. StartPstates(w) = Join(x, Join(y, z))
      BY <1>3, <2>1 DEF StartPstates, Clips, Join
    <2>6. t = Join(x, Join(y, Join(z, s)))
      BY <1>5, <1>6, <1>7, <2>1 DEF Join, Told
    <2> QED BY <2>3, <2>4, <2>5, <2>6 DEF Join
  <1> QED BY <1>4, <1>7, <1>8 DEF Told

(* Doorbell 3 to both.                                                     *)
Posts(t, m, R, s) == /\ t = Write3(m) \o s /\ Reaches(t, R)
                     /\ Writes3(Item(t, 1), "qm", m) /\ Writes3(Item(t, 2), "sib", m)
LEMMA PPosts ==
    ASSUME NEW m \in Db3Messages, NEW R, NEW s \in Seq(Steps), Reaches(s, R),
           IF m = "SUSPEND" THEN Item(s, 1)[1] = "PollDroop"
           ELSE Expect(Item(s, 1), ReplyTo3(m)),
           m \in Replayed => Repeats(Item(s, 1))
    PROVE  \E t \in Seq(Steps) : Posts(t, m, R, s)
  <1>1. "qm" \in Cmes /\ "sib" \in Cmes /\ "qm" # "sib"
    BY DEF Cmes
  <1>2. PICK x \in Steps : Writing(x, "Write3", "qm", m)
    BY <1>1, Write3Step
  <1>3. PICK z \in Steps : Writing(z, "Write3", "sib", m)
    BY <1>1, Write3Step
  <1>4. PICK y : y = Item(s, 1)
    OBVIOUS
  <1>5. y[1] = (IF m = "SUSPEND" THEN "PollDroop" ELSE "AwaitAck")
    BY <1>4 DEF Expect
  <1>6. PNext(z, y, Item(s, 2))
    <2>1. PFirst(z, y)
      BY <1>1, <1>3, <1>4 DEF PFirst, Writing, Writes3
    <2>2. PSecond(z, y, Item(s, 2))
      BY <1>3, <1>5 DEF PSecond, Writing, Writes3
    <2> QED BY <2>1, <2>2 DEF PNext
  <1>7. PICK u \in Seq(Steps) : Added(u, z, s, R)
    BY <1>3, <1>4, <1>6, PAdd DEF Writing
  <1>8. PNext(x, z, y)
    <2>1. PFirst(x, z)
      BY <1>1, <1>2, <1>3 DEF PFirst, Writing, Writes3
    <2>2. PSecond(x, z, y)
      BY <1>1, <1>2, <1>3 DEF PSecond, Writing, Writes3
    <2> QED BY <2>1, <2>2 DEF PNext
  <1>9. PICK t \in Seq(Steps) : Added(t, x, u, R)
    <2>1. x[1] # "Become" /\ u \in Seq(Steps)
      BY <1>2, <1>7 DEF Writing
    <2>2. Reaches(u, R) /\ Item(u, 1) = z /\ Item(u, 2) = y
      BY <1>4, <1>7 DEF Added
    <2> QED BY <1>8, <2>1, <2>2, PAdd
  <1>10. t = Write3(m) \o s
    BY <1>2, <1>3, <1>7, <1>9, TwoCons DEF Write3, Cons, Added, Writing
  <1>11. Writes3(Item(t, 1), "qm", m) /\ Writes3(Item(t, 2), "sib", m)
    BY <1>2, <1>3, <1>7, <1>9 DEF Added, Writing, Writes3
  <1> QED BY <1>9, <1>10, <1>11 DEF Posts, Added

LEMMA PUnthrottle ==
    ASSUME ~WritesApart, NEW R, NEW s \in Seq(Steps), Reaches(s, R), Onward(Item(s, 1))
    PROVE  \E t \in Seq(Steps) :
               /\ t = Unthrottle \o s /\ Reaches(t, R)
               /\ Writes3(Item(t, 1), "qm", "UNSUSPEND") /\ Item(t, 2)[1] = "Write3"
  <1>1. PICK d \in Db0Messages : d = Message("PMSR", "clear", 0) /\ d.msg = "PMSR"
    <2>1. Message("PMSR", "clear", 0) \in Db0Messages
      BY DEF Message, Db0Messages, Values
    <2>2. Message("PMSR", "clear", 0).msg = "PMSR"
      BY DEF Message
    <2> QED BY <2>1, <2>2
  <1>2. PICK u \in Seq(Steps) : Told(u, d, R, s)
    BY <1>1, PDoorbell0
  <1>3. PICK v \in Seq(Steps) : Waits("unsuspended", "none", FALSE, v, R, u)
    <2>1. Onward(Item(u, 1)) /\ Item(u, 1)[1] = "Write0"
      BY <1>1, <1>2, ToldOnward
    <2>2. Suits(Item(u, 1), "unsuspended") /\ Reaches(u, R) /\ u \in Seq(Steps)
      BY <1>2, <2>1 DEF Suits, Onward, Told
    <2> QED BY <2>2, PAwait
  <1>4. PICK t \in Seq(Steps) : Posts(t, "UNSUSPEND", R, v)
    <2>1. Acking(Item(v, 1), "unsuspended", "none", FALSE) /\ Reaches(v, R)
          /\ v \in Seq(Steps)
      BY <1>3 DEF Waits
    <2>2. Expect(Item(v, 1), ReplyTo3("UNSUSPEND")) /\ "UNSUSPEND" \in Db3Messages
          /\ "UNSUSPEND" \notin Replayed
      BY <2>1 DEF Expect, Acking, ReplyTo3, Db3Messages, Replayed
    <2> QED BY <2>1, <2>2, PPosts
  <1>5. t = Unthrottle \o s
    <2>1. PICK w, x \in Seq(Steps) : w = Write3("UNSUSPEND") /\ x = Doorbell0(d)
      BY PgpeSteps, Doorbells DEF Db3Messages
    <2>2. PICK a \in Seq(Steps) : a = Await("unsuspended", "none", FALSE)
      BY PgpeSteps DEF Acks
    <2>3. w \in Seq(Steps) /\ x \in Seq(Steps) /\ a \in Seq(Steps)
      BY <2>1, <2>2
    <2>4. Join(Join(Join(w, a), x), s) = Join(w, Join(a, Join(x, s)))
      BY <2>3, Join4
    <2>5. Unthrottle = Join(Join(w, a), x)
      BY <1>1, <2>1, <2>2 DEF Unthrottle, Join
    <2>6. t = Join(w, Join(a, Join(x, s)))
      BY <1>2, <1>3, <1>4, <2>1, <2>2 DEF Join, Posts, Waits, Told
    <2> QED BY <2>4, <2>5, <2>6 DEF Join
  <1>6. Item(t, 2)[1] = "Write3"
    BY <1>4 DEF Posts, Writes3
  <1> QED BY <1>4, <1>5, <1>6 DEF Posts

LEMMA PThrottle ==
    ASSUME NEW R, NEW s \in Seq(Steps), Reaches(s, R), NEW m \in Replayed,
           Writes3(Item(s, 1), "qm", m), Item(s, 2)[1] = "Write3"
    PROVE  \E t \in Seq(Steps) :
               /\ t = Throttle \o s /\ Reaches(t, R)
               /\ Writes3(Item(t, 1), "qm", "SUSPEND") /\ Item(t, 2)[1] = "Write3"
  <1>1. PICK x \in Steps : x = <<"PollDroop", "">> /\ x[1] = "PollDroop"
    <2>1. \A k \in PlainKinds : <<k, "">> \in Steps
      BY DEF Steps
    <2>2. <<"PollDroop", "">> \in Steps /\ <<"PollDroop", "">>[1] = "PollDroop"
      BY <2>1 DEF PlainKinds
    <2> QED BY <2>2
  <1>2. PNext(x, Item(s, 1), Item(s, 2))
    <2>1. PFirst(x, Item(s, 1))
      BY <1>1 DEF PFirst, Writes3
    <2>2. PSecond(x, Item(s, 1), Item(s, 2))
      <3>1. Item(s, 1)[1] = "Write3" /\ Item(s, 1)[2][1] = "qm"
        BY DEF Writes3
      <3> QED BY <1>1, <3>1 DEF PSecond, Writes3
    <2> QED BY <2>1, <2>2 DEF PNext
  <1>3. PICK u \in Seq(Steps) : Added(u, x, s, R)
    <2>1. x[1] # "Become" /\ x \in Steps
      BY <1>1
    <2> QED BY <1>2, <2>1, PAdd
  <1>4. PICK t \in Seq(Steps) : Posts(t, "SUSPEND", R, u)
    <2>1. Item(u, 1)[1] = "PollDroop" /\ Reaches(u, R) /\ u \in Seq(Steps)
      BY <1>1, <1>3 DEF Added
    <2>2. "SUSPEND" \in Db3Messages /\ "SUSPEND" \notin Replayed
      BY DEF Db3Messages, Replayed
    <2> QED BY <2>1, <2>2, PPosts
  <1>5. t = Throttle \o s
    <2>1. PICK w, p \in Seq(Steps) : w = Write3("SUSPEND") /\ p = <<x>>
      <3>1. Write3("SUSPEND") \in Seq(Steps)
        BY PgpeSteps DEF Db3Messages
      <3>2. <<x>> \in Seq(Steps)
        BY OneStep
      <3> QED BY <3>1, <3>2
    <2>2. w \in Seq(Steps) /\ p \in Seq(Steps)
      BY <2>1
    <2>3. Join(Join(w, p), s) = Join(w, Join(p, s))
      BY <2>2, Joins
    <2>4. Throttle = Join(w, p)
      BY <1>1, <2>1 DEF Throttle, Step, Join
    <2>5. t = Join(w, Join(p, s))
      BY <1>3, <1>4, <2>1 DEF Join, Posts, Added
    <2> QED BY <2>3, <2>4, <2>5 DEF Join
  <1>6. Item(t, 2)[1] = "Write3"
    BY <1>4 DEF Posts, Writes3
  <1> QED BY <1>4, <1>5, <1>6 DEF Posts

(* What follows a NACK.                                                    *)
Replays(first, m, t, R, s) ==
    /\ t = (first \o Write3(m) \o Await("ok", m, TRUE)) \o s /\ Reaches(t, R)
    /\ \E n \in {m, "SUSPEND"} : Writes3(Item(t, 1), "qm", n)
    /\ Item(t, 2)[1] = "Write3"
LEMMA PReplays ==
    ASSUME NEW R, NEW s \in Seq(Steps), Reaches(s, R), Onward(Item(s, 1)),
           NEW first \in Seq(Steps), first = <<>> \/ first = Throttle,
           NEW m \in Replayed
    PROVE  \E t \in Seq(Steps) : Replays(first, m, t, R, s)
  <1>0. m \in Db3Messages /\ m # "SUSPEND" /\ ReplyTo3(m) = "ok"
    BY DEF Replayed, Db3Messages, ReplyTo3
  <1>1. PICK u \in Seq(Steps) : Waits("ok", m, TRUE, u, R, s)
    <2>1. Suits(Item(s, 1), "ok")
      BY DEF Suits
    <2>2. m \in Replayed \union {"none"} /\ TRUE \in BOOLEAN
      OBVIOUS
    <2> QED BY <2>1, <2>2, PAwait
  <1>2. PICK v \in Seq(Steps) : Posts(v, m, R, u)
    <2>1. Acking(Item(u, 1), "ok", m, TRUE) /\ Reaches(u, R) /\ u \in Seq(Steps)
      BY <1>1 DEF Waits
    <2>2. Expect(Item(u, 1), ReplyTo3(m)) /\ Repeats(Item(u, 1))
      BY <1>0, <2>1 DEF Expect, Acking, Repeats
    <2> QED BY <1>0, <2>1, <2>2, PPosts
  <1>3. /\ Reaches(v, R) /\ v \in Seq(Steps)
        /\ Writes3(Item(v, 1), "qm", m) /\ Item(v, 2)[1] = "Write3"
    BY <1>2 DEF Posts, Writes3
  <1>4. PICK t \in Seq(Steps) :
            /\ t = first \o v /\ Reaches(t, R)
            /\ \E n \in {m, "SUSPEND"} : Writes3(Item(t, 1), "qm", n)
            /\ Item(t, 2)[1] = "Write3"
    <2>1. CASE first = <<>>
      BY <1>3, <2>1
    <2>2. CASE first = Throttle
      BY <1>3, <2>2, PThrottle
    <2> QED BY <2>1, <2>2
  <1>5. t = (first \o Write3(m) \o Await("ok", m, TRUE)) \o s
    <2>1. PICK w, a \in Seq(Steps) : w = Write3(m) /\ a = Await("ok", m, TRUE)
      <3>1. "ok" \in Acks /\ m \in Db3Messages \union {"none"} /\ TRUE \in BOOLEAN
        BY <1>0 DEF Acks
      <3>2. Write3(m) \in Seq(Steps) /\ Await("ok", m, TRUE) \in Seq(Steps)
        BY <1>0, <3>1, PgpeSteps
      <3> QED BY <3>2
    <2>2. w \in Seq(Steps) /\ a \in Seq(Steps)
      BY <2>1
    <2>3. Join(Join(Join(first, w), a), s) = Join(first, Join(w, Join(a, s)))
      BY <2>2, Join4
    <2>4. t = Join(first, Join(w, Join(a, s)))
      BY <1>1, <1>2, <1>4, <2>1 DEF Join, Waits, Posts
    <2> QED BY <2>1, <2>3, <2>4 DEF Join
  <1> QED BY <1>4, <1>5 DEF Replays

(* Doorbell 3 with a message in doorbell 0.                                *)
Carries(m, d, r, t, R, s) == /\ t = Doorbell3(m, d, r) \o s /\ Reaches(t, R)
                             /\ WritesQm(Item(t, 1))
LEMMA PCarries ==
    ASSUME NEW m \in {"HIGH", "CLIP", "ENTER_SAFE"}, NEW d \in Db0Messages, d.msg = "PAYLOAD",
           NEW r \in Replayed \union {"none"}, m = "ENTER_SAFE" => r \in Replayed,
           NEW R, NEW s \in Seq(Steps), Reaches(s, R), Onward(Item(s, 1))
    PROVE  \E t \in Seq(Steps) : Carries(m, d, r, t, R, s)
  <1>0. m \in Db3Messages /\ m # "SUSPEND" /\ ReplyTo3(m) = "ok" /\ (m \in Replayed => r \in Replayed)
    BY DEF Db3Messages, ReplyTo3, Replayed
  <1>1. /\ "qm" \in Cmes /\ "sib" \in Cmes /\ "qm" # "sib" /\ {"qm"} # {"sib"}
        /\ {"qm"} # Cmes /\ {"sib"} # Cmes
        /\ {"qm"} \in SUBSET Cmes /\ {"sib"} \in SUBSET Cmes
    <2>1. "qm" \in Cmes /\ "sib" \in Cmes /\ "qm" # "sib"
      BY DEF Cmes
    <2>2. "qm" \notin {"sib"} /\ "sib" \notin {"qm"}
      OBVIOUS
    <2>3. {"qm"} # Cmes /\ {"sib"} # Cmes /\ {"qm"} # {"sib"}
      BY <2>1, <2>2
    <2>4. {"qm"} \in SUBSET Cmes /\ {"sib"} \in SUBSET Cmes
      BY <2>1
    <2> QED BY <2>1, <2>3, <2>4
  <1>2. PICK x \in Steps : Writing(x, "Write3", "qm", m)
    BY <1>0, <1>1, Write3Step
  <1>3. PICK z \in Steps : Writing(z, "Write3", "sib", m)
    BY <1>0, <1>1, Write3Step
  <1>4. PICK f \in Steps : Writing(f, "Write0", {"qm"}, d)
    BY <1>1, Write0Step, Zenon
  <1>5. PICK g \in Steps : Writing(g, "Write0", {"sib"}, d)
    BY <1>1, Write0Step, Zenon
  <1>6. PICK a \in Seq(Steps) : Waits("ok", r, FALSE, a, R, s)
    BY PAwait DEF Suits
  <1>7. PICK v \in Seq(Steps) : Added(v, z, a, R)
    <2>1. z[1] # "Become" /\ a \in Seq(Steps) /\ Reaches(a, R)
      BY <1>3, <1>6 DEF Writing, Waits
    <2>2. PICK y : y = Item(a, 1)
      OBVIOUS
    <2>3. Acking(y, "ok", r, FALSE)
      BY <1>6, <2>2 DEF Waits
    <2>4. PFirst(z, y)
      BY <1>0, <1>1, <1>3, <2>3 DEF PFirst, Writing, Writes3, Acking, Expect, Repeats
    <2>5. PSecond(z, y, Item(a, 2))
      BY <2>3 DEF PSecond, Writes3, Acking
    <2>6. PNext(z, Item(a, 1), Item(a, 2))
      BY <2>2, <2>4, <2>5 DEF PNext
    <2> QED BY <2>1, <2>6, PAdd
  <1>8. PICK w \in Seq(Steps) : Added(w, g, v, R)
    <2>1. /\ g[1] # "Become" /\ v \in Seq(Steps) /\ Reaches(v, R)
          /\ Item(v, 1) = z
      BY <1>5, <1>7 DEF Writing, Added
    <2>2. PFirst(g, z)
      BY <1>1, <1>3, <1>5 DEF PFirst, Writing, Writes3
    <2>3. PSecond(g, z, Item(v, 2))
      BY <1>0, <1>1, <1>3 DEF PSecond, Writing, Writes3
    <2>4. PNext(g, Item(v, 1), Item(v, 2))
      BY <2>1, <2>2, <2>3 DEF PNext
    <2> QED BY <2>1, <2>4, PAdd
  <1>9. PICK u \in Seq(Steps) : Added(u, x, w, R)
    <2>1. /\ x[1] # "Become" /\ w \in Seq(Steps) /\ Reaches(w, R)
          /\ Item(w, 1) = g
      BY <1>2, <1>8 DEF Writing, Added
    <2>2. PFirst(x, g)
      BY <1>0, <1>1, <1>2 DEF PFirst, Writing, Writes3
    <2>3. PSecond(x, g, Item(w, 2))
      BY <1>5 DEF PSecond, Writing, Writes3
    <2>4. PNext(x, Item(w, 1), Item(w, 2))
      BY <2>1, <2>2, <2>3 DEF PNext
    <2> QED BY <2>1, <2>4, PAdd
  <1>10. PICK t \in Seq(Steps) : Added(t, f, u, R)
    <2>1. /\ f[1] # "Become" /\ u \in Seq(Steps) /\ Reaches(u, R)
          /\ Item(u, 1) = x
      BY <1>4, <1>9 DEF Writing, Added
    <2>2. PFirst(f, x)
      BY <1>4, <1>1 DEF Writing, PFirst, Writes3
    <2>3. PSecond(f, x, Item(u, 2))
      <3>1. WritesQm(f)
        BY <1>4 DEF Writing, WritesQm
      <3>2. x[1] = "Write3" /\ x[2][1] = "qm"
        BY <1>2 DEF Writing
      <3> QED BY <1>1, <3>1, <3>2 DEF PSecond, Writes3
    <2>4. PNext(f, Item(u, 1), Item(u, 2))
      BY <2>1, <2>2, <2>3 DEF PNext
    <2> QED BY <2>1, <2>4, PAdd
  <1>11. t = Doorbell3(m, d, r) \o s
    <2>1. PICK ff, xx, gg, zz \in Seq(Steps) :
              ff = <<f>> /\ xx = <<x>> /\ gg = <<g>> /\ zz = <<z>>
      BY OneStep
    <2>2. PICK aa \in Seq(Steps) : aa = Await("ok", r, FALSE)
      BY PgpeSteps DEF Acks, Replayed, Db3Messages
    <2>3. Join(Join(Join(Join(Join(ff, xx), gg), zz), aa), s)
          = Join(ff, Join(xx, Join(gg, Join(zz, Join(aa, s)))))
      <3>1. /\ ff \in Seq(Steps) /\ xx \in Seq(Steps) /\ gg \in Seq(Steps)
            /\ zz \in Seq(Steps) /\ aa \in Seq(Steps) /\ s \in Seq(Steps)
        BY <2>1, <2>2
      <3>2. /\ Join(ff, xx) \in Seq(Steps) /\ Join(zz, Join(aa, s)) \in Seq(Steps)
        BY <3>1, Joins
      <3>3. PICK e, h \in Seq(Steps) :
                e = Join(Join(ff, xx), gg) /\ h = Join(zz, Join(aa, s))
        BY <3>1, <3>2, Joins
      <3>4. e \in Seq(Steps) /\ h \in Seq(Steps)
        BY <3>3
      <3>5. Join(Join(Join(e, zz), aa), s) = Join(e, h)
        <4>1. Join(Join(Join(e, zz), aa), s) = Join(e, Join(zz, Join(aa, s)))
          BY <3>1, <3>4, Join4
        <4> QED BY <3>3, <4>1
      <3>6. Join(Join(Join(ff, xx), gg), h) = Join(ff, Join(xx, Join(gg, h)))
        BY <3>1, <3>4, Join4
      <3> QED BY <3>3, <3>5, <3>6
    <2>4. t = Join(ff, Join(xx, Join(gg, Join(zz, Join(aa, s)))))
      BY <1>6, <1>7, <1>8, <1>9, <1>10, <2>1, <2>2 DEF Added, Waits, Join
    <2>5. Doorbell3(m, d, r) = Join(Join(Join(Join(ff, xx), gg), zz), aa)
      BY <1>2, <1>3, <1>4, <1>5, <2>1, <2>2 DEF Doorbell3, Write0, Join, Writing
    <2> QED BY <2>3, <2>4, <2>5 DEF Join
  <1>12. WritesQm(Item(t, 1))
    BY <1>4, <1>10 DEF Added, Writing, WritesQm
  <1> QED BY <1>10, <1>11, <1>12 DEF Added, Carries

LEMMA PBecomes ==
    ASSUME NEW m \in {"stopped", "active", "safe"}
    PROVE  \E s \in Seq(Steps) :
               /\ s = Becomes(m) /\ Reaches(s, s) /\ Item(s, 1) = Becoming(m)
               /\ \A j : Becoming(j) \in StepsOf(s) <=> j = m
  <1>1. Becoming(m) \in Steps /\ Becoming(m)[1] = "Become" /\ Becoming(m)[2] = m
    BY DEF Becoming, Steps
  <1>2. PNext(Becoming(m), End, End)
    <2>1. PFirst(Becoming(m), End)
      BY <1>1 DEF PFirst, Writes3
    <2>2. PSecond(Becoming(m), End, End)
      BY NoEnd DEF PSecond, Writes3
    <2> QED BY <2>1, <2>2 DEF PNext
  <1>3. <<>> \in Seq(Steps) /\ Item(<<>>, 1) = End /\ Item(<<>>, 2) = End /\ StepsOf(<<>>) = {}
        /\ PForm(<<>>)
    BY EmptyItems, PEmpty DEF Reaches
  <1>4. PForm(Cons(Becoming(m), <<>>))
    BY <1>1, <1>2, <1>3, PCons
  <1>5. /\ Cons(Becoming(m), <<>>) \in Seq(Steps)
        /\ Item(Cons(Becoming(m), <<>>), 1) = Becoming(m)
        /\ StepsOf(Cons(Becoming(m), <<>>)) = {Becoming(m)}
    <2>1. PICK x \in Steps : x = Becoming(m)
      BY <1>1
    <2>2. PICK e \in Seq(Steps) : e = <<>> /\ StepsOf(e) = {}
      BY <1>3
    <2>3. Cons(x, e) \in Seq(Steps) /\ Item(Cons(x, e), 1) = x
          /\ StepsOf(Cons(x, e)) = {x} \union StepsOf(e)
      BY ConsItems
    <2> QED BY <2>1, <2>2, <2>3
  <1>6. Cons(Becoming(m), <<>>) = Becomes(m)
    <2>1. <<Becoming(m)>> \in Seq(Steps)
      BY <1>1, OneStep
    <2>2. <<Becoming(m)>> \o <<>> = <<Becoming(m)>>
      BY <2>1, Concat
    <2> QED BY <2>2 DEF Cons, Becomes, Becoming
  <1>7. \A j : Becoming(j) = Becoming(m) <=> j = m
    BY DEF Becoming
  <1> QED BY <1>4, <1>5, <1>6, <1>7 DEF Reaches

LEMMA BecomesOnward ==
    ASSUME NEW y, NEW m \in {"active", "safe"}, y = Becoming(m)
    PROVE  Onward(y)
  BY DEF Onward, Goes, Becoming

(* What an operation does first, and what it leads to.                     *)
EndsIn(op) == CASE op = "start" -> {"active"} [] op = "stop" -> {"stopped"}
              [] op = "safe" -> {"safe"} [] OTHER -> {}
Opens(op, x, y) ==
    \/ op = "start" /\ Writes0(x, "START")
    \/ op = "stop" /\ Writes0(x, "STOP")
    \/ op = "freq" /\ Writes0(x, "GLB")
    \/ op \in {"high", "clip", "safe"} /\ WritesQm(x)
    \/ op = "handoff" /\ Writes3(x, "qm", "HANDOFF") /\ y[1] = "Write3"
Performs(t, op) == /\ PForm(t) /\ Opens(op, Item(t, 1), Item(t, 2))
                   /\ \A m : Becoming(m) \in StepsOf(t) <=> m \in EndsIn(op)
LEMMA PProtocol ==
    ASSUME ~WritesApart, NEW op \in AllOperations, NEW field \in Fields(op), NEW w \in Targets
    PROVE  Performs(Protocol(op, field, w), op)
  <1>0. <<>> \in Seq(Steps) /\ Reaches(<<>>, <<>>) /\ Onward(Item(<<>>, 1))
        /\ StepsOf(<<>>) = {}
    BY PEmpty, EmptyItems
  <1>1. w.quadPstate \in Values
    BY DEF Targets, Values
  <1>2. PICK p \in Db0Messages : /\ p = Payload("quadPstate", w.quadPstate)
                                 /\ p.msg = "PAYLOAD"
    <2>1. /\ Payload("quadPstate", w.quadPstate) \in Db0Messages
          /\ Payload("quadPstate", w.quadPstate).msg = "PAYLOAD"
      BY <1>1 DEF Payload, Message, Db0Messages
    <2> QED BY <2>1
  <1>3. p \in Db0Messages /\ p.msg = "PAYLOAD"
    BY <1>2
  <1>4. PICK a \in Seq(Steps) : Waits("ok", "REPLAY", FALSE, a, <<>>, <<>>)
    <2>1. Suits(Item(<<>>, 1), "ok")
      BY <1>0 DEF Suits
    <2>2. "REPLAY" \in Replayed \union {"none"} /\ FALSE \in BOOLEAN
      BY DEF Replayed
    <2> QED BY <1>0, <2>1, <2>2, PAwait
  <1>5. /\ a \in Seq(Steps) /\ Reaches(a, <<>>) /\ a = Await("ok", "REPLAY", FALSE)
        /\ Acking(Item(a, 1), "ok", "REPLAY", FALSE)
    <2>1. Await("ok", "REPLAY", FALSE) \in Seq(Steps)
      BY PgpeSteps DEF Acks, Db3Messages
    <2>2. Await("ok", "REPLAY", FALSE) \o <<>> = Await("ok", "REPLAY", FALSE)
      BY <2>1, Concat
    <2> QED BY <1>4, <2>2 DEF Waits
  <1>6. CASE op = "start"
    <2>1. PICK b \in Seq(Steps) : /\ b = Becomes("active") /\ Reaches(b, b)
                                  /\ Item(b, 1) = Becoming("active")
                                  /\ \A j : Becoming(j) \in StepsOf(b) <=> j = "active"
      BY PBecomes
    <2>2. b \in Seq(Steps) /\ Onward(Item(b, 1))
      BY <2>1, BecomesOnward
    <2>3. PICK t \in Seq(Steps) : /\ t = StartPstates(w) \o b /\ Reaches(t, b)
                                  /\ Writes0(Item(t, 1), "START")
      BY <2>1, <2>2, PStarts
    <2>4. Protocol(op, field, w) = t
      BY <1>6, <2>1, <2>3 DEF Protocol
    <2>5. EndsIn(op) = {"active"}
      BY <1>6 DEF EndsIn
    <2>6. \A m : Becoming(m) \in StepsOf(t) <=> m \in EndsIn(op)
      BY <2>1, <2>3, <2>5 DEF Reaches
    <2>7. PForm(t) /\ Opens(op, Item(t, 1), Item(t, 2))
      BY <1>6, <2>3 DEF Reaches, Opens
    <2> QED BY <2>4, <2>6, <2>7 DEF Performs
  <1>7. CASE op = "freq"
    <2>1. PICK d \in Db0Messages : /\ d = Message("GLB", "quadPstate", w.quadPstate)
                                   /\ d.msg = "GLB"
      <3>1. /\ Message("GLB", "quadPstate", w.quadPstate) \in Db0Messages
            /\ Message("GLB", "quadPstate", w.quadPstate).msg = "GLB"
        BY <1>1 DEF Message, Db0Messages
      <3> QED BY <3>1
    <2>2. d \in Db0Messages /\ d.msg # "NONE" /\ d.msg # "START"
      BY <2>1
    <2>3. PICK t \in Seq(Steps) : Tells(t, d, <<>>, a)
      BY <1>5, <2>1, <2>2, PTells DEF Acking, Expect, ReplyTo
    <2>4. Protocol(op, field, w) = t
      BY <1>5, <1>7, <2>1, <2>3 DEF Protocol, Multicast, Tells
    <2> QED BY <1>0, <1>7, <2>1, <2>3, <2>4 DEF Performs, Opens, EndsIn, Reaches, Tells
  <1>8. CASE op = "high"
    <2>1. PICK t \in Seq(Steps) : Carries("HIGH", p, "REPLAY", t, <<>>, <<>>)
      BY <1>0, <1>3, PCarries DEF Replayed
    <2>2. Doorbell3("HIGH", p, "REPLAY") \in Seq(Steps)
      BY <1>3, Doorbells DEF Db3Messages
    <2>3. t = Doorbell3("HIGH", p, "REPLAY")
      BY <2>1, <2>2, Concat DEF Carries
    <2>4. Protocol(op, field, w) = t
      BY <1>2, <1>8, <2>3 DEF Protocol
    <2> QED BY <1>0, <1>8, <2>1, <2>4 DEF Performs, Opens, EndsIn, Reaches, Carries
  <1>9. CASE op = "clip"
    <2>1. field \in {"pmin", "pmax"}
      BY <1>9 DEF Fields
    <2>2. w[field] \in Values
      BY <2>1 DEF Targets, Values
    <2>3. PICK d \in Db0Messages : d = Payload(field, w[field]) /\ d.msg = "PAYLOAD"
      <3>1. /\ Payload(field, w[field]) \in Db0Messages
            /\ Payload(field, w[field]).msg = "PAYLOAD"
        BY <2>1, <2>2 DEF Payload, Message, Db0Messages
      <3> QED BY <3>1
    <2>4. d \in Db0Messages /\ d.msg = "PAYLOAD"
      BY <2>3
    <2>5. PICK t \in Seq(Steps) : Carries("CLIP", d, "none", t, <<>>, <<>>)
      BY <1>0, <2>4, PCarries
    <2>6. Doorbell3("CLIP", d, "none") \in Seq(Steps)
      BY <2>4, Doorbells DEF Db3Messages
    <2>7. t = Doorbell3("CLIP", d, "none")
      BY <2>5, <2>6, Concat DEF Carries
    <2>8. Protocol(op, field, w) = t
      BY <1>9, <2>3, <2>7 DEF Protocol
    <2> QED BY <1>0, <1>9, <2>5, <2>8 DEF Performs, Opens, EndsIn, Reaches, Carries
  <1>10. CASE op = "stop"
    <2>1. PICK b \in Seq(Steps) : /\ b = Becomes("stopped") /\ Reaches(b, b)
                                  /\ Item(b, 1) = Becoming("stopped")
                                  /\ \A j : Becoming(j) \in StepsOf(b) <=> j = "stopped"
      BY PBecomes
    <2>2. b \in Seq(Steps) /\ Suits(Item(b, 1), "suspended")
      BY <2>1 DEF Suits
    <2>3. PICK u \in Seq(Steps) : Waits("suspended", "REPLAY", FALSE, u, b, b)
      BY <2>1, <2>2, PAwait DEF Replayed
    <2>4. PICK d \in Db0Messages : d = Message("STOP", "none", 0) /\ d.msg = "STOP"
      <3>1. Message("STOP", "none", 0) \in Db0Messages /\ Message("STOP", "none", 0).msg = "STOP"
        BY DEF Message, Db0Messages, Values
      <3> QED BY <3>1
    <2>5. d \in Db0Messages /\ d.msg # "NONE" /\ d.msg # "START"
      BY <2>4
    <2>6. PICK t \in Seq(Steps) : Tells(t, d, b, u)
      <3>1. Acking(Item(u, 1), "suspended", "REPLAY", FALSE) /\ Reaches(u, b)
            /\ u \in Seq(Steps)
        BY <2>3 DEF Waits
      <3>2. Expect(Item(u, 1), ReplyTo(d.msg)) /\ ~Item(u, 1)[2].nacked
        BY <2>4, <3>1 DEF Acking, Expect, ReplyTo
      <3> QED BY <2>5, <3>1, <3>2, PTells
    <2>7. Protocol(op, field, w) = t
      <3>1. PICK x, c \in Seq(Steps) :
                x = Write0(Cmes, d) /\ c = Await("suspended", "REPLAY", FALSE)
        <4>1. /\ "suspended" \in Acks /\ "REPLAY" \in Db3Messages \union {"none"}
              /\ Cmes \in SUBSET Cmes /\ FALSE \in BOOLEAN
          BY DEF Acks, Db3Messages
        <4>2. /\ Write0(Cmes, d) \in Seq(Steps)
              /\ Await("suspended", "REPLAY", FALSE) \in Seq(Steps)
          BY <2>5, <4>1, PgpeSteps
        <4> QED BY <4>2
      <3>2. x \in Seq(Steps) /\ c \in Seq(Steps)
        BY <3>1
      <3>3. Join(Join(x, c), b) = Join(x, Join(c, b))
        BY <2>2, <3>2, Joins
      <3>4. Protocol(op, field, w) = Join(Join(x, c), b)
        BY <1>10, <2>1, <2>4, <3>1 DEF Protocol, Unicast, Join
      <3> QED BY <2>3, <2>6, <3>1, <3>3, <3>4 DEF Join, Waits, Tells
    <2> QED BY <1>10, <2>1, <2>4, <2>6, <2>7 DEF Performs, Opens, EndsIn, Reaches, Tells
  <1>11. CASE op = "safe"
    <2>1. PICK b \in Seq(Steps) : /\ b = Becomes("safe") /\ Reaches(b, b)
                                  /\ Item(b, 1) = Becoming("safe")
                                  /\ \A j : Becoming(j) \in StepsOf(b) <=> j = "safe"
      BY PBecomes
    <2>2. b \in Seq(Steps) /\ Onward(Item(b, 1))
      BY <2>1, BecomesOnward
    <2>3. PICK t \in Seq(Steps) : Carries("ENTER_SAFE", p, "ENTER_SAFE", t, b, b)
      BY <1>3, <2>1, <2>2, PCarries DEF Replayed
    <2>4. Protocol(op, field, w) = t
      BY <1>2, <1>11, <2>1, <2>3 DEF Protocol, Carries
    <2> QED BY <1>11, <2>1, <2>3, <2>4 DEF Performs, Opens, EndsIn, Reaches, Carries
  <1>12. CASE op = "handoff"
    <2>1. PICK t \in Seq(Steps) : Posts(t, "HANDOFF", <<>>, a)
      BY <1>5, PPosts DEF Db3Messages, Replayed, Expect, Acking, ReplyTo3
    <2>2. Protocol(op, field, w) = t
      BY <1>5, <1>12, <2>1 DEF Protocol, Posts
    <2>3. Item(t, 2)[1] = "Write3"
      BY <2>1 DEF Posts, Writes3
    <2> QED BY <1>0, <1>12, <2>1, <2>2, <2>3 DEF Performs, Opens, EndsIn, Reaches, Posts
  <1> QED BY <1>6, <1>7, <1>8, <1>9, <1>10, <1>11, <1>12 DEF AllOperations

(* A broadcast that nobody answers.                                        *)
LEMMA PBroadcast ==
    ASSUME NEW d \in Db0Messages, d.msg = "GLB"
    PROVE  /\ PForm(Write0(Cmes, d))
           /\ \A m : Becoming(m) \notin StepsOf(Write0(Cmes, d))
           /\ Writes0(Item(Write0(Cmes, d), 1), "GLB")
  <1>1. PICK t \in Seq(Steps) : Tells(t, d, <<>>, <<>>)
    BY PEmpty, EmptyItems, PTells
  <1>2. t = Write0(Cmes, d)
    <2>1. Write0(Cmes, d) \in Seq(Steps)
      BY PgpeSteps
    <2> QED BY <1>1, <2>1, Concat DEF Tells
  <1> QED BY <1>1, <1>2, EmptyItems DEF Tells, Reaches

-----------------------------------------------------------------------------
(* The PGPE.  Where nothing is due when it has done its step, only what it *)
(* is to do itself is to be shown.                                         *)
LEMMA GReplies ==
    ASSUME TypeInv', Kept', Replies, QSame, Enabled' <=> Enabled, alive' => alive,
           GPart', ~Due'
    PROVE  Replies'
  <1>1. RQ' = RQ /\ Q1' = Q1
    BY SamesViews
  <1>2. \A y \in RQ' : y[1] = "ToFsafe" => ~alive'
    BY <1>1 DEF Replies, R1, Owed
  <1>3. R2'
    BY <1>1 DEF Replies, QSame, R2
  <1>4. Forms'
    BY DEF Kept
  <1> QED BY <1>2, <1>3, <1>4, NothingDue

(* It neither awaits an answer nor has posted half of a doorbell 3.        *)
LEMMA Unawaited ==
    ASSUME Kept', G1'[1] # "AwaitAck", ~(G1'[1] = "Write3" /\ G1'[2][1] = "sib"),
           ~(G1'[1] = "Write0" /\ G1'[2][1] = {"sib"})
    PROVE  ~Due'
  <1>1. ~Awaiting' /\ ~Half'
    BY DEF Awaiting, Half, HalfM, Writes3
  <1>2. Exchange'
    BY DEF Kept
  <1> QED BY <1>1, <1>2, NotDue

(* When it is idle, and so when it begins.                                 *)
LEMMA IdlePgpe ==
    ASSUME TypeInv, Idle("pgpe")
    PROVE  /\ G1 = End /\ RG = {} /\ G1[1] = "none" /\ ~Starting
           /\ \A e : ~Expect(G1, e)
  <1>1. G1 = End /\ G1[1] = "none"
    BY IdleViews, NoEnd
  <1>2. RG = {}
    BY <1>1, PgpeHeads
  <1> QED BY <1>1, <1>2 DEF Starting, Expect, Writes0, Repeats

LEMMA OpensFirst ==
    ASSUME NEW op, NEW x, NEW y, Opens(op, x, y)
    PROVE  /\ x[1] \in {"Write0", "Write3"}
           /\ x[1] = "Write3" => x[2][1] = "qm" /\ x[2][2] = "HANDOFF" /\ y[1] = "Write3"
           /\ ~(x[1] = "Write0" /\ x[2][1] = {"sib"})
           /\ ~(x[1] = "Write3" /\ x[2][1] = "sib")
           /\ ~Writes0(x, "REGISTER_DONE")
           /\ WritesQm(x) => op \in {"high", "clip", "safe"}
           /\ Writes0(x, "START") => op = "start"
           /\ Writes0(x, "STOP") => op = "stop"
           /\ op = "start" => Writes0(x, "START")
           /\ op = "stop" => Writes0(x, "STOP")
  <1>1. Cmes # {"sib"} /\ Cmes # {"qm"} /\ {"qm"} # {"sib"} /\ "qm" # "sib"
    BY DEF Cmes
  <1>2. CASE op \in {"start", "stop", "freq"}
    BY <1>1, <1>2 DEF Opens, Writes0, WritesQm, Writes3
  <1>3. CASE op \in {"high", "clip", "safe"}
    BY <1>1, <1>3 DEF Opens, Writes0, WritesQm, Writes3
  <1>4. CASE op = "handoff"
    BY <1>1, <1>4 DEF Opens, Writes0, WritesQm, Writes3
  <1> QED BY <1>2, <1>3, <1>4 DEF Opens

LEMMA RepliesOperate ==
    ASSUME ~WritesApart, TypeInv, TypeInv', Kept, Kept', Replies, NEW op \in AllOperations,
           Operate(op)
    PROVE  Replies' /\ panic' = panic
  <1>1. /\ Idle("pgpe") /\ alive /\ registered /\ type4 = "none" /\ mode = InMode[op]
        /\ UNCHANGED <<eisr, db0, db3, flags, alive, type4, registered, mode, panic>>
    BY DEF Operate, PgpeFree, irqVars, doorbellVars, cmeVars
  <1>2. PICK field \in Fields(op), w \in Targets :
            todo' = [todo EXCEPT !["pgpe"] = Protocol(op, field, w)]
    BY DEF Operate
  <1>3. /\ todo'["pgpe"] = Protocol(op, field, w) /\ QSame
    BY <1>2 DEF TypeInv, TodoType, QSame, Processes
  <1>4. Performs(Protocol(op, field, w), op)
    BY PProtocol
  <1>5. /\ PForm(todo["pgpe"])' /\ Opens(op, G1', G2')
        /\ \A m : Becoming(m) \in RG' <=> m \in EndsIn(op)
    BY <1>3, <1>4 DEF Performs, G1, G2, RG
  <1>6. PICK x, y : x = G1' /\ y = G2'
    OBVIOUS
  <1>7. /\ x[1] \in {"Write0", "Write3"}
        /\ x[1] = "Write3" => x[2][1] = "qm" /\ x[2][2] = "HANDOFF" /\ y[1] = "Write3"
        /\ ~(x[1] = "Write0" /\ x[2][1] = {"sib"})
        /\ ~(x[1] = "Write3" /\ x[2][1] = "sib")
        /\ ~Writes0(x, "REGISTER_DONE")
        /\ WritesQm(x) => op \in {"high", "clip", "safe"}
        /\ Writes0(x, "START") => op = "start"
        /\ Writes0(x, "STOP") => op = "stop"
        /\ op = "start" => Writes0(x, "START")
        /\ op = "stop" => Writes0(x, "STOP")
    BY <1>5, <1>6, OpensFirst
  <1>8. G1 = End /\ RG = {} /\ G1[1] = "none" /\ ~Starting
    BY <1>1, IdlePgpe
  <1>9. (op = "start" => mode = "stopped") /\ (op # "start" => mode # "stopped")
        /\ (op \in {"stop", "safe"} => mode = "active")
    BY <1>1 DEF InMode, AllOperations
  <1>10. R5 /\ R4
    BY DEF Replies, GPart
  <1>11. (op = "start" => ~Enabled) /\ (op # "start" => Enabled)
    BY <1>1, <1>8, <1>9, <1>10 DEF R5
  <1>12. ~Due'
    BY <1>6, <1>7, Unawaited
  <1>13. Msg0' = Msg0 /\ (Enabled' <=> Enabled)
    BY <1>1 DEF Msg0, Enabled
  <1>14. R3'
    BY <1>1 DEF R3
  <1>15. R4'
    BY <1>1, <1>6, <1>7, <1>10, <1>11, <1>13 DEF LockLike, R4
  <1>16. R5'
    <2>1. /\ "active" \in EndsIn(op) <=> op = "start"
          /\ "stopped" \in EndsIn(op) <=> op = "stop"
          /\ "safe" \in EndsIn(op) <=> op = "safe"
      BY DEF EndsIn, AllOperations
    <2>2. op = "start" => Starting'
      BY <1>6, <1>7, <1>11, <1>13 DEF Starting
    <2> QED BY <1>1, <1>5, <1>6, <1>7, <1>9, <1>11, <1>13, <2>1, <2>2 DEF R5
  <1>17. GPart'
    BY <1>5, <1>14, <1>15, <1>16 DEF GPart
  <1> QED BY <1>1, <1>3, <1>12, <1>13, <1>17, GReplies

LEMMA RepliesElsewhere ==
    ASSUME TypeInv, TypeInv', Kept, Kept', Replies, OperateElsewhere("freq")
    PROVE  Replies' /\ panic' = panic
  <1>1. /\ Idle("pgpe") /\ alive /\ ~registered /\ type4 = "none" /\ mode' = mode
        /\ UNCHANGED <<eisr, db0, db3, flags, alive, type4, registered, panic>>
        /\ todo' = [todo EXCEPT !["pgpe"] =
                       Multicast(Message("GLB", "quadPstate", wanted.quadPstate))]
    BY DEF OperateElsewhere, PgpeFree, irqVars, doorbellVars, cmeVars
  <1>2. PICK d \in Db0Messages : /\ d = Message("GLB", "quadPstate", wanted.quadPstate)
                                 /\ d.msg = "GLB"
    <2>1. wanted.quadPstate \in Values
      BY DEF TypeInv, PgpeType, Targets, Values
    <2>2. /\ Message("GLB", "quadPstate", wanted.quadPstate) \in Db0Messages
          /\ Message("GLB", "quadPstate", wanted.quadPstate).msg = "GLB"
      BY <2>1 DEF Message, Db0Messages
    <2> QED BY <2>2
  <1>3. todo'["pgpe"] = Write0(Cmes, d) /\ QSame
    BY <1>1, <1>2 DEF TypeInv, TodoType, QSame, Processes, Multicast
  <1>4. /\ PForm(Write0(Cmes, d))
        /\ Writes0(Item(Write0(Cmes, d), 1), "GLB")
    BY <1>2, PBroadcast
  <1>5. PForm(todo["pgpe"])' /\ Writes0(G1', "GLB")
    BY <1>3, <1>4 DEF G1
  <1>6. Msg0' = Msg0 /\ (Enabled' <=> Enabled)
    BY <1>1 DEF Msg0, Enabled
  <1>7. Cmes # {"sib"} /\ Cmes # {"qm"}
    BY DEF Cmes
  <1>8. ~Due'
    BY <1>5, <1>7, Unawaited DEF Writes0
  <1>9. R3' /\ R5'
    BY <1>1 DEF R3, R5
  <1>10. R4'
    BY <1>1, <1>5, <1>6, <1>7 DEF R4, Replies, GPart, Writes0, WritesQm
  <1>11. GPart'
    BY <1>5, <1>9, <1>10 DEF GPart
  <1> QED BY <1>1, <1>3, <1>6, <1>8, <1>11, GReplies

LEMMA RepliesRegistration ==
    ASSUME ~WritesApart, TypeInv, TypeInv', Kept, Kept', Replies, ProcessRegistration
    PROVE  Replies' /\ panic' = panic
  <1>1. /\ Idle("pgpe") /\ alive /\ type4 = "available"
        /\ UNCHANGED <<eisr, db0, db3, flags, alive, mode>>
    BY DEF ProcessRegistration, PgpeFree, irqVars, doorbellVars, cmeVars
  <1>2. ~registered /\ ~HasReg
    BY <1>1 DEF Kept, Exchange, E2a
  <1>3. /\ type4' = "none" /\ registered' = TRUE /\ panic' = panic
        /\ todo' = [todo EXCEPT !["pgpe"] =
                       IF mode = "active" THEN StartPstates(wanted)
                       ELSE Doorbell0(Message("REGISTER_DONE", "none", 0))]
    BY <1>2 DEF ProcessRegistration
  <1>4. ~Enabled /\ mode \in {"active", "stopped"}
    BY <1>2 DEF Kept, Exchange, E5, Enabled
  <1>5. <<>> \in Seq(Steps) /\ Reaches(<<>>, <<>>) /\ Onward(Item(<<>>, 1))
        /\ StepsOf(<<>>) = {} /\ Item(<<>>, 1) = End
    BY PEmpty, EmptyItems
  <1>6. PICK t \in Seq(Steps) :
            /\ t = IF mode = "active" THEN StartPstates(wanted)
                   ELSE Doorbell0(Message("REGISTER_DONE", "none", 0))
            /\ Reaches(t, <<>>)
            /\ mode = "active" => Writes0(Item(t, 1), "START")
            /\ mode # "active" => Writes0(Item(t, 1), "REGISTER_DONE") /\ Item(t, 3) = End
    <2>1. CASE mode = "active"
      <3>1. wanted \in Targets
        BY DEF TypeInv, PgpeType
      <3>2. PICK t \in Seq(Steps) : /\ t = StartPstates(wanted) \o <<>> /\ Reaches(t, <<>>)
                                    /\ Writes0(Item(t, 1), "START")
        BY <1>5, <3>1, PStarts
      <3>3. StartPstates(wanted) \in Seq(Steps)
        BY <3>1, StartScript
      <3>4. t = StartPstates(wanted)
        BY <3>2, <3>3, Concat
      <3> QED BY <2>1, <3>2, <3>4
    <2>2. CASE mode # "active"
      <3>1. PICK d \in Db0Messages : /\ d = Message("REGISTER_DONE", "none", 0)
                                     /\ d.msg = "REGISTER_DONE"
        <4>1. /\ Message("REGISTER_DONE", "none", 0) \in Db0Messages
              /\ Message("REGISTER_DONE", "none", 0).msg = "REGISTER_DONE"
          BY DEF Message, Db0Messages, Values
        <4> QED BY <4>1
      <3>2. d \in Db0Messages /\ d.msg \notin {"NONE", "STOP"}
        BY <3>1
      <3>3. PICK t \in Seq(Steps) : Told(t, d, <<>>, <<>>)
        BY <1>5, <3>2, PDoorbell0
      <3>4. Doorbell0(d) \in Seq(Steps)
        BY <3>1, Doorbells
      <3>5. t = Doorbell0(d)
        BY <3>3, <3>4, Concat DEF Told
      <3> QED BY <1>5, <2>2, <3>1, <3>3, <3>5 DEF Told
    <2> QED BY <2>1, <2>2
  <1>7. todo'["pgpe"] = t /\ QSame
    BY <1>3, <1>6 DEF TypeInv, TodoType, QSame, Processes
  <1>8. /\ PForm(todo["pgpe"])' /\ \A m : Becoming(m) \notin RG'
        /\ mode = "active" => Writes0(G1', "START")
        /\ mode # "active" => Writes0(G1', "REGISTER_DONE") /\ G3' = End
    BY <1>5, <1>6, <1>7 DEF Reaches, RG, G1, G3
  <1>9. Msg0' = Msg0 /\ (Enabled' <=> Enabled) /\ mode' = mode
    BY <1>1 DEF Msg0, Enabled
  <1>10. Cmes # {"sib"} /\ Cmes # {"qm"}
    <2>1. "qm" \in Cmes /\ "sib" \in Cmes /\ "qm" \notin {"sib"} /\ "sib" \notin {"qm"}
      BY DEF Cmes
    <2> QED BY <2>1
  <1>11. PICK x : x = G1'
    OBVIOUS
  <1>12. /\ mode = "active" => Writes0(x, "START")
         /\ mode # "active" => Writes0(x, "REGISTER_DONE")
         /\ x[1] = "Write0" /\ x[2][1] = Cmes
         /\ ~Writes0(x, "STOP")
    BY <1>8, <1>11 DEF Writes0
  <1>13. ~Due'
    BY <1>10, <1>11, <1>12, Unawaited
  <1>14. R3'
    BY <1>3 DEF R3
  <1>15. R4'
    BY <1>1, <1>4, <1>9, <1>10, <1>11, <1>12 DEF R4, Replies, GPart, WritesQm
  <1>16. R5'
    <2>1. CASE mode = "active"
      BY <1>4, <1>9, <1>11, <1>12, <2>1, <1>8 DEF Starting, R5
    <2>2. CASE mode = "stopped"
      BY <1>12, <2>2, <1>4, <1>8, <1>9, <1>11 DEF Writes0, R5
    <2> QED BY <1>4, <2>1, <2>2
  <1>17. GPart'
    BY <1>8, <1>14, <1>15, <1>16 DEF GPart
  <1> QED BY <1>1, <1>3, <1>7, <1>9, <1>13, <1>17, GReplies

LEMMA RepliesDies ==
    ASSUME TypeInv, TypeInv', Kept, Kept', Replies, NEW when \in {"active", "stopped"},
           PgpeDies(when)
    PROVE  Replies' /\ panic' = panic
  <1>1. /\ Idle("pgpe") /\ ~alive' /\ QSame /\ GSame
        /\ UNCHANGED <<todo, db0, type4, flags, mode, registered, panic>>
    BY DEF PgpeDies, QSame, GSame, doorbellVars, cmeVars
  <1>2. G1 = End /\ G1[1] = "none" /\ ~Starting
    BY <1>1, IdlePgpe
  <1>3. G1' = G1 /\ G2' = G2 /\ Msg0' = Msg0 /\ (Enabled' <=> Enabled)
    BY <1>1, SamesViews DEF Msg0, Enabled
  <1>4. ~Due'
    BY <1>2, <1>3, Unawaited
  <1>5. PForm(todo["pgpe"])' /\ R3 /\ R4
    BY <1>1 DEF Replies, GPart
  <1>6. R3'
    BY <1>1, <1>2, <1>3, <1>5 DEF R3, Expect
  <1>7. R4'
    BY <1>1, <1>2, <1>3, <1>5 DEF R4, Writes0, WritesQm
  <1>8. R5'
    BY <1>1 DEF R5
  <1>9. GPart'
    BY <1>5, <1>6, <1>7, <1>8 DEF GPart
  <1> QED BY <1>1, <1>3, <1>4, <1>9, GReplies

-----------------------------------------------------------------------------
(* The PGPE does its next step.                                            *)
LEMMA PgpeRest ==
    ASSUME TypeInv, Replies, NEW k, At("pgpe", k)
    PROVE  \E R \in Seq(Steps) :
               /\ R = Tail(todo["pgpe"]) /\ Reaches(R, R)
               /\ Item(R, 1) = G2 /\ Item(R, 2) = G3 /\ RG = {G1} \union StepsOf(R)
               /\ PNext(G1, G2, G3) /\ G1 # End /\ G1 \in Steps
               /\ G1[1] = k /\ G1[2] = Argument("pgpe")
  <1>1. PICK s \in Seq(Steps) : s = todo["pgpe"]
    BY PgpeHeads
  <1>2. G1 # End /\ G1 \in Steps /\ G1[1] = k /\ G1[2] = Argument("pgpe")
    <2>1. TodoType /\ "pgpe" \in Processes
      BY DEF TypeInv, Processes
    <2>2. /\ Item(todo["pgpe"], 1) \in Steps
          /\ Item(todo["pgpe"], 1)[1] = k /\ Item(todo["pgpe"], 1)[2] = Argument("pgpe")
      BY <2>1, HeadOf
    <2> QED BY <2>2, NoEnd DEF G1
  <1>3. s # <<>> /\ PForm(s)
    BY <1>1, <1>2, PgpeHeads DEF Replies, GPart
  <1>4. PForm(Tail(s)) /\ PNext(G1, G2, G3)
    BY <1>1, <1>3, PTail DEF G1, G2, G3
  <1>5. /\ Tail(s) \in Seq(Steps) /\ StepsOf(s) = {Item(s, 1)} \union StepsOf(Tail(s))
        /\ Item(Tail(s), 1) = Item(s, 1 + 1) /\ Item(Tail(s), 2) = Item(s, 2 + 1)
    BY <1>3, TailItems
  <1>6. /\ Item(Tail(s), 1) = G2 /\ Item(Tail(s), 2) = G3
        /\ RG = {G1} \union StepsOf(Tail(s))
    BY <1>1, <1>5 DEF G1, G2, G3, RG
  <1> QED BY <1>1, <1>2, <1>4, <1>5, <1>6 DEF Reaches

PgpePops ==
    /\ G1' = G2 /\ G2' = G3 /\ PForm(todo["pgpe"])' /\ RG = {G1} \union RG'
    /\ PNext(G1, G2, G3) /\ G1 # End /\ QSame
LEMMA PgpeContinues ==
    ASSUME TypeInv, Replies, NEW k, At("pgpe", k), Continue("pgpe")
    PROVE  PgpePops /\ G1[1] = k /\ G1[2] = Argument("pgpe") /\ G1 \in Steps
  <1>1. PICK R \in Seq(Steps) :
            /\ R = Tail(todo["pgpe"]) /\ Reaches(R, R)
            /\ Item(R, 1) = G2 /\ Item(R, 2) = G3 /\ RG = {G1} \union StepsOf(R)
            /\ PNext(G1, G2, G3) /\ G1 # End /\ G1 \in Steps
            /\ G1[1] = k /\ G1[2] = Argument("pgpe")
    BY PgpeRest
  <1>2. todo'["pgpe"] = R /\ QSame
    <2>1. TodoType /\ "pgpe" \in Processes /\ <<>> \in Seq(Steps) /\ Then("pgpe", <<>>)
      BY PEmpty DEF TypeInv, Processes, Continue
    <2>2. /\ todo'["pgpe"] = <<>> \o Tail(todo["pgpe"])
          /\ \A o \in Processes \ {"pgpe"} : todo'[o] = todo[o]
      BY <2>1, ThenSteps
    <2> QED BY <1>1, <2>2, Concat DEF QSame, Processes
  <1> QED BY <1>1, <1>2 DEF PgpePops, Reaches, G1, G2, RG

LEMMA Becomings == \A m : Becoming(m)[1] = "Become" /\ Becoming(m)[2] = m
  BY DEF Becoming

LEMMA CmeSets == Cmes # {"sib"} /\ Cmes # {"qm"} /\ "qm" # "sib"
  <1>1. "qm" \in Cmes /\ "sib" \in Cmes
    BY DEF Cmes
  <1>2. "qm" \notin {"sib"} /\ "sib" \notin {"qm"} /\ "qm" # "sib"
    OBVIOUS
  <1> QED BY <1>1, <1>2

LEMMA RepliesPollDroop ==
    ASSUME TypeInv, TypeInv', Kept, Kept', Replies, PollDroop
    PROVE  Replies' /\ panic' = panic
  <1>1. /\ At("pgpe", "PollDroop") /\ Continue("pgpe") /\ alive
        /\ UNCHANGED <<db0, type4, flags, mode, registered, alive, panic>>
    BY DEF PollDroop, PgpeAt, Running, irqVars, doorbellVars, cmeVars, sysVars, pgpeVars
  <1>2. PgpePops /\ G1[1] = "PollDroop"
    BY <1>1, PgpeContinues
  <1>3. registered /\ type4 = "none"
    BY <1>2, PgpeInBetween DEF PgpePops
  <1>4. /\ G1'[1] = "Write3" /\ G1'[2][1] = "qm" /\ G1'[2][2] \in Replayed
        /\ G2'[1] = "Write3" /\ PForm(todo["pgpe"])'
        /\ \A m : Becoming(m) \in RG' <=> Becoming(m) \in RG
    <2>1. /\ G2[1] = "Write3" /\ G2[2][1] = "qm" /\ G2[2][2] \in Replayed
          /\ G3[1] = "Write3"
      BY <1>2 DEF PgpePops, PNext, PFirst, PSecond, WritesQm
    <2>2. \A m : Becoming(m) # G1
      BY <1>2, Becomings
    <2> QED BY <1>2, <2>1, <2>2 DEF PgpePops
  <1>5. Msg0' = Msg0 /\ (Enabled' <=> Enabled)
    BY <1>1 DEF Msg0, Enabled
  <1>6. R4 /\ R5
    BY DEF Replies, GPart
  <1>7. PICK x : x = G1'
    OBVIOUS
  <1>8. /\ ~WritesQm(x) /\ ~Writes0(x, "REGISTER_DONE") /\ ~Writes0(x, "START")
        /\ ~Writes0(x, "STOP") /\ x[2][2] # "SUSPEND"
    BY <1>4, <1>7 DEF WritesQm, Writes0, Replayed
  <1>9. Starting => Starting'
    BY <1>1, <1>2, <1>3, <1>4, <1>5 DEF Starting, Writes0
  <1>10. Updating /\ Updating'
    BY <1>2, <1>5, <1>6, <1>9 DEF R4, Updating
  <1>11. ~Due'
    BY <1>4, CmeSets, Unawaited
  <1>12. R3'
    BY <1>1, <1>3 DEF R3
  <1>13. R4'
    BY <1>1, <1>4, <1>5, <1>6, <1>7, <1>8, <1>10 DEF R4
  <1>14. R5'
    <2>1. /\ ~(G1 = End) /\ ~Writes0(G1, "REGISTER_DONE") /\ ~Writes0(G1, "STOP")
          /\ \A e : ~Expect(G1, e)
          /\ G1 # Becoming("stopped")
      BY <1>2, Becomings DEF PgpePops, Writes0, Expect
    <2>2. /\ ~(mode = "stopped" /\ Becoming("active") \notin RG)
          /\ Becoming("stopped") \notin RG
      BY <1>1, <1>3, <1>6, <2>1 DEF R5
    <2> QED BY <1>1, <1>3, <1>4, <1>5, <1>6, <1>7, <1>8, <1>9, <2>2 DEF R5
  <1>15. GPart'
    BY <1>4, <1>12, <1>13, <1>14 DEF GPart
  <1> QED BY <1>1, <1>2, <1>5, <1>11, <1>15, GReplies DEF PgpePops

LEMMA RepliesBecome ==
    ASSUME TypeInv, TypeInv', Kept, Kept', Replies, Become
    PROVE  Replies' /\ panic' = panic
  <1>1. /\ At("pgpe", "Become") /\ Continue("pgpe") /\ alive /\ mode' = Argument("pgpe")
        /\ UNCHANGED <<db0, type4, flags, registered, alive, panic>>
    BY DEF Become, PgpeAt, Running, irqVars, doorbellVars, cmeVars
  <1>2. PgpePops /\ G1[1] = "Become" /\ G1[2] = mode' /\ G1 \in Steps
    BY <1>1, PgpeContinues
  <1>3. registered /\ type4 = "none"
    BY <1>2, PgpeInBetween DEF PgpePops
  <1>4. G1' = End /\ RG' = {} /\ G1'[1] = "none" /\ PForm(todo["pgpe"])'
    <2>1. G1' = End
      BY <1>2 DEF PgpePops, PNext, PFirst
    <2>2. todo'["pgpe"] \in Seq(Steps) /\ Item(todo'["pgpe"], 1) = End
      BY <2>1 DEF TypeInv, TodoType, Processes, G1
    <2>3. todo'["pgpe"] = <<>>
      BY <2>2, ItemsOf
    <2>4. RG' = {}
      BY <2>3, EmptyItems DEF RG
    <2> QED BY <1>2, <2>1, <2>4, NoEnd DEF PgpePops
  <1>5. Msg0' = Msg0 /\ (Enabled' <=> Enabled)
    BY <1>1 DEF Msg0, Enabled
  <1>6. R4 /\ R5
    BY DEF Replies, GPart
  <1>7. G1 = Becoming(mode') /\ G1 \in RG /\ mode' \in {"stopped", "active", "safe"}
    BY <1>2, StepIsPair, PgpeHeads DEF PgpePops, Becoming, TypeInv, PgpeType
  <1>8. /\ \A m : ~Writes0(G1, m)
        /\ \A e : ~Expect(G1, e)
        /\ ~Repeats(G1) /\ ~Starting
    BY <1>2 DEF Writes0, Expect, Repeats, Starting
  <1>9. (mode' = "stopped" => ~Enabled) /\ (mode' # "stopped" => Enabled)
    <2>1. CASE mode' = "stopped"
      BY <1>1, <1>3, <1>6, <1>7, <1>8, <2>1 DEF R5
    <2>2. CASE mode' # "stopped"
      <3>1. Becoming("stopped") # G1
        BY <1>2, <2>2, Becomings
      <3>2. Becoming("stopped") \notin RG
        BY <1>1, <1>3, <1>6, <1>8, <3>1 DEF R5
      <3>3. mode # "stopped" \/ Becoming("active") \in RG
        BY <1>1, <1>3, <1>6, <1>7, <2>2 DEF R5
      <3> QED BY <1>1, <1>3, <1>6, <1>8, <2>2, <3>2, <3>3 DEF R5
    <2> QED BY <2>1, <2>2
  <1>10. ~Due'
    BY <1>4, Unawaited
  <1>11. R3'
    BY <1>1, <1>3 DEF R3
  <1>12. PICK x : x = G1'
    OBVIOUS
  <1>13. ~WritesQm(x) /\ \A m : ~Writes0(x, m)
    BY <1>4, <1>12 DEF WritesQm, Writes0
  <1>14. R4'
    BY <1>1, <1>4, <1>5, <1>6, <1>12, <1>13 DEF R4
  <1>15. R5'
    BY <1>1, <1>4, <1>5, <1>9, <1>12, <1>13 DEF R5
  <1>16. GPart'
    BY <1>4, <1>11, <1>14, <1>15 DEF GPart
  <1> QED BY <1>1, <1>2, <1>5, <1>10, <1>16, GReplies DEF PgpePops

(* What the PGPE does with an answer: it goes on, or lets the quad go, or  *)
(* repeats what it has asked for.                                          *)
LEMMA RepliesAwaitAck ==
    ASSUME ~WritesApart, TypeInv, TypeInv', Kept, Kept', Replies, AwaitAck
    PROVE  Replies' /\ panic' = panic
  <1>1. /\ At("pgpe", "AwaitAck") /\ alive /\ type4 # "none" /\ type4' = "none"
        /\ UNCHANGED <<db0, flags, mode, registered, alive>>
    BY DEF AwaitAck, PgpeAt, Running, irqVars, cmeVars, pgpeVars
  <1>2. PICK R \in Seq(Steps) :
            /\ R = Tail(todo["pgpe"]) /\ Reaches(R, R)
            /\ Item(R, 1) = G2 /\ Item(R, 2) = G3 /\ RG = {G1} \union StepsOf(R)
            /\ PNext(G1, G2, G3) /\ G1 # End /\ G1 \in Steps
            /\ G1[1] = "AwaitAck" /\ G1[2] = Argument("pgpe")
    BY <1>1, PgpeRest
  <1>3. registered /\ type4 # "available"
    BY <1>1, <1>2, PgpeInBetween
  <1>4. PICK a \in Awaited : a = Argument("pgpe") /\ a = G1[2]
    BY <1>2, Arguments
  <1>5. R3 /\ R4 /\ R5
    BY DEF Replies, GPart
  <1>6. /\ type4 # "nack" => type4 = a.expected
        /\ type4 = "nack" => a.expected = "ok" /\ Updating
        /\ type4 = "suspended" => ~Enabled
    BY <1>1, <1>3, <1>4, <1>5 DEF R3, Expect
  <1>7. /\ Goes(G2) /\ a.replay \in Replayed \union {"none"}
        /\ a.nacked => a.expected = "ok"
        /\ a.expected = "suspended" => G2 = Becoming("stopped")
        /\ a.expected = "ok" => Onward(G2)
        /\ a.expected \in {"ok", "suspended", "unsuspended"}
    <2>1. PFirst(G1, G2) /\ PSecond(G1, G2, G3)
      BY <1>2 DEF PNext
    <2>2. /\ Goes(G2) /\ a.replay \in Replayed \union {"none"}
          /\ a.nacked => a.expected = "ok"
          /\ a.expected = "suspended" => G2 = Becoming("stopped")
          /\ a.expected \in {"ok", "suspended", "unsuspended"}
      BY <1>2, <1>4, <2>1 DEF PFirst, Writes3
    <2>3. a.expected = "ok" => ~(G2[1] = "Become" /\ G2[2] = "stopped")
      BY <1>4, <2>1 DEF PSecond, Expect
    <2> QED BY <2>2, <2>3 DEF Onward
  <1>8. /\ panic' = panic
        /\ \/ type4 = a.expected /\ Then("pgpe", IF a.nacked THEN Unthrottle ELSE <<>>)
           \/ type4 = "nack"
              /\ Then("pgpe", IF a.replay = "none" THEN <<>>
                              ELSE (IF a.nacked THEN <<>> ELSE Throttle) \o Write3(a.replay)
                                   \o Await(a.expected, a.replay, TRUE))
    BY <1>4, <1>6 DEF AwaitAck
  <1>9. \A more \in Seq(Steps) :
            Then("pgpe", more) => todo'["pgpe"] = more \o R /\ QSame
    <2>1. TodoType /\ "pgpe" \in Processes
      BY DEF TypeInv, Processes
    <2> TAKE more \in Seq(Steps)
    <2> HAVE Then("pgpe", more)
    <2>2. /\ todo'["pgpe"] = more \o Tail(todo["pgpe"])
          /\ \A o \in Processes \ {"pgpe"} : todo'[o] = todo[o]
      BY <2>1, ThenSteps
    <2> QED BY <1>2, <2>2 DEF QSame, Processes
  <1>10. <<>> \in Seq(Steps) /\ <<>> \o R = R
    BY PEmpty, Concat
  <1> DEFINE Nothing(t) == t = R /\ (type4 = "nack" => a.replay = "none")
                           /\ ~(type4 # "nack" /\ a.nacked)
             Freed(t) == /\ type4 = "ok" /\ a.nacked /\ Writes3(Item(t, 1), "qm", "UNSUSPEND")
                         /\ Item(t, 2)[1] = "Write3"
             Again(t) == /\ type4 = "nack" /\ a.replay \in Replayed
                         /\ \E m \in Replayed \union {"SUSPEND"} : Writes3(Item(t, 1), "qm", m)
                         /\ Item(t, 2)[1] = "Write3"
  <1>11. \E t \in Seq(Steps) : /\ t = todo'["pgpe"] /\ QSame /\ Reaches(t, R)
                               /\ Nothing(t) \/ Freed(t) \/ Again(t)
    <2>1. CASE type4 = a.expected /\ ~a.nacked
      <3>1. Then("pgpe", <<>>)
        BY <1>6, <1>8, <2>1
      <3>2. todo'["pgpe"] = R /\ QSame
        BY <1>9, <1>10, <3>1
      <3>3. type4 # "nack"
        BY <1>7, <2>1
      <3> QED BY <1>2, <2>1, <3>2, <3>3
    <2>2. CASE type4 = a.expected /\ a.nacked
      <3>1. type4 = "ok" /\ Then("pgpe", Unthrottle)
        BY <1>7, <1>8, <2>2
      <3>2. Onward(Item(R, 1)) /\ Reaches(R, R)
        BY <1>2, <1>7, <2>2
      <3>3. PICK t \in Seq(Steps) :
                /\ t = Unthrottle \o R /\ Reaches(t, R)
                /\ Writes3(Item(t, 1), "qm", "UNSUSPEND") /\ Item(t, 2)[1] = "Write3"
        BY <3>2, PUnthrottle
      <3>4. Unthrottle \in Seq(Steps)
        BY Doorbells
      <3>5. todo'["pgpe"] = t /\ QSame
        BY <1>9, <3>1, <3>3, <3>4
      <3> QED BY <2>2, <3>1, <3>3, <3>5
    <2>3. CASE type4 = "nack" /\ a.replay = "none"
      <3>1. Then("pgpe", <<>>)
        BY <1>6, <1>8, <2>3
      <3>2. todo'["pgpe"] = R /\ QSame
        BY <1>9, <1>10, <3>1
      <3> QED BY <1>2, <2>3, <3>2
    <2>4. CASE type4 = "nack" /\ a.replay # "none"
      <3>1. a.expected = "ok" /\ a.replay \in Replayed
        BY <1>6, <1>7, <2>4
      <3>2. PICK m \in Replayed : m = a.replay
        BY <3>1
      <3>3. PICK first \in Seq(Steps) : /\ first = (IF a.nacked THEN <<>> ELSE Throttle)
                                        /\ first = <<>> \/ first = Throttle
        BY <1>10, Doorbells
      <3>4. Onward(Item(R, 1)) /\ Reaches(R, R)
        BY <1>2, <1>7, <3>1
      <3>5. PICK t \in Seq(Steps) : Replays(first, m, t, R, R)
        BY <3>3, <3>4, PReplays
      <3>6. first \o Write3(m) \o Await("ok", m, TRUE) \in Seq(Steps)
        <4>1. m \in Db3Messages
          BY DEF Replayed, Db3Messages
        <4>2. Write3(m) \in Seq(Steps) /\ Await("ok", m, TRUE) \in Seq(Steps)
          BY <4>1, PgpeSteps DEF Acks
        <4> QED BY <4>2, Joined
      <3>7. Then("pgpe", first \o Write3(m) \o Await("ok", m, TRUE))
        BY <1>7, <1>8, <2>4, <3>1, <3>2, <3>3
      <3>8. todo'["pgpe"] = t /\ QSame
        BY <1>9, <3>5, <3>6, <3>7 DEF Replays
      <3>9. \E n \in Replayed \union {"SUSPEND"} : Writes3(Item(t, 1), "qm", n)
        BY <3>5 DEF Replays
      <3> QED BY <2>4, <3>1, <3>5, <3>8, <3>9 DEF Replays
    <2> QED BY <1>6, <1>8, <2>1, <2>2, <2>3, <2>4
  <1>12. PICK t \in Seq(Steps) : /\ t = todo'["pgpe"] /\ QSame /\ Reaches(t, R)
                                 /\ Nothing(t) \/ Freed(t) \/ Again(t)
    BY <1>11
  <1>13. PICK x, y : x = G1' /\ y = G2' /\ x = Item(t, 1) /\ y = Item(t, 2)
    BY <1>12 DEF G1, G2
  <1> DEFINE OnX == x = G2 /\ Goes(x) /\ (type4 = "nack" => a.replay = "none")
                    /\ ~(type4 # "nack" /\ a.nacked)
             FreeX == /\ type4 = "ok" /\ a.nacked /\ Writes3(x, "qm", "UNSUSPEND")
                      /\ y[1] = "Write3"
             AgainX == /\ type4 = "nack" /\ a.replay \in Replayed
                       /\ \E m \in Replayed \union {"SUSPEND"} : Writes3(x, "qm", m)
                       /\ y[1] = "Write3"
  <1>14. OnX \/ FreeX \/ AgainX
    BY <1>2, <1>7, <1>12, <1>13
  <1>15. PForm(todo["pgpe"])' /\ \A m : Becoming(m) \in RG' <=> Becoming(m) \in RG
    BY <1>2, <1>12, Becomings DEF Reaches, RG
  <1> HIDE DEF Nothing, Freed, Again
  <1>16. /\ x[1] # "AwaitAck" /\ ~(x[1] = "Write3" /\ x[2][1] = "sib")
         /\ ~(x[1] = "Write0" /\ x[2][1] = {"sib"})
         /\ ~WritesQm(x) /\ x[1] # "PollDroop"
         /\ ~Writes0(x, "REGISTER_DONE") /\ ~Writes0(x, "START") /\ ~Writes0(x, "STOP")
         /\ x[1] = "Write3" => y[1] = "Write3" /\ ~OnX
    <2>1. CASE OnX
      <3>1. x[1] \in {"none", "Become", "Write0"}
        BY <2>1, NoEnd DEF Goes
      <3>2. x[1] = "Write0" => x[2][1] = Cmes /\ x[2][2].msg \in {"CLIP", "PMSR"}
        BY <2>1, NoEnd DEF Goes
      <3> QED BY <3>1, <3>2, CmeSets DEF WritesQm, Writes0
    <2>2. CASE FreeX
      BY <2>2, CmeSets DEF Writes3, WritesQm, Writes0, Goes, End
    <2>3. CASE AgainX
      BY <2>3, CmeSets DEF Writes3, WritesQm, Writes0, Goes, End
    <2> QED BY <1>14, <2>1, <2>2, <2>3
  <1>17. ~Due'
    BY <1>13, <1>16, Unawaited
  <1>18. Msg0' = Msg0 /\ (Enabled' <=> Enabled)
    BY <1>1 DEF Msg0, Enabled
  <1>19. Starting => AgainX /\ Starting'
    <2> HAVE Starting
    <2>1. ~Enabled /\ Msg0 = "START" /\ type4 = "nack" /\ Repeats(G1)
      BY <1>1, <1>2 DEF Starting, Writes0
    <2>2. AgainX
      BY <1>2, <1>4, <1>7, <1>14, <2>1 DEF Repeats, Replayed
    <2> QED BY <1>1, <1>13, <1>18, <2>1, <2>2 DEF Starting, Writes3
  <1>20. AgainX => Updating'
    BY <1>6, <1>18, <1>19 DEF Updating
  <1>21. R3'
    BY <1>1 DEF R3
  <1>22. R4'
    BY <1>14, <1>16, <1>20, <1>1, <1>5, <1>13, <1>18 DEF Writes3, R4, LockLike
  <1>23. R5'
    <2>1. /\ G1 # End /\ ~Writes0(G1, "REGISTER_DONE") /\ ~Writes0(G1, "STOP")
          /\ G1 # Becoming("stopped")
      BY <1>2, Becomings DEF Writes0
    <2>2. /\ mode # "stopped" \/ Becoming("active") \in RG =>
                 Enabled \/ Starting \/ Becoming("stopped") \in RG
          /\ mode = "stopped" /\ Becoming("active") \notin RG =>
                /\ ~Enabled
                /\ a.expected = "ok" /\ Msg0 = "REGISTER_DONE" /\ G2 = End /\ ~a.nacked
          /\ Becoming("active") \in RG => mode = "stopped"
          /\ Becoming("safe") \in RG \/ Becoming("stopped") \in RG => mode = "active"
          /\ Becoming("stopped") \in RG => a.expected = "suspended"
      BY <1>1, <1>3, <1>4, <1>5, <2>1 DEF R5, Expect
    <2>3. mode = "stopped" /\ Becoming("active") \notin RG => x = End
      <3> HAVE mode = "stopped" /\ Becoming("active") \notin RG
      <3>1. Msg0 = "REGISTER_DONE" /\ ~a.nacked
        BY <2>2
      <3>2. ~Updating
        BY <3>1 DEF Updating
      <3>3. ~AgainX /\ ~FreeX
        BY <1>6, <3>1, <3>2
      <3> QED BY <1>14, <2>2, <3>3
    <2>4. Becoming("stopped") \in RG => x = Becoming("stopped") /\ ~Enabled
      <3> HAVE Becoming("stopped") \in RG
      <3>1. a.expected = "suspended" /\ type4 = "suspended"
        BY <1>6, <2>2
      <3>2. OnX
        BY <1>14, <3>1
      <3> QED BY <1>6, <1>7, <3>1, <3>2
    <2> QED BY <1>1, <1>13, <1>15, <1>16, <1>18, <1>19, <2>2, <2>3, <2>4 DEF R5
  <1>24. GPart'
    BY <1>15, <1>21, <1>22, <1>23 DEF GPart
  <1> QED BY <1>1, <1>8, <1>12, <1>17, <1>18, <1>24, GReplies

-----------------------------------------------------------------------------
(* Doorbell 0 is written.                                                  *)
Db0Told ==
    /\ Db0Written /\ PgpePops /\ G1[1] = "Write0"
    /\ alive /\ UNCHANGED <<flags, alive, type4, registered, mode, panic>>
    /\ (Enabled' <=> Enabled) /\ RQ' = RQ /\ Q1' = Q1
    /\ G1[2][1] \in {Cmes, {"qm"}, {"sib"}}
    /\ "sib" \in G1[2][1] => db0'["sib"].msg = G1[2][2].msg
    /\ "sib" \notin G1[2][1] => db0'["sib"].msg = db0["sib"].msg

LEMMA TellsDb0 ==
    ASSUME TypeInv, Kept, Replies, WriteDb0
    PROVE  Db0Told
  <1>1. At("pgpe", "Write0") /\ Continue("pgpe") /\ panic' = panic
    BY DEF WriteDb0, PgpeAt, Running, cmeVars, sysVars, pgpeVars
  <1>2. Db0Written
    BY WritesDb0
  <1>3. PgpePops /\ G1[1] = "Write0" /\ G1[2] = Argument("pgpe") /\ G1 \in Steps
    BY <1>1, PgpeContinues
  <1>4. GNext(G1, G2, G3, registered, Interlock)
    BY <1>2 DEF Db0Written, GPops
  <1>5. /\ alive /\ UNCHANGED <<flags, alive, type4, registered, mode>>
        /\ RQ' = RQ /\ Q1' = Q1 /\ (Enabled' <=> Enabled)
    BY <1>2, SamesViews DEF Db0Written, PgpeMoves, Enabled
  <1>6. PICK targets \in SUBSET Cmes, d \in Db0Messages : targets = G1[2][1] /\ d = G1[2][2]
    BY <1>3, Arguments
  <1>7. db0' = [c \in Cmes |-> IF c \in targets THEN d ELSE db0[c]]
    BY <1>3, <1>6 DEF WriteDb0
  <1>8. /\ "sib" \in targets => db0'["sib"].msg = d.msg
        /\ "sib" \notin targets => db0'["sib"].msg = db0["sib"].msg
    BY <1>7 DEF Cmes
  <1>9. G1[2][1] \in {Cmes, {"qm"}, {"sib"}}
    BY <1>3, <1>4 DEF GNext
  <1> QED BY <1>1, <1>2, <1>3, <1>5, <1>6, <1>8, <1>9 DEF Db0Told

(* To both, as part of a change of frequency elsewhere.                    *)
LEMMA TellsUnregistered ==
    ASSUME TypeInv, TypeInv', Kept, Kept', Replies, Db0Told, G1[2][1] = Cmes, ~registered
    PROVE  Replies'
  <1>1. /\ PgpePops /\ G1 # End /\ Db0Written /\ "qm" \in G1[2][1] /\ "sib" \in G1[2][1]
        /\ UNCHANGED <<flags, alive, type4, registered, mode>>
        /\ Enabled' <=> Enabled
    BY DEF Db0Told, PgpePops, Cmes
  <1>2. /\ G1[2][2].msg = "GLB" /\ G2 = End /\ ~Enabled
    BY <1>1 DEF Kept, Exchange, E5, Enabled
  <1>3. Msg0' = "GLB" /\ db0'["sib"].msg = "GLB"
    BY <1>1, <1>2 DEF Db0Told, Db0Written
  <1>4. G1' = End /\ G1'[1] = "none" /\ PForm(todo["pgpe"])' /\ QSame
    BY <1>1, <1>2, NoEnd DEF PgpePops
  <1>5. type4 \in {"none", "available"}
    BY <1>1, WriteDb0Before
  <1>6. ~Due'
    BY <1>4, Unawaited
  <1>7. R3' /\ R5'
    BY <1>1, <1>5 DEF R3, R5
  <1>8. PICK x : x = G1'
    OBVIOUS
  <1>9. ~WritesQm(x) /\ \A m : ~Writes0(x, m)
    BY <1>4, <1>8 DEF WritesQm, Writes0
  <1>10. R4'
    BY <1>1, <1>2, <1>3, <1>4, <1>8, <1>9 DEF R4, Unsent
  <1>11. GPart'
    BY <1>4, <1>7, <1>10 DEF GPart
  <1> QED BY <1>1, <1>4, <1>6, <1>11, GReplies

(* To both, of a quad that is registered: it can be answered.              *)
LEMMA TellsBoth ==
    ASSUME TypeInv, TypeInv', Kept, Kept', Replies, Db0Told, G1[2][1] = Cmes, registered
    PROVE  Replies'
  <1>1. /\ PgpePops /\ G1 # End /\ Db0Written /\ "qm" \in G1[2][1] /\ "sib" \in G1[2][1]
        /\ alive /\ UNCHANGED <<flags, alive, type4, registered, mode>>
        /\ (Enabled' <=> Enabled) /\ RQ' = RQ /\ Q1' = Q1 /\ G1[1] = "Write0"
        /\ G1' = G2 /\ G2' = G3 /\ PForm(todo["pgpe"])' /\ RG = {G1} \union RG' /\ QSame
    BY DEF Db0Told, PgpePops, Cmes
  <1>2. /\ GNext(G1, G2, G3, registered, Interlock)
        /\ ~AckDue /\ ~RegHead /\ ~Db3Due /\ type4 = "none"
        /\ \A m : ~HalfM(m)'
    BY <1>1, WriteDb0Before
  <1>3. PICK m : m = G1[2][2].msg
    OBVIOUS
  <1>4. /\ m # "NONE"
        /\ G2 = End \/ (Expect(G2, ReplyTo(m)) /\ ~G2[2].nacked)
        /\ m = "START" => Repeats(G2)
    BY <1>1, <1>3 DEF PgpePops, PNext, PFirst
  <1>5. Expect(G1', ReplyTo(m)) /\ ~G1'[2].nacked /\ G1'[1] = "AwaitAck"
    BY <1>1, <1>2, <1>4, NoEnd DEF GNext, Expect
  <1>6. Msg0' = m /\ db0'["sib"].msg = m
    BY <1>1, <1>3 DEF Db0Told, Db0Written
  <1>7. R1 /\ R4 /\ R5 /\ R2
    BY DEF Replies, GPart
  <1>8. \A n : Writes0(G1, n) <=> n = m
    BY <1>1, <1>3 DEF Writes0, Db0Told
  <1>9. /\ m = "START" => Starting'
        /\ m = "STOP" => Enabled'
    BY <1>1, <1>2, <1>4, <1>6, <1>7, <1>8 DEF R5, Starting
  <1>10. Readable'
    BY <1>4, <1>5, <1>6, <1>9 DEF Readable, Expects
  <1>11. R1'
    <2>1. \A y \in RQ : y[1] \notin AckKinds
      BY <1>2 DEF AckDue
    <2>2. \A y \in RQ : ~In0(y)
      BY <2>1, NoneOwed DEF TypeInv, TodoType, Processes, Kept, Forms, RQ
    <2>3. \A y \in RQ' : Owed(y)'
      BY <1>1, <1>7, <2>1, <2>2 DEF R1, Owed, AckKinds
    <2>4. ~Db3Due'
      BY <1>1, <1>2 DEF Db0Written, Bits, Db3Due
    <2> QED BY <1>10, <2>3, <2>4 DEF R1
  <1>12. R2'
    BY <1>1, <1>7 DEF R2, QSame
  <1>13. R3'
    BY <1>1, <1>2 DEF R3
  <1>14. PICK x : x = G1'
    OBVIOUS
  <1>15. ~WritesQm(x) /\ \A n : ~Writes0(x, n)
    BY <1>5, <1>14 DEF WritesQm, Writes0
  <1>16. R4'
    <2>1. m \in Unsent => ~Enabled
      BY <1>4, <1>7, <1>8 DEF R4, Unsent
    <2> QED BY <1>1, <1>5, <1>6, <1>14, <1>15, <2>1 DEF R4
  <1>17. R5'
    <2>1. \A n : Becoming(n) \in RG' <=> Becoming(n) \in RG
      BY <1>1, Becomings
    <2>2. /\ \A e : ~Expect(G1, e)
          /\ G1 # Becoming("stopped")
          /\ Starting => m = "START"
      BY <1>1, <1>8, Becomings DEF Expect, Starting, Repeats
    <2>3. /\ mode = "stopped" /\ Becoming("active") \notin RG =>
                 ~Enabled /\ m = "REGISTER_DONE" /\ G3 = End
          /\ Becoming("stopped") \in RG => m = "STOP"
      BY <1>1, <1>7, <1>8, <2>2 DEF R5
    <2>4. /\ m = "REGISTER_DONE" => Expect(x, "ok")
          /\ m = "STOP" => Expect(x, "suspended")
          /\ ~x[2].nacked
      BY <1>5, <1>14 DEF ReplyTo
    <2> QED BY <1>1, <1>6, <1>7, <1>9, <1>14, <1>15, <2>1, <2>2, <2>3, <2>4 DEF R5
  <1>18. GPart'
    BY <1>1, <1>13, <1>16, <1>17 DEF GPart
  <1> QED BY <1>11, <1>12, <1>18 DEF Replies

(* The payload of a doorbell 3.                                            *)
LEMMA TellsOne ==
    ASSUME TypeInv, Kept, Replies, Db0Told, G1[2][1] \in {{"qm"}, {"sib"}}
    PROVE  /\ G1[2][2].msg = "PAYLOAD" /\ registered /\ type4 = "none"
           /\ PgpePops /\ ~Starting
           /\ G1'[1] = "Write3" /\ G1' = G2 /\ G2' = G3 /\ PForm(todo["pgpe"])'
           /\ mode # "stopped" \/ Becoming("active") \in RG
           /\ Becoming("stopped") \notin RG
           /\ \A m : Becoming(m) \in RG' <=> Becoming(m) \in RG
           /\ Msg0' = "PAYLOAD" /\ db0'["sib"].msg \notin Unsent /\ ~Starting'
  <1>1. /\ PgpePops /\ PNext(G1, G2, G3) /\ G1[1] = "Write0" /\ Db0Written /\ G1 # End
        /\ GNext(G1, G2, G3, registered, Interlock) /\ alive
        /\ G1' = G2 /\ G2' = G3 /\ PForm(todo["pgpe"])' /\ RG = {G1} \union RG'
    BY DEF Db0Told, PgpePops, Db0Written, GPops
  <1>2. G1[2][1] # Cmes /\ \A m : ~Writes0(G1, m)
    BY CmeSets DEF Writes0
  <1>3. G1[2][2].msg = "PAYLOAD"
    BY <1>1, <1>2 DEF PNext, PFirst
  <1>4. registered
    BY <1>1, <1>2 DEF Kept, Exchange, E5
  <1>5. type4 = "none"
    BY <1>1, <1>4 DEF Kept, Exchange, E2, E2a
  <1>6. /\ \A e : ~Expect(G1, e)
        /\ \A m : Becoming(m) # G1
        /\ ~Starting
    BY <1>1, <1>2, Becomings DEF Expect, Starting, Repeats
  <1>7. R4 /\ R5
    BY DEF Replies, GPart
  <1>8. /\ mode # "stopped" \/ Becoming("active") \in RG
        /\ Becoming("stopped") \notin RG
    BY <1>1, <1>2, <1>4, <1>6, <1>7 DEF R5
  <1>9. G1'[1] = "Write3"
    <2>1. CASE G1[2][1] = {"qm"}
      BY <1>1, <1>3, <2>1 DEF GNext
    <2>2. CASE G1[2][1] = {"sib"}
      BY <1>1, <2>2 DEF PNext, PFirst
    <2> QED BY <2>1, <2>2
  <1>10. Msg0' = "PAYLOAD" /\ db0'["sib"].msg \notin Unsent
    <2>1. CASE G1[2][1] = {"qm"}
      BY <1>1, <2>1, <1>3, <1>7 DEF WritesQm, R4, Db0Told, Db0Written
    <2>2. CASE G1[2][1] = {"sib"}
      BY <1>1, <1>7, <2>2, <1>3 DEF R4, Unsent, Db0Told, Db0Written
    <2> QED BY <2>1, <2>2
  <1>11. ~Starting'
    <2>1. PICK x : x = G1'
      OBVIOUS
    <2> QED BY <1>9, <1>10, <2>1 DEF Starting, Writes0
  <1> QED BY <1>1, <1>3, <1>4, <1>5, <1>6, <1>8, <1>9, <1>10, <1>11

LEMMA TellsOneG ==
    ASSUME TypeInv, Kept, Replies, Db0Told, G1[2][1] \in {{"qm"}, {"sib"}}
    PROVE  GPart'
  <1>1. /\ registered /\ type4 = "none" /\ G1'[1] = "Write3" /\ PForm(todo["pgpe"])'
        /\ mode # "stopped" \/ Becoming("active") \in RG
        /\ Becoming("stopped") \notin RG /\ ~Starting
        /\ \A m : Becoming(m) \in RG' <=> Becoming(m) \in RG
        /\ Msg0' = "PAYLOAD" /\ db0'["sib"].msg \notin Unsent
    BY TellsOne
  <1>2. /\ alive /\ UNCHANGED <<flags, alive, type4, registered, mode>>
        /\ Enabled' <=> Enabled
    BY DEF Db0Told
  <1>3. PICK x : x = G1'
    OBVIOUS
  <1>4. ~WritesQm(x) /\ \A m : ~Writes0(x, m)
    BY <1>1, <1>3 DEF WritesQm, Writes0
  <1>5. R4 /\ R5
    BY DEF Replies, GPart
  <1>6. R3'
    BY <1>1, <1>2 DEF R3
  <1>7. R4'
    BY <1>1, <1>2, <1>3, <1>4 DEF R4, Updating, Unsent
  <1>8. R5'
    BY <1>1, <1>2, <1>3, <1>4, <1>5 DEF R5
  <1> QED BY <1>1, <1>6, <1>7, <1>8 DEF GPart

LEMMA RepliesWriteDb0 ==
    ASSUME TypeInv, TypeInv', Kept, Kept', Replies, WriteDb0
    PROVE  Replies' /\ panic' = panic
  <1>1. /\ Db0Told /\ panic' = panic /\ Db0Written /\ QSame
        /\ alive /\ UNCHANGED <<flags, alive, type4, registered, mode>>
        /\ (Enabled' <=> Enabled) /\ RQ' = RQ /\ Q1' = Q1 /\ G1[1] = "Write0"
    BY TellsDb0 DEF Db0Told, PgpePops
  <1>2. CASE G1[2][1] = Cmes
    BY <1>1, <1>2, TellsBoth, TellsUnregistered
  <1>3. CASE G1[2][1] = {"qm"}
    <2>1. GPart' /\ G1'[1] = "Write3" /\ G1' = G2 /\ G1[2][2].msg = "PAYLOAD"
      BY <1>1, <1>3, TellsOne, TellsOneG
    <2>2. G1'[2][1] = "qm"
      BY <1>1, <1>3, <2>1 DEF Db0Written, GPops, GNext
    <2>3. ~Due'
      BY <2>1, <2>2, CmeSets, Unawaited
    <2> QED BY <1>1, <2>1, <2>3, GReplies
  <1>4. CASE G1[2][1] = {"sib"}
    <2>1. /\ GPart' /\ G1'[1] = "Write3" /\ G1' = G2 /\ G2' = G3 /\ type4 = "none"
          /\ Msg0' = "PAYLOAD" /\ ~Starting /\ ~Starting'
      BY <1>1, <1>4, TellsOne, TellsOneG
    <2>2. "qm" \notin G1[2][1] /\ Msg0' = Msg0
      BY <1>1, <1>4 DEF Db0Written
    <2>3. \A e : Expects(e) => Expects(e)'
      <3>1. \A m : HalfM(m) => HalfM(m)'
        BY <1>1, <2>1 DEF HalfM, Writes3
      <3>2. \A e : ~Expect(G1, e)
        BY <1>1 DEF Expect
      <3> QED BY <3>1, <3>2 DEF Expects
    <2>4. Readable => Readable'
      BY <1>1, <2>1, <2>2, <2>3 DEF Readable
    <2>5. /\ RegHead' => RegHead
          /\ Db0Due' => Db0Due
          /\ Db3Due' => Db3Due
          /\ AckDue' <=> AckDue
          /\ db3' = db3
      <3>1. /\ "DB3" \in eisr'["qm"] <=> "DB3" \in eisr["qm"]
            /\ db3' = db3 /\ ("DB0" \in eisr'["qm"] => "DB0" \in eisr["qm"])
        BY <1>1, <2>2 DEF Db0Written, Bits
      <3>2. /\ HasReg' <=> HasReg
            /\ RegDue' <=> RegDue
            /\ AckDue' <=> AckDue
        BY <1>1 DEF HasReg, RegDue, RegLeft, AckDue
      <3> QED BY <1>1, <2>2, <3>1, <3>2 DEF RegHead, Db0Due, Db3Due
    <2>6. R1 /\ R2
      BY DEF Replies
    <2>7. \A y \in RQ' : Owed(y)'
      BY <1>1, <2>1, <2>2, <2>3, <2>4, <2>6 DEF R1, Owed
    <2>8. \A m \in Db3Messages : Owed3(m) => Owed3(m)'
      BY <2>1, <2>3, <2>4 DEF Owed3
    <2>9. R1'
      BY <2>4, <2>5, <2>6, <2>7, <2>8 DEF R1
    <2>10. R2'
      BY <1>1, <2>6 DEF R2, QSame
    <2> QED BY <1>1, <2>1, <2>9, <2>10 DEF Replies
  <1> QED BY <1>1, <1>2, <1>3, <1>4 DEF Db0Told

-----------------------------------------------------------------------------
(* Doorbell 3 is written.                                                  *)
Db3Told(c, m) ==
    /\ Db3Posted(c, m) /\ PgpePops
    /\ G1[1] = "Write3" /\ G1[2][1] = c /\ G1[2][2] = m
    /\ GNext(G1, G2, G3, registered, Interlock)
    /\ PFirst(G1, G2)'
    /\ registered /\ type4 = "none" /\ alive /\ RQ' = RQ /\ Q1' = Q1
    /\ UNCHANGED <<db0, flags, alive, type4, registered, mode>>
    /\ Msg0' = Msg0 /\ (Enabled' <=> Enabled)
    /\ Enabled \/ Starting
    /\ ~(mode = "stopped" /\ Becoming("active") \notin RG)
    /\ Becoming("stopped") \notin RG
    /\ \A n : Becoming(n) \in RG' <=> Becoming(n) \in RG

LEMMA TellsDb3 ==
    ASSUME TypeInv, TypeInv', Kept, Kept', Replies, WriteDb3
    PROVE  (\E c \in Cmes, m \in Db3Messages : Db3Told(c, m)) /\ panic' = panic
  <1>1. At("pgpe", "Write3") /\ Continue("pgpe") /\ panic' = panic
    BY DEF WriteDb3, PgpeAt, Running, cmeVars, sysVars, pgpeVars
  <1>2. PICK c \in Cmes, m \in Db3Messages : Db3Posted(c, m)
    BY WritesDb3
  <1>3. /\ PgpePops /\ G1 # End /\ PForm(todo["pgpe"])'
        /\ \A n : Becoming(n) \in RG' <=> Becoming(n) \in RG
    <2>1. PgpePops /\ G1[1] = "Write3"
      BY <1>1, PgpeContinues
    <2>2. \A n : Becoming(n) # G1
      BY <2>1, Becomings
    <2> QED BY <2>1, <2>2 DEF PgpePops
  <1>4. /\ G1[1] = "Write3" /\ G1[2][1] = c /\ G1[2][2] = m
        /\ GNext(G1, G2, G3, registered, Interlock)
        /\ registered /\ type4 = "none" /\ alive /\ db0' = db0
    BY <1>2 DEF Db3Posted, PgpeMoves, Writes3
  <1>5. /\ UNCHANGED <<flags, alive, type4, registered, mode>> /\ Msg0' = Msg0
        /\ RQ' = RQ /\ Q1' = Q1 /\ (Enabled' <=> Enabled)
    BY <1>2, <1>4, SamesViews DEF Db3Posted, PgpeMoves, Msg0, Enabled
  <1>6. G1'[1] # "none"
    <2>1. c = "qm" \/ c = "sib"
      BY DEF Cmes
    <2>2. G1' = G2 /\ PFirst(G1, G2)
      BY <1>3 DEF PgpePops, PNext
    <2>3. G2[1] \in {"Write3", "Write0", "AwaitAck", "PollDroop"}
      BY <1>4, <2>1, <2>2 DEF PFirst, GNext, Writes3, Expect
    <2> QED BY <2>2, <2>3
  <1>7. PFirst(G1, G2)'
    <2>1. todo'["pgpe"] \in Seq(Steps)
      BY DEF TypeInv, TodoType, Processes
    <2>2. Item(todo'["pgpe"], 1)[1] # "none"
      BY <1>6 DEF G1
    <2>3. todo'["pgpe"] # <<>>
      BY <2>2, EmptyItems, NoEnd
    <2>4. PNext(G1, G2, G3)'
      BY <1>3, <2>1, <2>3, PTail DEF G1, G2, G3
    <2> QED BY <2>4 DEF PNext
  <1>8. /\ Enabled \/ Starting
        /\ ~(mode = "stopped" /\ Becoming("active") \notin RG)
        /\ Becoming("stopped") \notin RG
    <2>1. R5
      BY DEF Replies, GPart
    <2>2. /\ \A e : ~Expect(G1, e)
          /\ \A n : ~Writes0(G1, n) /\ G1 # Becoming(n)
      BY <1>4, Becomings DEF Expect, Writes0
    <2> QED BY <1>3, <1>4, <2>1, <2>2 DEF R5
  <1> QED BY <1>1, <1>2, <1>3, <1>4, <1>5, <1>7, <1>8 DEF Db3Told

LEMMA TellsDb3G ==
    ASSUME TypeInv', NEW c, NEW m, Db3Told(c, m), Replies, R4', Starting => Starting',
           \A n : ~Writes0(G1, n)'
    PROVE  GPart'
  <1>1. R3'
    BY DEF Db3Told, R3
  <1>2. R5
    BY DEF Replies, GPart
  <1>3. R5'
    BY <1>2 DEF Db3Told, R5
  <1> QED BY <1>1, <1>3 DEF GPart, Db3Told, PgpePops

(* The droop is polled between SUSPEND and the message.                    *)
LEMMA TellsSuspend ==
    ASSUME TypeInv, TypeInv', Kept, Kept', Replies, NEW c \in Cmes, Db3Told(c, "SUSPEND")
    PROVE  Replies'
  <1>1. /\ c = "qm" => Writes3(G1, "sib", "SUSPEND")' /\ G2'[1] = "PollDroop"
        /\ c = "sib" => G1'[1] = "PollDroop"
    BY DEF Db3Told, PgpePops, PNext, PFirst, Writes3
  <1>2. PICK x : x = G1'
    OBVIOUS
  <1>3. \/ x[1] = "Write3" /\ x[2][1] = "sib" /\ x[2][2] = "SUSPEND" /\ G2'[1] = "PollDroop"
        \/ x[1] = "PollDroop"
    BY <1>1, <1>2 DEF Writes3, Cmes
  <1>4. ~Due'
    BY <1>2, <1>3, NotDue DEF Awaiting, Half, HalfM, Writes3, Kept
  <1>5. Starting => Starting'
    BY <1>2, <1>3 DEF Starting, Db3Told, Writes0
  <1>6. Updating /\ Updating'
    BY <1>5 DEF Replies, GPart, R4, Updating, Db3Told
  <1>7. /\ ~WritesQm(x) /\ \A n : ~Writes0(x, n)
    BY <1>3 DEF WritesQm, Writes0
  <1>8. R4'
    BY <1>2, <1>3, <1>6, <1>7 DEF R4, Replies, GPart, Db3Told
  <1>9. \A n : ~Writes0(G1, n)'
    BY <1>2, <1>7
  <1>10. GPart'
    BY <1>5, <1>8, <1>9, TellsDb3G
  <1> QED BY <1>4, <1>10, GReplies DEF Db3Told, PgpePops

(* The quad manager hears the message first: the answer to it will do.     *)
LEMMA TellsFirst ==
    ASSUME TypeInv, TypeInv', Kept, Kept', Replies, NEW m \in Db3Messages, m # "SUSPEND",
           Db3Told("qm", m)
    PROVE  Replies'
  <1>1. /\ PgpePops /\ G1[1] = "Write3" /\ G1[2][1] = "qm" /\ G1[2][2] = m
        /\ GNext(G1, G2, G3, registered, Interlock) /\ PFirst(G1, G2)'
        /\ registered /\ type4 = "none" /\ alive /\ RQ' = RQ /\ Q1' = Q1
        /\ UNCHANGED <<db0, flags, alive, type4, registered, mode>>
        /\ Msg0' = Msg0 /\ (Enabled' <=> Enabled) /\ db3'["qm"] = m
        /\ G1' = G2 /\ G2' = G3 /\ QSame
    BY DEF Db3Told, Db3Posted, PgpePops
  <1>2. R1 /\ R2 /\ R4
    BY DEF Replies, GPart
  <1>3. ~AckDue /\ ~Db0Due' /\ ~RegHead'
    <2>1. ~Awaiting /\ ~Half
      BY <1>1 DEF Awaiting, Half, HalfM, Writes3
    <2>2. ~AckDue /\ ~Db0Due /\ ~RegHead
      BY <2>1 DEF Kept, Exchange, E1, Due
    <2> QED BY <2>2, Db3Views DEF Db3Told
  <1>4. PICK x, y : x = G1' /\ y = G2'
    OBVIOUS
  <1>5. \/ Writes3(x, "sib", m)
        \/ x[1] = "Write0" /\ x[2][1] = {"sib"} /\ Writes3(y, "sib", m) /\ Msg0 = "PAYLOAD"
    BY <1>1, <1>2, <1>4 DEF GNext, R4
  <1>6. Expects(ReplyTo3(m))' /\ m \in Ms
    BY <1>1, <1>4, <1>5 DEF HalfM, Writes3, Expects, Ms, Db3Messages
  <1>7. /\ ~WritesQm(x) /\ \A n : ~Writes0(x, n)
        /\ x[1] = "Write3" => x[2][1] = "sib" /\ x[2][2] = m /\ y[1] = "AwaitAck"
        /\ x[1] # "PollDroop"
    <2>1. CASE Writes3(x, "sib", m)
      BY <1>1, <1>4, <2>1, CmeSets DEF Writes3, WritesQm, Writes0, PFirst, Expect
    <2>2. CASE x[1] = "Write0" /\ x[2][1] = {"sib"}
      BY <2>2, CmeSets DEF WritesQm, Writes0
    <2> QED BY <1>5, <2>1, <2>2
  <1>8. /\ m \in LockLike => Updating
        /\ Starting => m \in Replayed /\ Msg0 = "START" /\ ~Enabled
    BY <1>1, <1>2 DEF R4, Starting, Writes0, Repeats, Expect
  <1>9. (Starting => Starting') /\ (Starting' => m \in Replayed /\ Starting)
    <2>1. Starting => Starting'
      BY <1>1, <1>4, <1>5, <1>8 DEF Starting, Writes3
    <2>2. Starting' => m \in Replayed /\ Starting
      BY <1>1, <1>4, <1>5, <1>7 DEF Starting, Repeats, Expect, Writes3
    <2> QED BY <2>1, <2>2
  <1>10. Owed3(m)'
    <2>1. CASE m \in LockLike
      <3>1. Msg0 \in {"GLB", "PAYLOAD"} \/ (Msg0 = "START" /\ Starting)
        BY <1>8, <2>1 DEF Updating
      <3>2. ReplyTo(Msg0) = ReplyTo3(m)
        BY <2>1, <3>1 DEF ReplyTo, ReplyTo3, LockLike
      <3>3. Readable'
        BY <1>1, <1>6, <1>9, <3>1, <3>2 DEF Readable
      <3> QED BY <2>1, <3>3 DEF Owed3
    <2>2. CASE m \notin LockLike
      BY <1>6, <1>9, <2>2 DEF Owed3, LockLike, Replayed
    <2> QED BY <2>1, <2>2
  <1>11. R1'
    <2>1. \A z \in RQ : z[1] \notin AckKinds
      BY <1>3 DEF AckDue
    <2>2. \A z \in RQ : ~In0(z)
      BY <2>1, NoneOwed DEF TypeInv, TodoType, Processes, Kept, Forms, RQ
    <2>3. \A z \in RQ' : Owed(z)'
      BY <1>1, <1>2, <2>1, <2>2 DEF R1, Owed, AckKinds
    <2> QED BY <1>1, <1>3, <1>10, <2>3 DEF R1
  <1>12. R2'
    BY <1>1, <1>2 DEF R2, QSame
  <1>13. R4'
    BY <1>1, <1>2, <1>4, <1>5, <1>7 DEF R4
  <1>14. \A n : ~Writes0(G1, n)'
    BY <1>4, <1>7
  <1>15. GPart'
    BY <1>9, <1>13, <1>14, TellsDb3G
  <1> QED BY <1>11, <1>12, <1>15 DEF Replies

(* Then its sibling does: now the PGPE waits.                              *)
LEMMA TellsSecond ==
    ASSUME TypeInv, TypeInv', Kept, Kept', Replies, NEW m \in Db3Messages, m # "SUSPEND",
           Db3Told("sib", m)
    PROVE  Replies'
  <1>1. /\ PgpePops /\ G1[1] = "Write3" /\ G1[2][1] = "sib" /\ G1[2][2] = m
        /\ registered /\ type4 = "none" /\ alive /\ RQ' = RQ /\ Q1' = Q1
        /\ UNCHANGED <<db0, flags, alive, type4, registered, mode>>
        /\ Msg0' = Msg0 /\ (Enabled' <=> Enabled) /\ db3'["qm"] = db3["qm"]
        /\ ("DB3" \in eisr'["qm"] <=> "DB3" \in eisr["qm"])
        /\ PFirst(G1, G2) /\ G1' = G2 /\ QSame
    BY DEF Db3Told, Db3Posted, PgpePops, PNext
  <1>2. R1 /\ R2 /\ R4
    BY DEF Replies, GPart
  <1>3. PICK x : x = G1'
    OBVIOUS
  <1>4. Expect(x, ReplyTo3(m)) /\ (m \in Replayed => Repeats(x)) /\ x[1] = "AwaitAck"
    BY <1>1, <1>3 DEF PFirst, Expect
  <1>5. /\ (AckDue' <=> AckDue) /\ (Db0Due' <=> Db0Due) /\ (RegHead' <=> RegHead)
        /\ (Db3Due' <=> Db3Due)
    BY <1>1, Db3Views DEF Db3Told, Db3Due
  <1>6. \A e : Expects(e) => Expects(e)'
    <2>1. \A e : ~Expect(G1, e)
      BY <1>1 DEF Expect
    <2>2. \A n : HalfM(n) => n = m
      BY <1>1 DEF HalfM, Writes3
    <2> QED BY <1>3, <1>4, <2>1, <2>2 DEF Expects
  <1>7. Starting' <=> Starting
    <2>1. Starting => Msg0 = "START" /\ ~Enabled /\ m \in Replayed
      BY <1>1 DEF Starting, Writes0, Repeats, Expect
    <2>2. Starting => Starting'
      BY <1>1, <1>3, <1>4, <2>1 DEF Starting
    <2>3. Starting' => Starting
      BY <1>1 DEF Db3Told, Starting
    <2> QED BY <2>2, <2>3
  <1>8. Readable => Readable'
    BY <1>1, <1>6, <1>7 DEF Readable
  <1>9. R1'
    <2>1. \A y \in RQ' : Owed(y)'
      BY <1>1, <1>2, <1>6, <1>7, <1>8 DEF R1, Owed
    <2>2. \A n \in Db3Messages : Owed3(n) => Owed3(n)'
      BY <1>6, <1>7, <1>8 DEF Owed3
    <2> QED BY <1>1, <1>2, <1>5, <1>8, <2>1, <2>2 DEF R1
  <1>10. R2'
    BY <1>1, <1>2 DEF R2, QSame
  <1>11. ~WritesQm(x) /\ \A n : ~Writes0(x, n)
    BY <1>4 DEF WritesQm, Writes0
  <1>12. R4'
    BY <1>1, <1>2, <1>3, <1>4, <1>11 DEF R4
  <1>13. \A n : ~Writes0(G1, n)'
    BY <1>3, <1>11
  <1>14. GPart'
    BY <1>7, <1>12, <1>13, TellsDb3G
  <1> QED BY <1>9, <1>10, <1>14 DEF Replies

LEMMA RepliesWriteDb3 ==
    ASSUME TypeInv, TypeInv', Kept, Kept', Replies, WriteDb3
    PROVE  Replies' /\ panic' = panic
  <1>1. PICK c \in Cmes, m \in Db3Messages : Db3Told(c, m)
    BY TellsDb3
  <1>2. c = "qm" \/ c = "sib"
    BY DEF Cmes
  <1> QED BY <1>1, <1>2, TellsDb3, TellsSuspend, TellsFirst, TellsSecond

-----------------------------------------------------------------------------
(* Before anything is asked.                                               *)
LEMMA InitReplies == TypeInv /\ Kept /\ Init => Replies
  <1> SUFFICES ASSUME TypeInv, Kept, Init PROVE Replies
    OBVIOUS
  <1>1. /\ todo["qm"] \in Seq(Steps) /\ todo["pgpe"] = <<>> /\ Q1[1] = "Raise"
        /\ \A x \in RQ : x[1] \in {"Raise", "AwaitAnswerOrRetry", "Send", "AwaitMsgAck",
                                   "Register", "Ready"}
        /\ QForm(todo["qm"]) /\ RQ = StepsOf(todo["qm"])
    BY BootViews DEF TypeInv, TodoType, Processes, Kept, Forms, RQ, Init
  <1>2. eisr["qm"] = {} /\ type4 = "none" /\ ~registered /\ ~Enabled /\ Msg0 = "NONE"
    BY DEF Init, Enabled, Msg0, NoMessage, Message, Cmes
  <1>3. G1 = End /\ RG = {} /\ ~WritesQm(G1) /\ \A m : ~Writes0(G1, m)
    BY <1>1, EmptyItems, NoEnd DEF G1, RG, WritesQm, Writes0
  <1>4. \A y \in RQ : ~In0(y) /\ y[1] \notin AckKinds \union {"ToFsafe", "Db0Stop"}
    <2>1. \A y \in RQ : y[1] \notin AckKinds \union {"ToFsafe", "Db0Stop"}
      BY <1>1 DEF AckKinds
    <2>2. \A y \in RQ : ~In0(y)
      BY <1>1, <2>1, NoneOwed
    <2> QED BY <2>1, <2>2
  <1>5. R1
    <2>1. \A y \in RQ : Owed(y)
      BY <1>4 DEF Owed, AckKinds
    <2>2. ~RegHead /\ ~Db0Due /\ ~Db3Due
      BY <1>1, <1>2 DEF RegHead, Db0Due, Db3Due
    <2> QED BY <2>1, <2>2 DEF R1
  <1>6. R2
    <2>1. <<"SendAck", "suspended">> \notin RQ
      BY <1>4 DEF AckKinds
    <2>2. \A i \in Nat : Item(todo["qm"], i)[1] # "Db0Stop"
      BY <1>1, <1>4, ItemsOf, NoEnd
    <2> QED BY <1>1, <2>1, <2>2 DEF R2
  <1>7. R3 /\ R4 /\ R5
    BY <1>2, <1>3, NoEnd DEF R3, R4, R5, Unsent
  <1>8. PForm(todo["pgpe"])
    BY <1>1 DEF PForm
  <1> QED BY <1>5, <1>6, <1>7, <1>8 DEF Replies, GPart

LEMMA HandleQmReplies ==
    ASSUME TypeInv, TypeInv', Kept, Kept', Replies, Handle("qm")
    PROVE  Replies' /\ panic' = panic
  BY QmHandles, RepliesRegister, RepliesToFsafe DEF Handle

LEMMA ManageReplies ==
    ASSUME TypeInv, TypeInv', Kept, Kept', Replies, Manage
    PROVE  Replies' /\ panic' = panic
  BY QmManages, RepliesReadDb0, RepliesNotify, RepliesDb0Started, RepliesAckUpdate,
     RepliesDb0Stop, RepliesSendAck, RepliesAwaitDb0, RepliesRegisterDb0
  DEF Manage

LEMMA NextReplies ==
    ASSUME QuadRegime, TypeInv, TypeInv', Kept, Kept', Replies, [Next]_vars
    PROVE  Replies' /\ panic' = panic
  <1>0. ~LateRetry /\ ~WritesApart
    BY DEF QuadRegime
  <1>1. CASE UNCHANGED vars
    <2>1. /\ UNCHANGED <<todo, eisr, flags, db0, db3, type4, mode, registered, alive, panic>>
      BY <1>1 DEF vars, irqVars, doorbellVars, cmeVars, sysVars, pgpeVars
    <2>2. Aside /\ GSame
      BY <2>1 DEF Aside, QSame, GSame, Enabled
    <2> QED BY <2>1, <2>2, AsideReplies
  <1>2. ASSUME NEW c \in Cmes, Handle(c) PROVE Replies' /\ panic' = panic
    BY <1>2, HandleQmReplies, SibHandles, BesideReplies DEF Cmes
  <1>3. ASSUME NEW c \in Cmes, FitTick(c) \/ BeginStop(c) \/ EndStop(c)
        PROVE  Replies' /\ panic' = panic
    BY <1>3, BesideQuad, BesideReplies
  <1>4. CASE Manage
    BY <1>4, ManageReplies
  <1>5. CASE Follow
    BY <1>5, SibFollows, BesideReplies
  <1>6. CASE Interrupts
    <2>1. ASSUME NEW c \in Cmes, TakeDb3(c) \/ TakeHeartbeatLoss(c)
          PROVE  Replies' /\ panic' = panic
      <3>1. c = "qm" \/ c = "sib"
        BY DEF Cmes
      <3>2. CASE c = "qm"
        BY <2>1, <3>2, RepliesTakeDb3, RepliesTakeLoss
      <3>3. CASE c = "sib"
        BY <2>1, <3>3, SibTakes, BesideReplies
      <3> QED BY <3>1, <3>2, <3>3
    <2> QED BY <1>6, <2>1, RepliesTakeDb0, SibTakes, BesideReplies DEF Interrupts
  <1>7. CASE Retry
    BY <1>7, BesideQuad, BesideReplies DEF Cmes
  <1>8. CASE Pgpe
    BY <1>0, <1>8, RepliesRegistration, RepliesWriteDb0, RepliesWriteDb3, RepliesAwaitAck,
       RepliesPollDroop, RepliesBecome DEF Pgpe
  <1>9. ASSUME NEW op \in Operations, Operate(op) PROVE Replies' /\ panic' = panic
    BY <1>0, <1>9, CmeAssumption, RepliesOperate
  <1>10. ASSUME NEW op \in WhileBooting, OperateElsewhere(op)
         PROVE  Replies' /\ panic' = panic
    BY <1>10, RepliesElsewhere DEF QuadRegime
  <1>11. ASSUME NEW when \in HeartbeatLoss, PgpeDies(when) PROVE Replies' /\ panic' = panic
    BY <1>11, RepliesDies DEF QuadRegime
  <1> QED BY <1>1, <1>2, <1>3, <1>4, <1>5, <1>6, <1>7, <1>8, <1>9, <1>10, <1>11 DEF Next

(* Under the same regime no CME and no PGPE panics: the quad manager never *)
(* reads a message in doorbell 0 that it does not know or that comes when  *)
(* it must not (p9_cme_pstate_process_db0, p9_cme_pstate_db0_start, the    *)
(* default of its switch), its sibling is never notified of one            *)
(* (p9_cme_pstate_process_db0_sibling), and p9_pgpe_wait_cme_db_ack takes  *)
(* no answer but the one it waits for or a refusal it can act on.          *)
THEOREM NobodyPanics == QuadRegime => (Spec => []NoPanic)
  <1> SUFFICES ASSUME QuadRegime PROVE Spec => []NoPanic
    OBVIOUS
  <1> DEFINE Calmly == Replies /\ panic = {}
  <1>1. TypeInv /\ Kept /\ Init => Calmly
    BY InitReplies DEF Init
  <1>2. TypeInv /\ TypeInv' /\ Kept /\ Kept' /\ Calmly /\ [Next]_vars => Calmly'
    BY NextReplies
  <1>3. Calmly => NoPanic
    BY DEF NoPanic
  <1>4. Spec => []TypeInv
    BY TypesHold
  <1>5. Spec => []Kept
    BY KeptHolds
  <1> HIDE DEF Calmly
  <1> QED BY <1>1, <1>2, <1>3, <1>4, <1>5, PTL DEF Spec
=============================================================================
