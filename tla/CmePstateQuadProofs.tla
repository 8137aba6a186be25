------------------------ MODULE CmePstateQuadProofs -------------------------
(***************************************************************************)
(* That every step of the sibling and of the PGPE keeps it too, and the    *)
(* boot of the quad begins with it; so that under QuadRegime the clock moves*)
(* only while the sibling stands still (LockedDuringAnalog), and no signal,*)
(* message or answer outlives its exchange (NothingLeftOver).              *)
(***************************************************************************)
EXTENDS CmePstateProofs

-----------------------------------------------------------------------------
(* How often the sibling is still to be stopped.                           *)
LockStep == <<"Receive", "LOCK">>
LockPlaces(s) == {i \in 1 .. Len(s) : s[i] = LockStep}

LEMMA LocksAre ==
    ASSUME NEW s \in Seq(Steps)
    PROVE  /\ IsFiniteSet(LockPlaces(s)) /\ Locks(s) = Cardinality(LockPlaces(s))
           /\ Locks(s) \in Nat
           /\ Locks(s) = 0 <=> LockStep \notin StepsOf(s)
  <1>1. Len(s) \in Nat /\ LockPlaces(s) \subseteq 1 .. Len(s)
    BY DEF LockPlaces
  <1>2. IsFiniteSet(1 .. Len(s))
    BY <1>1, FS_Interval
  <1>3. IsFiniteSet(LockPlaces(s))
    BY <1>1, <1>2, FS_Subset
  <1>4. Locks(s) = Cardinality(LockPlaces(s))
    BY DEF Locks, LockPlaces, LockStep
  <1>5. Locks(s) \in Nat
    BY <1>3, <1>4, FS_CardinalityType
  <1>6. Locks(s) = 0 <=> LockPlaces(s) = {}
    BY <1>3, <1>4, FS_EmptySet
  <1>7. LockPlaces(s) = {} <=> LockStep \notin StepsOf(s)
    BY DEF LockPlaces, StepsOf
  <1> QED BY <1>3, <1>4, <1>5, <1>6, <1>7

LEMMA LocksTail ==
    ASSUME NEW s \in Seq(Steps), s # <<>>
    PROVE  /\ Item(s, 1) = LockStep => Locks(s) = Locks(Tail(s)) + 1
           /\ Item(s, 1) # LockStep => Locks(s) = Locks(Tail(s))
  <1>1. /\ Tail(s) \in Seq(Steps) /\ Len(s) \in Nat \ {0}
        /\ Len(Tail(s)) = Len(s) - 1
        /\ \A i \in 1 .. Len(s) - 1 : Tail(s)[i] = s[i + 1]
        /\ Item(s, 1) = s[1]
    BY HeadTailProperties DEF Item
  <1>2. PICK A, B : A = LockPlaces(Tail(s)) /\ B = LockPlaces(s) \ {1}
    OBVIOUS
  <1>3. IsFiniteSet(A) /\ IsFiniteSet(LockPlaces(s)) /\ A \subseteq 1 .. Len(s) - 1
    BY <1>1, <1>2, LocksAre DEF LockPlaces
  <1>4. PICK f : f = [i \in A |-> i + 1]
    OBVIOUS
  <1>5. f \in Bijection(A, B)
    <2>1. \A i \in A : f[i] \in B
      BY <1>1, <1>2, <1>3, <1>4 DEF LockPlaces
    <2>2. \A i, j \in A : f[i] = f[j] => i = j
      BY <1>1, <1>3, <1>4
    <2>3. \A b \in B : \E i \in A : f[i] = b
      <3> SUFFICES ASSUME NEW b \in B PROVE \E i \in A : f[i] = b
        OBVIOUS
      <3>1. b \in 1 .. Len(s) /\ b # 1 /\ s[b] = LockStep
        BY <1>2 DEF LockPlaces
      <3>2. b - 1 \in 1 .. Len(Tail(s)) /\ Tail(s)[b - 1] = s[b] /\ (b - 1) + 1 = b
        BY <1>1, <3>1
      <3>3. b - 1 \in A
        BY <1>2, <3>1, <3>2 DEF LockPlaces
      <3> QED BY <1>4, <3>2, <3>3
    <2>4. f \in [A -> B]
      BY <1>4, <2>1
    <2>5. f \in Injection(A, B)
      BY <2>2, <2>4 DEF Injection, IsInjective
    <2>6. f \in Surjection(A, B)
      BY <2>3, <2>4 DEF Surjection
    <2> QED BY <2>5, <2>6 DEF Bijection
  <1>6. IsFiniteSet(B) /\ Cardinality(B) = Cardinality(A)
    BY <1>3, <1>5, FS_Bijection DEF ExistsBijection
  <1>7. CASE s[1] = LockStep
    <2>1. LockPlaces(s) = B \union {1} /\ 1 \notin B
      BY <1>1, <1>2, <1>7 DEF LockPlaces
    <2>2. Cardinality(LockPlaces(s)) = Cardinality(B) + 1
      BY <1>6, <2>1, FS_AddElement
    <2> QED BY <1>1, <1>2, <1>6, <1>7, <2>2, LocksAre
  <1>8. CASE s[1] # LockStep
    BY <1>2, <1>8, <1>1, <1>6, LocksAre DEF LockPlaces
  <1> QED BY <1>7, <1>8

LEMMA LocksCons ==
    ASSUME NEW x \in Steps, NEW s \in Seq(Steps)
    PROVE  /\ x = LockStep => Locks(Cons(x, s)) = Locks(s) + 1
           /\ x # LockStep => Locks(Cons(x, s)) = Locks(s)
  <1>1. PICK t \in Seq(Steps) : t = Cons(x, s) /\ t # <<>> /\ Item(t, 1) = x /\ Tail(t) = s
    BY ConsItems
  <1> QED BY <1>1, LocksTail

-----------------------------------------------------------------------------
(* Steps of the sibling that exchange nothing with the quad manager.       *)
SibStep ==
    /\ QSame /\ GSame /\ SForm(todo["sib"])'
    /\ UNCHANGED <<icrr, db0, db3, type4, registered, alive, mode>>
    /\ "qm" \in skipLock' <=> "qm" \in skipLock
    /\ SameFlags
    /\ \A b \in {"DB0", "DB3", "HB"} : b \in eisr'["qm"] <=> b \in eisr["qm"]
    /\ \A b \in {"DB3", "HB"} : b \in eisr'["sib"] => b \in eisr["sib"]

LEMMA SibRest ==
    ASSUME TypeInv, Kept, SibStep
    PROVE  /\ Exchange' /\ Forms'
           /\ Q1' = Q1 /\ Q2' = Q2 /\ Q3' = Q3 /\ RQ' = RQ
           /\ G1' = G1 /\ G2' = G2
           /\ HasReg' <=> HasReg
           /\ RegDue' <=> RegDue
           /\ \A n \in 1 .. 3 : RegLeft(n)' <=> RegLeft(n)
           /\ Interlock' = Interlock
           /\ "REGISTERING" \in flags'["qm"] <=> "REGISTERING" \in flags["qm"]
  <1>1. /\ Q1' = Q1 /\ Q2' = Q2 /\ Q3' = Q3 /\ RQ' = RQ
        /\ G1' = G1 /\ G2' = G2
    BY SamesViews DEF SibStep
  <1>2. SamePgpe /\ Interlock' = Interlock
    BY DEF SibStep, SamePgpe, Interlock, SameFlags
  <1>3. /\ RegDue' <=> RegDue
        /\ AckDue' <=> AckDue
        /\ In2Due' <=> In2Due
        /\ HasReg' <=> HasReg
        /\ \A n \in 1 .. 3 : RegLeft(n)' <=> RegLeft(n)
    BY <1>1 DEF RegDue, RegLeft, AckDue, In2Due, HasReg
  <1>4. Exchange'
    <2>1. RegHead' <=> RegHead
      BY <1>1 DEF RegHead, Msg0, SibStep
    <2>2. NoMoreDue
      BY <1>1, <1>3, <2>1 DEF NoMoreDue, SibStep, SameFlags
    <2> QED BY <1>2, <2>2, NoMoreExchange DEF Kept, SibStep
  <1>5. Forms'
    BY <1>2, FormsKept DEF Kept, Forms, SibStep, QSame
  <1> QED BY <1>1, <1>2, <1>3, <1>4, <1>5 DEF SibStep, SameFlags

(* Where it meets the quad manager in IN2 is where it was.                 *)
SameMeeting ==
    /\ \A k \in Ks : SOpen(k)' <=> SOpen(k)
    /\ SClipMid' <=> SClipMid
    /\ SHbMid' <=> SHbMid

LEMMA SibPairing ==
    ASSUME TypeInv, Kept, SibStep, SameMeeting, "IN2" \in eisr'["qm"] <=> "IN2" \in eisr["qm"]
    PROVE  Pairing'
  <1>1. /\ Q1' = Q1 /\ Q2' = Q2 /\ Q3' = Q3 /\ G1' = G1 /\ G2' = G2
    BY SibRest
  <1>2. /\ Unanswered("IN2")' <=> Unanswered("IN2")
        /\ Answered2' <=> Answered2
    BY <1>1 DEF Unanswered, Awaits, Answered2
  <1>3. /\ \A k \in Ks : QOpen(k)' <=> QOpen(k)
        /\ QClipMid' <=> QClipMid
        /\ QHbMid' <=> QHbMid
    BY <1>1, <1>2 DEF QOpen, QClipMid, QHbMid
  <1>4. /\ \A k \in Ks : (QPend(k)' <=> QPend(k)) /\ (SPend(k)' => SPend(k))
        /\ \A k \in Ks : SOpen(k)' <=> SOpen(k)
    BY DEF QPend, SPend, SibStep, SameMeeting
  <1>5. C1' /\ C2'
    <2>1. C1'
      BY <1>3, <1>4 DEF Kept, Pairing, C1
    <2>2. QOpen("last")' <=> QOpen("last")
      BY <1>3 DEF Ks
    <2> QED BY <1>3, <2>1, <2>2 DEF Kept, Pairing, C2, SameMeeting
  <1>6. C3'
    <2> SUFFICES ASSUME NEW m \in Ms, HalfM(m)'
                 PROVE  /\ ("DB3" \in eisr'["qm"] /\ db3'["qm"] = m) \/ QOpen(Reason[m])'
                        /\ ~SClipMid' /\ ~SHbMid'
                        /\ \A k \in Ks : ~SPend(k)' /\ ~SOpen(k)'
      BY DEF C3
    <2>1. HalfM(m)
      BY <1>1 DEF HalfM, SibStep
    <2>2. Reason[m] \in Ks
      BY DEF Reason, Ms, Ks
    <2> QED BY <1>3, <1>4, <2>1, <2>2 DEF Kept, Pairing, C3, SameMeeting, SibStep
  <1>7. C4' /\ C5'
    BY <1>4 DEF Kept, Pairing, C4, C5, SameMeeting
  <1> QED BY <1>5, <1>6, <1>7 DEF Pairing

LEMMA SibStandstill ==
    ASSUME TypeInv, Kept, SibStep, Held => Held',
           \A b \in {"ACK", "IN2"} : b \in eisr'["qm"] => b \in eisr["qm"],
           SHbMid => SHbMid',
           SHbMid' \/ ~Is(S1, "AwaitSignal", "IN2") \/ "IN2" \in eisr["sib"]
    PROVE  Standstill'
  <1>1. Q1' = Q1 /\ Q2' = Q2 /\ RQ' = RQ
    BY SibRest
  <1>2. Answered2' => Answered2
    BY <1>1 DEF Answered2, Awaits
  <1>3. L1' /\ L2' /\ L3' /\ L4'
    BY <1>1, <1>2 DEF Kept, Standstill, L1, L2, L3, L4, SibStep
  <1>4. L5'
    BY <1>1, <1>2 DEF Kept, Standstill, L5, QHbMid
  <1>5. K1'
    BY <1>1 DEF Kept, Standstill, K1, SibStep
  <1> QED BY <1>3, <1>4, <1>5 DEF Standstill

LEMMA SibBoot ==
    ASSUME TypeInv, Kept, SibStep, S1[1] # "Receive",
           "ACK" \in eisr'["qm"] => "ACK" \in eisr["qm"],
           \A x \in RS' : x[1] \in {"Receive", "Register"} => x \in RS,
           \A x \in RS : x[1] \in {"Receive", "Register"} => x \in RS',
           Locks(todo["sib"])' = Locks(todo["sib"]),
           "ACK" \in eisr["qm"] => "ACK" \in eisr'["qm"]
    PROVE  Boot'
  <1>1. /\ Q1' = Q1 /\ RQ' = RQ /\ Interlock' = Interlock
        /\ HasReg' <=> HasReg
        /\ RegDue' <=> RegDue
        /\ \A n \in 1 .. 3 : RegLeft(n)' <=> RegLeft(n)
        /\ "REGISTERING" \in flags'["qm"] <=> "REGISTERING" \in flags["qm"]
    BY SibRest
  <1>2. \A m \in MTypes : (Unacked(m)' <=> Unacked(m)) /\ (SendDue(m)' <=> SendDue(m))
    BY <1>1 DEF Unacked, SendDue
  <1>3. /\ \A m : <<"Receive", m>> \in RS' <=> <<"Receive", m>> \in RS
        /\ <<"Register", "">> \in RS' <=> <<"Register", "">> \in RS
    OBVIOUS
  <1>4. LocksDue' = LocksDue /\ LocksLeft' = LocksLeft
    <2>1. /\ RegLeft(1)' <=> RegLeft(1)
          /\ RegLeft(2)' <=> RegLeft(2)
          /\ RegLeft(3)' <=> RegLeft(3)
          /\ SendDue("LOCK")' <=> SendDue("LOCK")
      BY <1>1, <1>2 DEF MTypes
    <2>2. RegistrationsLeft' = RegistrationsLeft
      BY <1>1, <2>1 DEF RegistrationsLeft
    <2>3. LocksDue' = LocksDue
      BY <2>1, <2>2 DEF LocksDue
    <2>4. LocksLeft' = LocksLeft
      BY <1>1, <1>3 DEF LocksLeft
    <2> QED BY <2>3, <2>4
  <1>5. B1'
    BY <1>2, <1>3, <1>4 DEF Kept, Boot, B1, MTypes
  <1>6. B2'
    <2> SUFFICES ASSUME ~SendDue("SYNC")'
                 PROVE  /\ <<"Register", "">> \notin RS'
                        /\ \A x \in RS' : x[1] # "Receive"
                        /\ Locks(todo["sib"])' \in {0, 1}
      BY DEF B2
    <2>1. ~SendDue("SYNC") /\ B2
      BY <1>2 DEF Kept, Boot, MTypes
    <2>2. \A x \in RS : x[1] # "Receive"
      BY <2>1 DEF B2
    <2> QED BY <1>3, <2>1, <2>2 DEF B2
  <1>7. B3' /\ B4' /\ B5'
    BY <1>1, <1>2, <1>3 DEF Kept, Boot, B3, B4, B5, MTypes
  <1> QED BY <1>5, <1>6, <1>7 DEF Boot

-----------------------------------------------------------------------------
(* Steps of the sibling that send nothing.                                 *)
ServeKinds == {"Suspended", "Answer", "SiblingDb0"}
QuietStep ==
    /\ SibStep /\ S1 # End /\ S1[1] \notin {"Receive", "Register"}
    /\ eisr'["qm"] = eisr["qm"] /\ eisr'["sib"] \subseteq eisr["sib"]
    /\ \A b \in eisr["sib"] \ eisr'["sib"] :
           Is(S1, "ClearBit", b) \/ S1[1] = "PowerOn" \/ b = "DB0"
    /\ \A x : Is(S1, "ClearBit", x) => x \notin eisr'["sib"]
    /\ ticks' = ticks
    /\ \A x \in RS' : x \in RS \/ x[1] \in ServeKinds
    /\ \A x \in RS : x \in RS' \/ x = S1
    /\ Locks(todo["sib"])' = Locks(todo["sib"])
    /\ S1'[1] # "ClearBit"
    /\ SameMeeting
    /\ Held => Held'

LEMMA SibQuiet ==
    ASSUME TypeInv, Kept, QuietStep, W5',
           ~Is(S1, "AwaitSignal", "IN2") \/ "IN2" \in eisr["sib"]
    PROVE  Kept'
  <1>1. /\ Exchange' /\ Forms'
        /\ Q1' = Q1 /\ Q2' = Q2 /\ RQ' = RQ
        /\ HasReg' <=> HasReg
        /\ RegDue' <=> RegDue
    BY SibRest DEF QuietStep
  <1>2. Lines'
    <2>1. \A x : (Awaits(x)' <=> Awaits(x)) /\ (Unanswered(x)' <=> Unanswered(x))
      BY <1>1 DEF QuietStep, Awaits, Unanswered
    <2>2. \A m : Unacked(m)' <=> Unacked(m)
      BY <1>1 DEF QuietStep, Unacked
    <2>3. W1' /\ W3'
      BY <1>1, <2>1 DEF Kept, Lines, W1, W3, QuietStep
    <2>4. W2'
      BY <2>1 DEF Kept, Lines, W2, QuietStep
    <2>5. W4'
      BY <2>2 DEF Kept, Lines, W4, QuietStep, SibStep
    <2> QED BY <2>3, <2>4, <2>5 DEF Lines
  <1>3. Ticks'
    <2>1. T1'
      BY <1>1 DEF Kept, Ticks, T1, QuietStep
    <2>2. T2'
      <3> SUFFICES ASSUME ticks["RECVD"] > 0
                   PROVE  /\ "RECVD" \in eisr'["sib"]
                          /\ \A x \in RS' : x[1] \notin {"Receive", "Register", "PowerOn"}
                          /\ ~Is(S1, "ClearBit", "RECVD")'
        BY DEF T2, QuietStep
      <3>1. /\ "RECVD" \in eisr["sib"] /\ ~Is(S1, "ClearBit", "RECVD")
            /\ \A x \in RS : x[1] \notin {"Receive", "Register", "PowerOn"}
        BY DEF Kept, Ticks, T2
      <3>2. S1[1] # "PowerOn"
        BY <3>1, Heads, NoEnd DEF QuietStep
      <3>3. "RECVD" \in eisr'["sib"]
        BY <3>1, <3>2 DEF QuietStep
      <3>4. \A x \in RS' : x[1] \notin {"Receive", "Register", "PowerOn"}
        BY <3>1 DEF QuietStep, ServeKinds
      <3>5. ~Is(S1, "ClearBit", "RECVD")'
        BY DEF QuietStep, Is
      <3> QED BY <3>3, <3>4, <3>5
    <2>3. T3'
      BY DEF Kept, Ticks, T3, QuietStep
    <2> QED BY <2>1, <2>2, <2>3 DEF Ticks
  <1>4. Boot'
    <2>1. \A x \in RS' : x[1] \in {"Receive", "Register"} => x \in RS
      BY DEF QuietStep, ServeKinds
    <2>2. \A x \in RS : x[1] \in {"Receive", "Register"} => x \in RS'
      BY DEF QuietStep
    <2> QED BY <2>1, <2>2, SibBoot DEF QuietStep
  <1>5. Pairing'
    BY SibPairing DEF QuietStep
  <1>6. Standstill'
    BY SibStandstill DEF QuietStep, SameMeeting
  <1> QED BY <1>1, <1>2, <1>3, <1>4, <1>5, <1>6 DEF Kept

-----------------------------------------------------------------------------
(* A step done.                                                            *)
SStill == {"AwaitSignal", "ClearBit", "PowerOn", "Ready", "EndDb3", "Spin", "CheckIn0",
           "SiblingDb0", "Suspended", "Store"}

LEMMA MeetingMoves ==
    ASSUME SPops, S1[1] \in SStill
    PROVE  SameMeeting
  <1>1. S1' = S2 /\ S2' = S3 /\ SNext(S1, S2)
    BY DEF SPops
  <1>2. CASE S1[1] = "AwaitSignal"
    <2>1. S1'[1] = "Answer" /\ S1'[2] = S1[2]
      BY <1>1, <1>2 DEF SNext
    <2>2. \A k \in Ks : SOpen(k)' <=> SOpen(k)
      BY <1>1, <1>2, <2>1 DEF SOpen, Is
    <2>3. ~SClipMid /\ ~SClipMid' /\ ~SHbMid /\ ~SHbMid'
      BY <1>2, <2>1 DEF SClipMid, SHbMid, Is
    <2> QED BY <2>2, <2>3 DEF SameMeeting
  <1>3. CASE S1[1] = "ClearBit"
    <2>1. S1'[1] \notin {"Answer", "Pmsr", "ClearBit"} /\ ~Is(S1, "AwaitSignal", "IN2")'
      BY <1>1, <1>3 DEF SNext, Is
    <2>2. S1'[1] \in {"Store", "ToFsafe"} => S1[2] = "IN2"
      BY <1>1, <1>3 DEF SNext
    <2>3. \A k \in Ks : ~SOpen(k)' /\ ~SOpen(k)
      BY <1>3, <2>1 DEF SOpen, Is
    <2>4. (SClipMid' <=> SClipMid) /\ (SHbMid' <=> SHbMid)
      BY <1>1, <1>3, <2>1, <2>2 DEF SClipMid, SHbMid, Is
    <2> QED BY <2>3, <2>4 DEF SameMeeting
  <1>4. CASE S1[1] \in {"SiblingDb0", "Suspended"}
    <2>1. S1'[1] = "Answer" /\ S1'[2] # "IN2"
      BY <1>1, <1>4 DEF SNext
    <2>2. \A k \in Ks : ~SOpen(k)' /\ ~SOpen(k)
      BY <1>4, <2>1 DEF SOpen, Is
    <2>3. ~SClipMid /\ ~SClipMid' /\ ~SHbMid /\ ~SHbMid'
      BY <1>4, <2>1 DEF SClipMid, SHbMid, Is
    <2> QED BY <2>2, <2>3 DEF SameMeeting
  <1>5. CASE S1[1] = "Store"
    <2>1. S1'[1] = "Pmsr"
      BY <1>1, <1>5 DEF SNext
    <2>2. \A k \in Ks : ~SOpen(k)' /\ ~SOpen(k)
      BY <1>5, <2>1 DEF SOpen, Is
    <2>3. SClipMid /\ SClipMid' /\ ~SHbMid /\ ~SHbMid'
      BY <1>5, <2>1 DEF SClipMid, SHbMid, Is
    <2> QED BY <2>2, <2>3 DEF SameMeeting
  <1>6. CASE S1[1] \in {"PowerOn", "Ready", "EndDb3", "Spin", "CheckIn0"}
    <2>1. /\ S1'[1] \notin {"Answer", "Pmsr", "Store", "ToFsafe", "ClearBit"}
          /\ ~Is(S1, "AwaitSignal", "IN2")'
      BY <1>1, <1>6 DEF SNext, Is
    <2>2. \A k \in Ks : ~SOpen(k)' /\ ~SOpen(k)
      BY <1>6, <2>1 DEF SOpen, Is
    <2>3. ~SClipMid /\ ~SClipMid' /\ ~SHbMid /\ ~SHbMid'
      BY <1>6, <2>1 DEF SClipMid, SHbMid, Is
    <2> QED BY <2>2, <2>3 DEF SameMeeting
  <1> QED BY <1>2, <1>3, <1>4, <1>5, <1>6 DEF SStill

LEMMA StillMoves ==
    ASSUME TypeInv, Kept, NEW k \in SStill, At("sib", k), Continue("sib")
    PROVE  /\ QSame /\ GSame /\ SForm(todo["sib"])' /\ SPops
           /\ S1[1] = k /\ S1[2] = Argument("sib") /\ S1 # End /\ S1 \in Steps
           /\ S1[1] \notin {"Receive", "Register"}
           /\ \A x \in RS' : x \in RS \/ x[1] \in ServeKinds
           /\ \A x \in RS : x \in RS' \/ x = S1
           /\ Locks(todo["sib"])' = Locks(todo["sib"])
           /\ S1'[1] # "ClearBit"
           /\ SameMeeting
  <1>1. /\ QSame /\ GSame /\ SForm(todo["sib"])' /\ SPops
        /\ S1[1] = k /\ S1[2] = Argument("sib") /\ S1 \in Steps
        /\ todo'["sib"] = Tail(todo["sib"])
    <2>1. Forms
      BY DEF Kept
    <2>2. /\ SPops /\ QSame /\ GSame /\ SForm(todo["sib"])'
          /\ S1 = <<k, Argument("sib")>> /\ S1 \in Steps
          /\ todo'["sib"] = Tail(todo["sib"])
      BY <2>1, SContinues
    <2> QED BY <2>2
  <1>2. S1 # End /\ S1[1] \notin {"Receive", "Register"}
    BY <1>1, NoEnd DEF SStill
  <1>3. Locks(todo["sib"])' = Locks(todo["sib"])
    <2>1. PICK s \in Seq(Steps) : s = todo["sib"]
      BY DEF TypeInv, TodoType, Processes
    <2>2. s # <<>> /\ Item(s, 1) # LockStep
      BY <1>1, <1>2, <2>1, EmptyItems DEF S1, LockStep
    <2>3. Locks(s) = Locks(Tail(s))
      BY <2>2, LocksTail
    <2> QED BY <1>1, <2>1, <2>3
  <1>4. S1'[1] # "ClearBit"
    BY <1>1 DEF SPops, SNext
  <1> QED BY <1>1, <1>2, <1>3, <1>4, MeetingMoves DEF SPops

LEMMA StillKept ==
    ASSUME TypeInv, Kept, NEW k \in SStill, At("sib", k), Continue("sib"),
           UNCHANGED <<ticks, icrr, db0, db3, type4, registered, alive, mode>>,
           "qm" \in skipLock' <=> "qm" \in skipLock, SameFlags,
           eisr'["qm"] = eisr["qm"], eisr'["sib"] \subseteq eisr["sib"],
           \A b \in eisr["sib"] \ eisr'["sib"] :
               Is(S1, "ClearBit", b) \/ S1[1] = "PowerOn" \/ b = "DB0",
           \A x : Is(S1, "ClearBit", x) => x \notin eisr'["sib"],
           S1[1] = "AwaitSignal" => S1[2] \in eisr["sib"],
           S1[1] = "Spin" => ~Held
    PROVE  Kept'
  <1>1. /\ QSame /\ GSame /\ SForm(todo["sib"])' /\ SPops
        /\ S1[1] = k /\ S1[2] = Argument("sib") /\ S1 # End /\ S1 \in Steps
        /\ S1[1] \notin {"Receive", "Register"}
        /\ \A x \in RS' : x \in RS \/ x[1] \in ServeKinds
        /\ \A x \in RS : x \in RS' \/ x = S1
        /\ Locks(todo["sib"])' = Locks(todo["sib"])
        /\ S1'[1] # "ClearBit"
        /\ SameMeeting
    BY StillMoves
  <1>2. SibStep
    BY <1>1 DEF SibStep
  <1>3. S1' = S2 /\ SNext(S1, S2)
    BY <1>1 DEF SPops
  <1>4. Held => Held'
    <2> SUFFICES ASSUME Held PROVE Held'
      OBVIOUS
    <2>1. S1[1] = "ClearBit" /\ S2[1] = "Spin"
      BY DEF Held
    <2>2. S1'[1] = "Spin"
      BY <1>3, <2>1
    <2> QED BY <2>2 DEF Held
  <1>5. QuietStep
    BY <1>1, <1>2, <1>4 DEF QuietStep
  <1>6. W5'
    <2>1. \A x : Unanswered(x)' <=> Unanswered(x)
      BY <1>2, SibRest DEF Unanswered, Awaits
    <2>2. CASE S1[1] = "AwaitSignal"
      <3>1. S1[2] \in Signals
        BY <2>2, Heads DEF SignalKinds
      <3>2. Unanswered(S1[2])
        BY <2>2, <3>1 DEF Kept, Lines, W2, Is
      <3>3. S1'[1] = "Answer" /\ S1'[2] = S1[2]
        BY <1>3, <2>2 DEF SNext
      <3> QED BY <2>1, <3>2, <3>3 DEF W5
    <2>3. CASE S1[1] = "SiblingDb0"
      BY <1>3, <2>3, <2>1 DEF SNext, Kept, Lines, W5
    <2>4. CASE S1[1] = "Suspended"
      BY <1>3, <2>4, <2>1 DEF SNext, Kept, Lines, W5
    <2>5. CASE S1[1] \notin {"AwaitSignal", "SiblingDb0", "Suspended"}
      BY <1>3, <2>5 DEF SNext, W5
    <2> QED BY <2>2, <2>3, <2>4, <2>5
  <1>7. ~Is(S1, "AwaitSignal", "IN2") \/ "IN2" \in eisr["sib"]
    BY DEF Is
  <1> QED BY <1>5, <1>6, <1>7, SibQuiet

LEMMA KeepsAwaitSignal ==
    ASSUME TypeInv, Kept, AwaitSignal("sib")
    PROVE  Kept'
  <1>1. /\ At("sib", "AwaitSignal") /\ Continue("sib") /\ Argument("sib") \in eisr["sib"]
        /\ UNCHANGED <<eisr, ticks, icrr, db0, db3, type4, registered, alive, mode, skipLock,
                       flags>>
    BY DEF AwaitSignal, Running, irqVars, doorbellVars, cmeVars, sysVars, pgpeVars
  <1>2. S1[1] = "AwaitSignal" /\ S1[2] \in eisr["sib"]
    BY <1>1, HeadsAt
  <1>3. SameFlags /\ "AwaitSignal" \in SStill
    BY <1>1 DEF SameFlags, SStill
  <1>4. \A x : ~Is(S1, "ClearBit", x)
    BY <1>2 DEF Is
  <1> QED BY <1>1, <1>2, <1>3, <1>4, StillKept

LEMMA KeepsClearBit ==
    ASSUME TypeInv, Kept, ClearBit("sib")
    PROVE  Kept'
  <1>1. /\ At("sib", "ClearBit") /\ Continue("sib")
        /\ eisr' = Clearing("sib", {Argument("sib")}, eisr)
        /\ UNCHANGED <<ticks, icrr, db0, db3, type4, registered, alive, mode, skipLock, flags>>
    BY DEF ClearBit, Running, doorbellVars, cmeVars, sysVars, pgpeVars
  <1>2. S1[1] = "ClearBit" /\ S1[2] = Argument("sib")
    BY <1>1, HeadsAt
  <1>3. eisr'["sib"] = eisr["sib"] \ {S1[2]} /\ eisr'["qm"] = eisr["qm"]
    BY <1>1, <1>2 DEF TypeInv, IrqType, Cmes, Clearing
  <1>5. SameFlags /\ "ClearBit" \in SStill
    BY <1>1 DEF SameFlags, SStill
  <1>6. \A x : Is(S1, "ClearBit", x) <=> x = S1[2]
    BY <1>2 DEF Is
  <1> QED BY <1>1, <1>2, <1>3, <1>5, <1>6, StillKept

LEMMA KeepsPowerOn ==
    ASSUME TypeInv, Kept, PowerOn
    PROVE  Kept'
  <1>1. /\ At("sib", "PowerOn") /\ Continue("sib")
        /\ eisr' = [eisr EXCEPT !["sib"] = {}]
        /\ UNCHANGED <<ticks, icrr, db0, db3, type4, registered, alive, mode, skipLock, flags>>
    BY DEF PowerOn, Running, doorbellVars, cmeVars, sysVars, pgpeVars
  <1>2. S1[1] = "PowerOn"
    BY <1>1, HeadsAt
  <1>3. eisr'["sib"] = {} /\ eisr'["qm"] = eisr["qm"]
    BY <1>1 DEF TypeInv, IrqType, Cmes
  <1>4. SameFlags /\ "PowerOn" \in SStill
    BY <1>1 DEF SameFlags, SStill
  <1> QED BY <1>1, <1>2, <1>3, <1>4, StillKept

LEMMA KeepsSibFlags ==
    ASSUME TypeInv, Kept,
           \/ Ready("sib") \/ SuspendPstates("sib") \/ StoreField("sib") \/ FinishDb3("sib")
    PROVE  Kept'
  <1>1. PICK k \in {"Ready", "Suspended", "Store", "EndDb3"} :
           /\ At("sib", k) /\ Continue("sib")
           /\ UNCHANGED <<eisr, ticks, icrr, db0, db3, type4, registered, alive, mode>>
    <2>1. CASE Ready("sib")
      BY <2>1 DEF Ready, Running, irqVars, doorbellVars, sysVars, pgpeVars
    <2>2. CASE SuspendPstates("sib")
      BY <2>2 DEF SuspendPstates, Running, irqVars, doorbellVars, sysVars, pgpeVars
    <2>3. CASE StoreField("sib")
      BY <2>3 DEF StoreField, Running, irqVars, doorbellVars, sysVars, pgpeVars
    <2>4. CASE FinishDb3("sib")
      BY <2>4 DEF FinishDb3, Running, irqVars, doorbellVars, sysVars, pgpeVars
    <2> QED BY <2>1, <2>2, <2>3, <2>4
  <1>2. S1[1] = k /\ S1[2] = Argument("sib") /\ S1 \in Steps
    BY <1>1, HeadsAt
  <1>3. k \in SStill
    BY DEF SStill
  <1>4. SameFlags /\ ("qm" \in skipLock' <=> "qm" \in skipLock)
    <2>0. flags \in [Cmes -> SUBSET Flags] /\ "qm" \in Cmes /\ "sib" \in Cmes /\ "qm" # "sib"
      BY DEF TypeInv, CmeType, Cmes
    <2>1. CASE Ready("sib")
      BY <2>1, <2>0 DEF Ready, SameFlags
    <2>2. CASE SuspendPstates("sib")
      <3>1. /\ flags' = [flags EXCEPT !["sib"] = SuspendedFlag(Argument("sib"), @)]
            /\ skipLock' = skipLock /\ At("sib", "Suspended")
        BY <2>2 DEF SuspendPstates, Running
      <3>2. Argument("sib") \in {"set", "clear"}
        <4>1. S1[1] = "Suspended"
          BY <3>1, HeadsAt
        <4>2. S1 \in {"Suspended"} \X {"set", "clear"}
          BY <1>2, <4>1 DEF Steps, PlainKinds, SignalKinds, MsgKinds, RegisterKinds
        <4> QED BY <1>2, <4>2
      <3>3. \A F : SuspendedFlag(Argument("sib"), F) \in {F \union {"SUSPENDED"}, F \ {"SUSPENDED"}}
        BY <3>2 DEF SuspendedFlag
      <3>4. /\ flags'["qm"] = flags["qm"]
            /\ flags'["sib"] \in {flags["sib"] \union {"SUSPENDED"}, flags["sib"] \ {"SUSPENDED"}}
        BY <2>0, <3>1, <3>3
      <3> QED BY <3>1, <3>4 DEF SameFlags
    <2>3. CASE StoreField("sib")
      BY <2>3 DEF StoreField, SameFlags
    <2>4. CASE FinishDb3("sib")
      <3>1. PICK F \in {{"SAFE"}, {}} :
               flags' = [flags EXCEPT !["sib"] = @ \union F] /\ skipLock' = skipLock \ {"sib"}
        BY <2>4 DEF FinishDb3
      <3> QED BY <2>0, <3>1 DEF SameFlags
    <2> QED BY <2>1, <2>2, <2>3, <2>4
  <1>5. \A x : ~Is(S1, "ClearBit", x)
    BY <1>2 DEF Is
  <1> QED BY <1>1, <1>2, <1>3, <1>4, <1>5, StillKept

-----------------------------------------------------------------------------
(* Steps of the sibling that put others in their place.                    *)
LEMMA SibTail ==
    ASSUME TypeInv, Forms, NEW k, At("sib", k)
    PROVE  \E s \in Seq(Steps) :
               /\ s = Tail(todo["sib"]) /\ SForm(s)
               /\ Item(s, 1) = S2 /\ Item(s, 2) = S3
               /\ SNext(S1, S2) /\ \A y \in StepsOf(s) : SAfter(S1, y)
               /\ RS = {S1} \union StepsOf(s) /\ StepsOf(s) \subseteq Steps
               /\ S1 = LockStep => Locks(todo["sib"]) = Locks(s) + 1
               /\ S1 # LockStep => Locks(todo["sib"]) = Locks(s)
  <1>1. PICK t \in Seq(Steps) : t = todo["sib"] /\ t # <<>>
    BY DEF TypeInv, TodoType, Processes, At
  <1>2. Form("sib", t, TRUE, TRUE) /\ "sib" \in Processes
    BY <1>1 DEF Forms, SForm, Processes
  <1>3. /\ Form("sib", Tail(t), TRUE, TRUE)
        /\ Follows("sib", Item(t, 1), Item(t, 2), Item(t, 3), TRUE, TRUE)
        /\ \A y \in StepsOf(Tail(t)) : After("sib", Item(t, 1), y)
    BY <1>1, <1>2, FormTail
  <1>4. /\ Tail(t) \in Seq(Steps)
        /\ Item(Tail(t), 1) = Item(t, 2) /\ Item(Tail(t), 2) = Item(t, 3)
        /\ StepsOf(t) = {Item(t, 1)} \union StepsOf(Tail(t))
    BY <1>1, TailItems, SMTT(60)
  <1>5. PICK s \in Seq(Steps) : s = Tail(t)
    BY <1>4
  <1>6. /\ Item(t, 1) = LockStep => Locks(t) = Locks(s) + 1
        /\ Item(t, 1) # LockStep => Locks(t) = Locks(s)
    BY <1>1, <1>5, LocksTail
  <1>7. /\ s = Tail(todo["sib"]) /\ SForm(s)
        /\ Item(s, 1) = S2 /\ Item(s, 2) = S3
        /\ RS = {S1} \union StepsOf(s)
    BY <1>1, <1>3, <1>4, <1>5 DEF SForm, S1, S2, S3, RS
  <1>8. SNext(S1, S2) /\ \A y \in StepsOf(s) : SAfter(S1, y)
    BY <1>1, <1>3, <1>5 DEF Follows, After, S1, S2
  <1>9. /\ S1 = LockStep => Locks(todo["sib"]) = Locks(s) + 1
        /\ S1 # LockStep => Locks(todo["sib"]) = Locks(s)
    BY <1>1, <1>6 DEF S1
  <1>10. StepsOf(s) \subseteq Steps
    BY ItemsOf
  <1> QED BY <1>7, <1>8, <1>9, <1>10

LEMMA SCons ==
    ASSUME NEW x \in Steps, NEW s \in Seq(Steps), SForm(s), SNext(x, Item(s, 1)),
           \A y \in StepsOf(s) : SAfter(x, y)
    PROVE  \E t \in Seq(Steps) :
               /\ t = <<x>> \o s /\ SForm(t)
               /\ Item(t, 1) = x /\ Item(t, 2) = Item(s, 1) /\ Item(t, 3) = Item(s, 2)
               /\ StepsOf(t) = {x} \union StepsOf(s)
               /\ x = LockStep => Locks(t) = Locks(s) + 1
               /\ x # LockStep => Locks(t) = Locks(s)
  <1>1. PICK p \in Processes : p = "sib"
    BY DEF Processes
  <1>2. /\ Form(p, s, TRUE, TRUE) /\ Follows(p, x, Item(s, 1), Item(s, 2), TRUE, TRUE)
        /\ \A y \in StepsOf(s) : After(p, x, y)
    BY <1>1 DEF SForm, Follows, After
  <1>3. Form(p, Cons(x, s), TRUE, TRUE)
    BY <1>2, FormCons
  <1>4. /\ Cons(x, s) \in Seq(Steps) /\ Item(Cons(x, s), 1) = x
        /\ \A i \in Nat \ {0} : Item(Cons(x, s), i + 1) = Item(s, i)
        /\ StepsOf(Cons(x, s)) = {x} \union StepsOf(s)
    BY ConsItems, ZenonT(60)
  <1>5. Item(Cons(x, s), 2) = Item(s, 1) /\ Item(Cons(x, s), 3) = Item(s, 2)
    BY <1>4
  <1>6. /\ x = LockStep => Locks(Cons(x, s)) = Locks(s) + 1
        /\ x # LockStep => Locks(Cons(x, s)) = Locks(s)
    BY LocksCons
  <1>7. PICK t \in Seq(Steps) : t = Cons(x, s)
    BY <1>4
  <1>8. t = <<x>> \o s
    BY <1>7 DEF Cons
  <1>9. SForm(t)
    BY <1>1, <1>3, <1>7 DEF SForm
  <1> QED BY <1>4, <1>5, <1>6, <1>7, <1>8, <1>9

LEMMA SibPush ==
    ASSUME TypeInv, Forms, NEW k, At("sib", k), NEW x \in Steps, Then("sib", <<x>>),
           SNext(x, S2), \A y \in Steps : SAfter(S1, y) => SAfter(x, y), x # LockStep
    PROVE  /\ QSame /\ GSame /\ SForm(todo["sib"])'
           /\ S1' = x /\ S2' = S2 /\ S3' = S3
           /\ \A y \in RS' : (y \in RS /\ SAfter(S1, y)) \/ y = x
           /\ \A y \in RS : y \in RS' \/ y = S1
           /\ S1 # LockStep => Locks(todo["sib"])' = Locks(todo["sib"])
           /\ S1 = LockStep => Locks(todo["sib"]) = Locks(todo["sib"])' + 1
  <1>1. PICK s \in Seq(Steps) :
               /\ s = Tail(todo["sib"]) /\ SForm(s)
               /\ Item(s, 1) = S2 /\ Item(s, 2) = S3
               /\ SNext(S1, S2) /\ \A y \in StepsOf(s) : SAfter(S1, y)
               /\ RS = {S1} \union StepsOf(s) /\ StepsOf(s) \subseteq Steps
               /\ S1 = LockStep => Locks(todo["sib"]) = Locks(s) + 1
               /\ S1 # LockStep => Locks(todo["sib"]) = Locks(s)
    BY SibTail
  <1>2. \A y \in StepsOf(s) : SAfter(x, y)
    BY <1>1
  <1>3. PICK t \in Seq(Steps) :
               /\ t = <<x>> \o s /\ SForm(t)
               /\ Item(t, 1) = x /\ Item(t, 2) = Item(s, 1) /\ Item(t, 3) = Item(s, 2)
               /\ StepsOf(t) = {x} \union StepsOf(s)
               /\ Locks(t) = Locks(s)
    BY <1>1, <1>2, SCons
  <1>4. todo'["sib"] = t /\ QSame /\ GSame
    <2>1. TodoType /\ "sib" \in Processes /\ "qm" \in Processes \ {"sib"}
          /\ "pgpe" \in Processes \ {"sib"}
      BY DEF TypeInv, Processes
    <2>2. <<x>> \in Seq(Steps)
      OBVIOUS
    <2> QED BY <1>1, <1>3, <2>1, <2>2, ThenSteps DEF QSame, GSame
  <1>5. /\ S1' = x /\ S2' = S2 /\ S3' = S3 /\ SForm(todo["sib"])'
        /\ RS' = {x} \union StepsOf(s)
        /\ Locks(todo["sib"])' = Locks(s)
    BY <1>1, <1>3, <1>4 DEF S1, S2, S3, RS, SForm
  <1> QED BY <1>1, <1>4, <1>5

LEMMA SibPushTwo ==
    ASSUME TypeInv, Forms, NEW k, At("sib", k), NEW x \in Steps, NEW z \in Steps,
           Then("sib", <<x, z>>),
           SNext(x, z), SNext(z, S2), SAfter(x, z),
           \A y \in Steps : SAfter(S1, y) => SAfter(x, y) /\ SAfter(z, y),
           x # LockStep, z # LockStep, S1 # LockStep
    PROVE  /\ QSame /\ GSame /\ SForm(todo["sib"])'
           /\ S1' = x /\ S2' = z /\ S3' = S2
           /\ \A y \in RS' : y \in RS \/ y = x \/ y = z
           /\ \A y \in RS : y \in RS' \/ y = S1
           /\ Locks(todo["sib"])' = Locks(todo["sib"])
  <1>1. PICK s \in Seq(Steps) :
               /\ s = Tail(todo["sib"]) /\ SForm(s)
               /\ Item(s, 1) = S2 /\ Item(s, 2) = S3
               /\ SNext(S1, S2) /\ \A y \in StepsOf(s) : SAfter(S1, y)
               /\ RS = {S1} \union StepsOf(s) /\ StepsOf(s) \subseteq Steps
               /\ Locks(todo["sib"]) = Locks(s)
    BY SibTail
  <1>2. \A y \in StepsOf(s) : SAfter(x, y) /\ SAfter(z, y)
    BY <1>1
  <1>3. PICK u \in Seq(Steps) :
               /\ u = <<z>> \o s /\ SForm(u)
               /\ Item(u, 1) = z /\ Item(u, 2) = Item(s, 1)
               /\ StepsOf(u) = {z} \union StepsOf(s)
               /\ Locks(u) = Locks(s)
    BY <1>1, <1>2, SCons
  <1>0. u \in Seq(Steps)
    BY <1>3
  <1>4. PICK t \in Seq(Steps) :
               /\ t = <<x>> \o u /\ SForm(t)
               /\ Item(t, 1) = x /\ Item(t, 2) = Item(u, 1) /\ Item(t, 3) = Item(u, 2)
               /\ StepsOf(t) = {x} \union StepsOf(u)
               /\ Locks(t) = Locks(u)
    <2>1. \A y \in StepsOf(u) : SAfter(x, y)
      BY <1>2, <1>3
    <2>2. x \in Steps /\ u \in Seq(Steps) /\ SForm(u) /\ SNext(x, Item(u, 1))
      BY <1>3
    <2>3. x # LockStep
      OBVIOUS
    <2> QED BY <2>1, <2>2, <2>3, SCons
  <1>5. t = <<x, z>> \o s
    BY <1>3, <1>4, TwoCons DEF Cons
  <1>6. todo'["sib"] = t /\ QSame /\ GSame
    <2>1. TodoType /\ "sib" \in Processes /\ "qm" \in Processes \ {"sib"}
          /\ "pgpe" \in Processes \ {"sib"}
      BY DEF TypeInv, Processes
    <2>2. <<x, z>> \in Seq(Steps)
      OBVIOUS
    <2> QED BY <1>1, <1>5, <2>1, <2>2, ThenSteps DEF QSame, GSame
  <1>7. /\ S1' = x /\ S2' = z /\ S3' = S2 /\ SForm(todo["sib"])'
        /\ RS' = {x, z} \union StepsOf(s)
        /\ Locks(todo["sib"])' = Locks(s)
    BY <1>1, <1>3, <1>4, <1>6 DEF S1, S2, S3, RS, SForm
  <1> QED BY <1>1, <1>6, <1>7

(* The quad manager lets it go, or sends it to its doorbell.               *)
LEMMA LetGo ==
    ASSUME TypeInv, Kept, NEW k \in {"Spin", "CheckIn0"}, At("sib", k),
           NEW x \in Steps, NEW z \in Steps, Then("sib", <<x, z>>), z[1] = "Answer",
           \/ x[1] = "Suspended" /\ z[2] = "IN1" /\ "IN1" \in eisr["sib"]
           \/ x[1] = "SiblingDb0" /\ z[2] = "IN0" /\ "IN0" \in eisr["sib"],
           UNCHANGED <<eisr, ticks, icrr, db0, db3, type4, registered, alive, mode, skipLock,
                       flags>>,
           S1[1] = "Spin" => ~Held
    PROVE  Kept'
  <1>1. S1 \in Steps /\ S1[1] = k /\ S1 # End /\ S1[1] \in {"Spin", "CheckIn0"}
    BY HeadsAt
  <1>2. /\ S1 # LockStep /\ x # LockStep /\ z # LockStep
        /\ x[1] \in {"Suspended", "SiblingDb0"}
    BY <1>1 DEF LockStep
  <1>3. SNext(S1, S2)
    BY <1>1, HeadForms DEF Kept
  <1>4. SNext(x, z) /\ SAfter(x, z)
    BY <1>2 DEF SNext, SAfter, SibKinds
  <1>5. SNext(z, S2)
    BY <1>1, <1>3 DEF SNext, SibKinds
  <1>6. \A y \in Steps : SAfter(S1, y) => SAfter(x, y) /\ SAfter(z, y)
    BY <1>1, <1>2 DEF SAfter
  <1>7. /\ QSame /\ GSame /\ SForm(todo["sib"])'
        /\ S1' = x /\ S2' = z /\ S3' = S2
        /\ \A y \in RS' : y \in RS \/ y = x \/ y = z
        /\ \A y \in RS : y \in RS' \/ y = S1
        /\ Locks(todo["sib"])' = Locks(todo["sib"])
    <2>1. Forms
      BY DEF Kept
    <2> QED BY <1>2, <1>4, <1>5, <1>6, <2>1, SibPushTwo
  <1>8. SibStep
    BY <1>7 DEF SibStep, SameFlags
  <1>9. SameMeeting
    <2>1. \A j \in Ks : ~SOpen(j) /\ ~SOpen(j)'
      BY <1>1, <1>2, <1>7 DEF SOpen, Is
    <2>2. ~SClipMid /\ ~SClipMid' /\ ~SHbMid /\ ~SHbMid'
      BY <1>1, <1>2, <1>7 DEF SClipMid, SHbMid, Is
    <2> QED BY <2>1, <2>2 DEF SameMeeting
  <1>10. Held => Held'
    BY <1>1 DEF Held
  <1>11. QuietStep
    <2>1. \A y \in RS' : y \in RS \/ y[1] \in ServeKinds
      BY <1>2, <1>7 DEF ServeKinds
    <2>2. S1[1] \notin {"Receive", "Register"} /\ \A y : ~Is(S1, "ClearBit", y)
      BY <1>1 DEF Is
    <2>3. S1'[1] # "ClearBit"
      BY <1>2, <1>7
    <2> QED BY <1>1, <1>7, <1>8, <1>9, <1>10, <2>1, <2>2, <2>3 DEF QuietStep
  <1>12. W5'
    <2>1. \A y : Unanswered(y)' <=> Unanswered(y)
      BY <1>8, SibRest DEF Unanswered, Awaits
    <2>2. \A y \in Signals : y \in eisr["sib"] => Unanswered(y)
      BY <1>1 DEF Kept, Lines, W2, Is
    <2>3. CASE x[1] = "Suspended"
      BY <2>2, <2>3, <1>7, <2>1 DEF Signals, W5
    <2>4. CASE x[1] = "SiblingDb0"
      BY <2>2, <2>4, <1>7, <2>1 DEF Signals, W5
    <2> QED BY <1>2, <2>3, <2>4
  <1>13. ~Is(S1, "AwaitSignal", "IN2") \/ "IN2" \in eisr["sib"]
    BY <1>1 DEF Is
  <1> QED BY <1>11, <1>12, <1>13, SibQuiet

LEMMA KeepsSpin ==
    ASSUME TypeInv, Kept, Spin \/ CheckIn0
    PROVE  Kept'
  <1>1. UNCHANGED <<eisr, ticks, icrr, db0, db3, type4, registered, alive, mode, skipLock, flags>>
    BY DEF Spin, CheckIn0, irqVars, doorbellVars, cmeVars, sysVars, pgpeVars
  <1>2. PICK x, y, a, b \in Steps :
           /\ x = <<"Suspended", "set">> /\ x[1] = "Suspended"
           /\ a = <<"Answer", "IN1">> /\ a[1] = "Answer" /\ a[2] = "IN1"
           /\ y = <<"SiblingDb0", "">> /\ y[1] = "SiblingDb0"
           /\ b = <<"Answer", "IN0">> /\ b[1] = "Answer" /\ b[2] = "IN0"
    <2>1. /\ \A i \in {"set", "clear"} : <<"Suspended", i>> \in Steps
          /\ \A j \in SignalKinds : \A i \in Signals : <<j, i>> \in Steps
          /\ \A j \in PlainKinds : <<j, "">> \in Steps
      BY DEF Steps
    <2>2. /\ <<"Suspended", "set">> \in Steps /\ <<"Answer", "IN1">> \in Steps
          /\ <<"SiblingDb0", "">> \in Steps /\ <<"Answer", "IN0">> \in Steps
      BY <2>1 DEF SignalKinds, Signals, PlainKinds
    <2> QED BY <2>2
  <1>3. PICK k \in {"Spin", "CheckIn0"} :
           /\ At("sib", k)
           /\ \/ Then("sib", <<x, a>>) /\ "IN1" \in eisr["sib"]
              \/ Then("sib", <<y, b>>) /\ "IN0" \in eisr["sib"]
              \/ Continue("sib")
           /\ k = "Spin" => eisr["sib"] \intersect {"IN0", "IN1"} # {}
    <2>1. CASE Spin
      <3>1. At("sib", "Spin") /\ eisr["sib"] \intersect {"IN0", "IN1"} # {}
        BY <2>1 DEF Spin, Running
      <3>2. CASE "IN1" \in eisr["sib"]
        <4>1. Then("sib", <<x, a>>)
          BY <1>2, <2>1, <3>2 DEF Spin
        <4> QED BY <3>1, <3>2, <4>1
      <3>3. CASE "IN1" \notin eisr["sib"]
        BY <2>1, <3>3, <3>1 DEF Spin, Continue
      <3> QED BY <3>2, <3>3
    <2>2. CASE CheckIn0
      <3>1. At("sib", "CheckIn0")
        BY <2>2 DEF CheckIn0, Running
      <3>2. CASE "IN0" \in eisr["sib"]
        <4>1. <<y>> \o <<b>> = <<y, b>>
          <5>1. <<b>> \in Seq(Steps) /\ <<>> \in Seq(Steps)
            OBVIOUS
          <5>2. PICK e \in Seq(Steps) : e = <<>>
            BY <5>1
          <5>3. <<y, b>> \o e = Cons(y, Cons(b, e))
            BY TwoCons
          <5>4. <<b>> \o e = <<b>> /\ <<y, b>> \o e = <<y, b>>
            BY <5>1, <5>2, Concat
          <5> QED BY <5>3, <5>4 DEF Cons
        <4>2. Then("sib", ProcessDb0Sibling)
          BY <2>2, <3>2 DEF CheckIn0
        <4>3. ProcessDb0Sibling = <<y>> \o <<b>>
          BY <1>2 DEF ProcessDb0Sibling, Step
        <4> QED BY <3>1, <3>2, <4>1, <4>2, <4>3
      <3>3. CASE "IN0" \notin eisr["sib"]
        BY <2>2, <3>3, <3>1 DEF CheckIn0, Continue
      <3> QED BY <3>2, <3>3
    <2> QED BY <2>1, <2>2
  <1>4. S1[1] = k
    BY <1>3, HeadsAt
  <1>5. S1[1] = "Spin" => ~Held
    BY <1>3, <1>4 DEF Held
  <1>6. CASE Then("sib", <<x, a>>) /\ "IN1" \in eisr["sib"]
    <2>1. x \in Steps /\ a \in Steps /\ x[1] = "Suspended" /\ a[1] = "Answer" /\ a[2] = "IN1"
      BY <1>2
    <2> QED BY <1>1, <1>3, <1>5, <1>6, <2>1, LetGo
  <1>7. CASE Then("sib", <<y, b>>) /\ "IN0" \in eisr["sib"]
    <2>1. y \in Steps /\ b \in Steps /\ y[1] = "SiblingDb0" /\ b[1] = "Answer" /\ b[2] = "IN0"
      BY <1>2
    <2> QED BY <1>1, <1>3, <1>5, <1>7, <2>1, LetGo
  <1>8. CASE Continue("sib")
    <2>1. k \in SStill /\ SameFlags /\ \A i : ~Is(S1, "ClearBit", i)
      BY <1>1, <1>4 DEF SStill, SameFlags, Is
    <2>2. S1[1] # "AwaitSignal"
      BY <1>4
    <2> QED BY <1>1, <1>3, <1>5, <1>8, <2>1, <2>2, StillKept
  <1> QED BY <1>3, <1>6, <1>7, <1>8

LEMMA KeepsSiblingDb0 ==
    ASSUME TypeInv, Kept, SiblingDb0
    PROVE  Kept'
  <1>1. /\ At("sib", "SiblingDb0") /\ eisr' = Clearing("sib", {"DB0"}, eisr)
        /\ UNCHANGED <<ticks, icrr, db0, db3, type4, registered, alive, mode, skipLock>>
    BY DEF SiblingDb0, Running, doorbellVars, pgpeVars
  <1>2. S1[1] = "SiblingDb0"
    BY <1>1, HeadsAt
  <1>3. eisr'["sib"] = eisr["sib"] \ {"DB0"} /\ eisr'["qm"] = eisr["qm"]
    BY <1>1, BitViews DEF Bits
  <1>4. SameFlags
    <2>1. \/ flags' = flags
          \/ flags' = [flags EXCEPT !["sib"] = @ \union {"STARVE"}]
          \/ /\ db0["sib"].msg = "PMSR"
             /\ flags' = [flags EXCEPT !["sib"] = SuspendedFlag(db0["sib"].field, @)]
      BY DEF SiblingDb0
    <2>2. db0["sib"].msg = "PMSR" => db0["sib"].field \in {"set", "clear"}
      BY CmesAre DEF TypeInv, DoorbellType, Db0Messages
    <2>3. flags \in [Cmes -> SUBSET Flags] /\ "qm" \in Cmes /\ "sib" \in Cmes /\ "qm" # "sib"
      BY DEF TypeInv, CmeType, Cmes
    <2>4. CASE flags' = flags
      BY <2>4 DEF SameFlags
    <2>5. CASE flags' = [flags EXCEPT !["sib"] = @ \union {"STARVE"}]
      BY <2>3, <2>5 DEF SameFlags
    <2>6. CASE /\ db0["sib"].msg = "PMSR"
               /\ flags' = [flags EXCEPT !["sib"] = SuspendedFlag(db0["sib"].field, @)]
      <3>1. \A F : SuspendedFlag(db0["sib"].field, F)
                       \in {F \union {"SUSPENDED"}, F \ {"SUSPENDED"}}
        BY <2>2, <2>6 DEF SuspendedFlag
      <3>2. /\ flags'["qm"] = flags["qm"]
            /\ flags'["sib"] \in {flags["sib"] \union {"SUSPENDED"}, flags["sib"] \ {"SUSPENDED"}}
        BY <2>3, <2>6, <3>1
      <3> QED BY <3>2 DEF SameFlags
    <2> QED BY <2>1, <2>4, <2>5, <2>6
  <1>5. CASE Continue("sib")
    <2>1. "SiblingDb0" \in SStill /\ \A i : ~Is(S1, "ClearBit", i)
      BY <1>2 DEF SStill, Is
    <2>2. S1[1] # "AwaitSignal" /\ S1[1] # "Spin"
      BY <1>2
    <2> QED BY <1>1, <1>3, <1>4, <1>5, <2>1, <2>2, StillKept
  <1>6. CASE Panics("sib")
    <2>1. QSame /\ SSame /\ GSame
      BY <1>6 DEF Panics, QSame, SSame, GSame
    <2>2. SameSignals
      BY <1>3 DEF SameSignals
    <2>3. Ticks'
      BY <1>1, <2>1, <2>2, SameTicks DEF Kept
    <2> QED BY <1>1, <1>4, <2>1, <2>2, <2>3, StaysKept
  <1> QED BY <1>5, <1>6 DEF SiblingDb0

-----------------------------------------------------------------------------
(* Answers of the sibling.                                                 *)
LEMMA InTurn ==
    ASSUME TypeInv, Exchange, In2Due
    PROVE  \A j \in Ks : ~QPend(j)
  <1> SUFFICES ASSUME NEW j \in Ks, QPend(j) PROVE FALSE
    OBVIOUS
  <1>1. CASE j = "hb"
    BY <1>1 DEF QPend, Exchange, HB1
  <1>2. CASE j # "hb"
    <2>1. "DB3" \in eisr["qm"] /\ Reason[db3["qm"]] = j
      BY <1>2 DEF QPend
    <2>2. db3["qm"] # "SUSPEND"
      BY <2>1 DEF Reason, Ks
    <2>3. Db3Due
      BY <2>1, <2>2 DEF Db3Due
    <2>4. G1 # End
      BY <2>3, DueNow DEF Due
    <2>5. alive
      BY <2>4 DEF Exchange, E14
    <2> QED BY <2>3, <2>5 DEF Exchange, E4, E9
  <1> QED BY <1>1, <1>2

LEMMA AnswerLines ==
    ASSUME TypeInv, Kept, SibStep, NEW i \in Signals, Is(S1, "Answer", i),
           Is(S1, "ClearBit", i)', eisr'["qm"] = eisr["qm"] \union {i},
           eisr'["sib"] = eisr["sib"]
    PROVE  Lines'
  <1>1. Q1' = Q1
    BY SibRest
  <1>2. Unanswered(i) /\ Q1[1] \in AnswerKinds /\ Q1[2] = i
    BY DEF Is, Kept, Lines, W5, Unanswered, Awaits
  <1>3. W1' /\ W3'
    BY <1>1, <1>2 DEF Kept, Lines, W1, W3, Awaits, Signals
  <1>4. W2'
    <2> SUFFICES ASSUME NEW x \in Signals, x \in eisr["sib"] PROVE Is(S1, "ClearBit", x)'
      BY DEF W2
    <2>1. Unanswered(x)
      BY DEF Kept, Lines, W2, Is
    <2>2. x = i
      BY <1>2, <2>1 DEF Unanswered, Awaits
    <2> QED BY <2>2
  <1>5. W4'
    <2>1. \A m : ~Unacked(m)
      BY <1>2 DEF Unacked, Is, AnswerKinds
    <2>2. "RECVD" \notin eisr["sib"]
      BY <2>1 DEF Kept, Lines, W4, Is
    <2> QED BY <2>2 DEF W4
  <1>6. W5'
    BY DEF W5, Is
  <1> QED BY <1>3, <1>4, <1>5, <1>6 DEF Lines

(* In IN2 both go on with the same.                                        *)
LEMMA AnswerMeets ==
    ASSUME TypeInv, Kept, Is(S1, "Answer", "IN2")
    PROVE  /\ Q1[1] = "AwaitAnswer" /\ Q1[2] = "IN2"
           /\ \A j \in Ks : ~QPend(j) /\ ~SPend(j)
           /\ \A m \in Ms : ~HalfM(m)
           /\ S2[1] = "Spin" <=> Q2[1] = "ClearDb0"
           /\ S2[1] = "Store" <=> Q2[1] = "Store"
           /\ S2[1] = "ToFsafe" <=> Q2[1] = "ToFsafe"
  <1>1. Unanswered("IN2") /\ Q1[2] = "IN2" /\ Q1[1] \in AnswerKinds /\ "IN2" \notin eisr["qm"]
    BY DEF Is, Kept, Lines, W5, Unanswered, Awaits
  <1>2. Q1 # End /\ Q1 \in RQ
    BY <1>1, NoEnd, Heads DEF AnswerKinds
  <1>3. Q1[1] = "AwaitAnswer"
    BY <1>2, <1>1, HeadForms DEF Kept, QNext, QThen, AnswerKinds
  <1>4. In2Due
    BY <1>1, <1>2, <1>3 DEF In2Due, In2
  <1>5. \A j \in Ks : ~QPend(j)
    BY <1>4, InTurn DEF Kept
  <1>6. PICK k \in Ks : k = SReasonOf(S2)
    BY DEF Ks, SReasonOf
  <1>7. SOpen(k)
    BY <1>6 DEF SOpen
  <1>8. \A j \in Ks : ~SPend(j)
    BY <1>7 DEF Kept, Pairing, C4
  <1>9. ~QClipMid /\ ~QHbMid
    BY <1>1, <1>3 DEF QClipMid, QHbMid, Answered2
  <1>10. QOpen(k)
    BY <1>5, <1>7, <1>9 DEF Kept, Pairing, C1
  <1>11. QReasonOf(Q2) = k
    BY <1>3, <1>10 DEF QOpen, Is
  <1>12. \A m \in Ms : ~HalfM(m)
    BY <1>7 DEF Kept, Pairing, C3
  <1>13. /\ S2[1] = "Spin" <=> k = "lock"
         /\ S2[1] = "Store" <=> k = "clip"
         /\ S2[1] = "ToFsafe" <=> k = "hb"
    BY <1>6 DEF SReasonOf
  <1>14. /\ k = "lock" <=> Q2[1] = "ClearDb0"
         /\ k = "clip" <=> Q2[1] = "Store"
         /\ k = "hb" <=> Q2[1] = "ToFsafe"
    BY <1>11 DEF QReasonOf
  <1> QED BY <1>1, <1>3, <1>5, <1>8, <1>12, <1>13, <1>14

LEMMA KeepsAnswer ==
    ASSUME TypeInv, Kept, Answer("sib")
    PROVE  Kept'
  <1>1. /\ At("sib", "Answer")
        /\ eisr' = Raising("qm", Argument("sib"), eisr)
        /\ Then("sib", <<<<"ClearBit", Argument("sib")>>>>)
        /\ UNCHANGED <<ticks, icrr, db0, db3, type4, registered, alive, mode, skipLock, flags>>
    BY DEF Answer, Other, Running, doorbellVars, cmeVars, sysVars, pgpeVars
  <1>2. S1 \in Steps /\ S1[1] = "Answer" /\ S1[2] = Argument("sib") /\ S1 # End
    BY <1>1, HeadsAt
  <1>3. PICK i \in Signals : i = Argument("sib")
    BY <1>2, Arguments DEF SignalKinds
  <1>4. PICK x \in Steps : x = <<"ClearBit", i>> /\ x[1] = "ClearBit" /\ x[2] = i
    <2>1. <<"ClearBit", i>> \in Steps
      BY DEF Steps
    <2> QED BY <2>1
  <1>5. /\ QSame /\ GSame /\ SForm(todo["sib"])'
        /\ S1' = x /\ S2' = S2
        /\ \A y \in RS' : y \in RS \/ y = x
        /\ \A y \in RS : y \in RS' \/ y = S1
        /\ Locks(todo["sib"])' = Locks(todo["sib"])
    <2>1. Forms /\ SNext(S1, S2)
      BY <1>2, HeadForms DEF Kept
    <2>2. SNext(x, S2)
      BY <1>2, <1>3, <1>4, <2>1 DEF SNext, SibKinds
    <2>3. \A y \in Steps : SAfter(S1, y) => SAfter(x, y)
      BY <1>2, <1>3, <1>4 DEF SAfter
    <2>4. Then("sib", <<x>>) /\ x # LockStep /\ S1 # LockStep
      BY <1>1, <1>2, <1>3, <1>4 DEF LockStep
    <2> QED BY <1>1, <2>1, <2>2, <2>3, <2>4, SibPush
  <1>6. eisr'["qm"] = eisr["qm"] \union {i} /\ eisr'["sib"] = eisr["sib"]
    BY <1>1, <1>3, BitViews DEF Bits
  <1>7. SibStep
    BY <1>1, <1>5, <1>6 DEF SibStep, SameFlags, Signals
  <1>8. /\ Exchange' /\ Forms' /\ Q1' = Q1 /\ Q2' = Q2 /\ Q3' = Q3 /\ RQ' = RQ
        /\ G1' = G1 /\ G2' = G2 /\ (HasReg' <=> HasReg) /\ (RegDue' <=> RegDue)
    BY <1>7, SibRest
  <1>9. Is(S1, "Answer", i) /\ Is(S1, "ClearBit", i)' /\ ~Is(S1, "AwaitSignal", "IN2")
    BY <1>2, <1>3, <1>4, <1>5 DEF Is
  <1>10. Lines'
    BY <1>6, <1>7, <1>9, AnswerLines
  <1>11. Ticks'
    <2>1. T1'
      BY <1>1, <1>6, <1>8 DEF Kept, Ticks, T1, Signals
    <2>2. T2'
      BY <1>1, <1>4, <1>5, <1>6 DEF Kept, Ticks, T2, Is, Signals
    <2>3. T3'
      BY <1>1, <1>2 DEF Kept, Ticks, T3
    <2> QED BY <2>1, <2>2, <2>3 DEF Ticks
  <1>12. Boot'
    <2>1. \A y \in RS' : y[1] \in {"Receive", "Register"} => y \in RS
      BY <1>4, <1>5
    <2>2. \A y \in RS : y[1] \in {"Receive", "Register"} => y \in RS'
      BY <1>2, <1>5
    <2>3. S1[1] # "Receive" /\ ("ACK" \in eisr'["qm"] <=> "ACK" \in eisr["qm"])
      BY <1>2, <1>6 DEF Signals
    <2> QED BY <1>5, <1>7, <2>1, <2>2, <2>3, SibBoot
  <1>13. Pairing' /\ Standstill'
    <2>1. CASE i # "IN2"
      <3>1. SameMeeting
        <4>1. \A j \in Ks : ~SOpen(j) /\ ~SOpen(j)'
          BY <1>2, <1>3, <1>4, <1>5, <2>1 DEF SOpen, Is
        <4>2. ~SClipMid /\ ~SClipMid' /\ ~SHbMid /\ ~SHbMid'
          BY <1>2, <1>4, <1>5, <2>1 DEF SClipMid, SHbMid, Is
        <4> QED BY <4>1, <4>2 DEF SameMeeting
      <3>2. "IN2" \in eisr'["qm"] <=> "IN2" \in eisr["qm"]
        BY <1>6, <2>1
      <3>3. ~Held /\ ~SHbMid
        BY <1>2 DEF Held, SHbMid, Is
      <3>4. \A b \in {"ACK", "IN2"} : b \in eisr'["qm"] => b \in eisr["qm"]
        BY <1>6, <2>1 DEF Signals
      <3> QED BY <1>7, <1>9, <3>1, <3>2, <3>3, <3>4, SibPairing, SibStandstill
    <2>2. CASE i = "IN2"
      <3>1. /\ Q1[1] = "AwaitAnswer" /\ Q1[2] = "IN2"
            /\ \A j \in Ks : ~QPend(j) /\ ~SPend(j)
            /\ \A m \in Ms : ~HalfM(m)
            /\ S2[1] = "Spin" <=> Q2[1] = "ClearDb0"
            /\ S2[1] = "Store" <=> Q2[1] = "Store"
            /\ S2[1] = "ToFsafe" <=> Q2[1] = "ToFsafe"
        BY <1>9, <2>2, AnswerMeets
      <3>2. /\ \A j \in Ks : ~SPend(j)' /\ ~SOpen(j)'
            /\ \A m \in Ms : ~HalfM(m)'
        <4>1. \A j \in Ks : ~SPend(j)'
          BY <1>1, <1>6, <3>1 DEF SPend
        <4>2. \A j \in Ks : ~SOpen(j)'
          BY <1>4, <1>5 DEF SOpen, Is
        <4>3. \A m \in Ms : ~HalfM(m)'
          BY <1>1, <1>8, <3>1 DEF HalfM
        <4> QED BY <4>1, <4>2, <4>3
      <3>3. Answered2'
        BY <1>6, <1>8, <2>2, <3>1 DEF Answered2, Awaits, AnswerKinds
      <3>4. C2'
        <4>1. SClipMid' => QClipMid'
          BY <1>4, <1>5, <1>8, <3>1, <3>3 DEF SClipMid, QClipMid, Is
        <4>2. SHbMid' => QHbMid'
          BY <1>4, <1>5, <1>8, <3>1, <3>3 DEF SHbMid, QHbMid, Is
        <4> QED BY <4>1, <4>2 DEF C2
      <3>5. Pairing'
        BY <3>2, <3>4 DEF Pairing, C1, C3, C4, C5
      <3>6. L1' /\ L2' /\ L4'
        BY <1>8, <3>1 DEF L1, L2, L4, Is
      <3>7. L3'
        <4> SUFFICES ASSUME Q2[1] = "ClearDb0" PROVE Held'
          BY <1>8 DEF L3
        <4>1. S2[1] = "Spin"
          BY <3>1
        <4>2. "IN0" \notin eisr["sib"] /\ "IN1" \notin eisr["sib"]
          BY <1>2, <3>1 DEF Unanswered, Awaits, Is, Signals, Kept, Lines, W2
        <4> QED BY <1>4, <1>5, <1>6, <4>1, <4>2 DEF Held
      <3>8. L5'
        <4> SUFFICES ASSUME QHbMid' PROVE SHbMid'
          BY DEF L5
        <4>1. Q2[1] = "ToFsafe"
          BY <1>8, <3>1 DEF QHbMid
        <4>2. S2[1] = "ToFsafe"
          BY <3>1, <4>1
        <4> QED BY <1>4, <1>5, <2>2, <4>2 DEF SHbMid, Is
      <3>9. K1'
        BY <1>1, <1>8 DEF Kept, Standstill, K1
      <3> QED BY <3>5, <3>6, <3>7, <3>8, <3>9 DEF Standstill
    <2> QED BY <2>1, <2>2
  <1> QED BY <1>8, <1>10, <1>11, <1>12, <1>13 DEF Kept

(* The sibling has its clip, or is in safe mode: it waits to be let go.    *)
LEMMA MidDone ==
    ASSUME TypeInv, Kept, NEW k \in {"Pmsr", "ToFsafe"}, At("sib", k), Continue("sib"),
           UNCHANGED <<eisr, ticks, icrr, db0, db3, type4, registered, alive, mode, skipLock>>,
           SameFlags
    PROVE  Kept'
  <1>1. S1 \in Steps /\ S1[1] = k /\ S1 # End
    BY HeadsAt
  <1>2. /\ SPops /\ QSame /\ GSame /\ SForm(todo["sib"])' /\ todo'["sib"] = Tail(todo["sib"])
    BY SContinues DEF Kept
  <1>3. /\ S1' = S2 /\ Is(S1, "AwaitSignal", "IN2")' /\ S1'[1] = "AwaitSignal"
        /\ RS = {S1} \union RS' /\ \A y \in RS' : SAfter(S1, y)
    BY <1>1, <1>2 DEF SPops, SNext, Is
  <1>4. PICK s \in Seq(Steps) : s = todo["sib"] /\ s # <<>> /\ Item(s, 1) = S1
    BY DEF TypeInv, TodoType, Processes, At, S1
  <1>5. Locks(todo["sib"])' = Locks(todo["sib"])
    BY <1>1, <1>2, <1>4, LocksTail DEF LockStep
  <1>6. SReasonOf(S3') = "last"
    <2>1. Tail(s) \in Seq(Steps)
      BY <1>4, TailItems
    <2>2. S3' \in RS' \/ S3' = End
      <3>1. PICK t \in Seq(Steps) : t = todo'["sib"]
        BY <1>2, <1>4, <2>1
      <3>2. Item(t, 3) \in StepsOf(t) \/ Item(t, 3) = End
        BY ItemsOf
      <3> QED BY <3>1, <3>2 DEF S3, RS
    <2>3. S3'[1] \notin {"Spin", "Store", "ToFsafe"}
      BY <1>1, <1>3, <2>2, NoEnd DEF SAfter
    <2> QED BY <2>3 DEF SReasonOf
  <1>7. SibStep
    BY <1>2 DEF SibStep
  <1>8. /\ Exchange' /\ Forms' /\ Q1' = Q1 /\ Q2' = Q2 /\ Q3' = Q3 /\ RQ' = RQ
        /\ G1' = G1 /\ G2' = G2 /\ (HasReg' <=> HasReg) /\ (RegDue' <=> RegDue)
    BY <1>7, SibRest
  <1>9. Lines'
    <2>1. \A x : (Awaits(x)' <=> Awaits(x)) /\ (Unanswered(x)' <=> Unanswered(x))
      BY <1>8 DEF Awaits, Unanswered
    <2>2. \A m : Unacked(m)' <=> Unacked(m)
      BY <1>8 DEF Unacked
    <2>3. W1' /\ W3'
      BY <1>8, <2>1 DEF Kept, Lines, W1, W3
    <2>4. W2'
      BY <1>1, <2>1 DEF Kept, Lines, W2, Is
    <2>5. W4'
      BY <1>1, <2>2 DEF Kept, Lines, W4, Is
    <2>6. W5'
      BY <1>3 DEF W5
    <2> QED BY <2>3, <2>4, <2>5, <2>6 DEF Lines
  <1>10. Ticks'
    <2>1. T1'
      BY <1>8 DEF Kept, Ticks, T1
    <2>2. T2'
      BY <1>3 DEF Kept, Ticks, T2, Is
    <2>3. T3'
      BY <1>1 DEF Kept, Ticks, T3
    <2> QED BY <2>1, <2>2, <2>3 DEF Ticks
  <1>11. Boot'
    <2>1. \A y \in RS' : y[1] \in {"Receive", "Register"} => y \in RS
      BY <1>3
    <2>2. \A y \in RS : y[1] \in {"Receive", "Register"} => y \in RS'
      BY <1>1, <1>3
    <2> QED BY <1>1, <1>5, <1>7, <2>1, <2>2, SibBoot
  <1>12. Pairing'
    <2>1. SClipMid \/ SHbMid
      BY <1>1 DEF SClipMid, SHbMid
    <2>2. (\A j \in Ks : ~SPend(j)') /\ \A m \in Ms : ~HalfM(m)'
      <3>1. \A j \in Ks : ~SPend(j)'
        BY <2>1 DEF Kept, Pairing, C4, SPend
      <3>2. \A m \in Ms : ~HalfM(m)'
        BY <1>8, <2>1 DEF Kept, Pairing, C3, HalfM
      <3> QED BY <3>1, <3>2
    <2>3. ~SClipMid' /\ ~SHbMid'
      BY <1>3 DEF SClipMid, SHbMid, Is
    <2>4. QClipMid \/ QHbMid \/ QOpen("last")
      BY <2>1 DEF Kept, Pairing, C2
    <2>5. /\ QClipMid' <=> QClipMid
          /\ QHbMid' <=> QHbMid
          /\ QOpen("last")' <=> QOpen("last")
      BY <1>8 DEF QClipMid, QHbMid, QOpen, Answered2, Awaits, Unanswered
    <2>6. \A j \in Ks : SOpen(j)' => j = "last"
      BY <1>3, <1>6 DEF SOpen, Is
    <2>7. C1'
      BY <2>2, <2>4, <2>5, <2>6 DEF C1
    <2> QED BY <2>2, <2>3, <2>7 DEF Pairing, C2, C3, C4, C5
  <1>13. Standstill'
    <2>1. ~Held
      BY <1>1 DEF Held
    <2>2. Answered2' <=> Answered2
      BY <1>8 DEF Answered2, Awaits
    <2>3. L1' /\ L2' /\ L3' /\ L4'
      BY <1>8, <2>1, <2>2 DEF Kept, Standstill, L1, L2, L3, L4
    <2>4. L5'
      <3> SUFFICES ASSUME QHbMid' PROVE "IN2" \notin eisr'["sib"]
        BY <1>3 DEF L5
      <3>1. ~Unanswered("IN2")
        BY <1>8, <2>2 DEF QHbMid, Unanswered, Awaits, Answered2, AnswerKinds
      <3>2. "IN2" \in Signals /\ ~Is(S1, "ClearBit", "IN2")
        BY <1>1 DEF Signals, Is
      <3> QED BY <3>1, <3>2 DEF Kept, Lines, W2
    <2>5. K1'
      BY <1>8 DEF Kept, Standstill, K1
    <2> QED BY <2>3, <2>4, <2>5 DEF Standstill
  <1> QED BY <1>8, <1>9, <1>10, <1>11, <1>12, <1>13 DEF Kept

LEMMA KeepsMidDone ==
    ASSUME TypeInv, Kept, UpdatePmsr("sib") \/ ToFsafe("sib")
    PROVE  Kept'
  <1>1. CASE UpdatePmsr("sib")
    BY <1>1, MidDone DEF UpdatePmsr, Running, irqVars, doorbellVars, sysVars, pgpeVars,
       SameFlags
  <1>2. CASE ToFsafe("sib")
    <2>1. /\ At("sib", "ToFsafe") /\ Continue("sib")
          /\ flags' = [flags EXCEPT !["sib"] = (@ \ {"ENABLED"}) \union {"SAFE", "HB_SAFE"}]
          /\ UNCHANGED <<eisr, ticks, icrr, db0, db3, type4, registered, alive, mode, skipLock>>
      BY <1>2 DEF ToFsafe, Running, irqVars, doorbellVars, sysVars, pgpeVars
    <2>2. flags \in [Cmes -> SUBSET Flags] /\ "qm" \in Cmes /\ "sib" \in Cmes /\ "qm" # "sib"
      BY DEF TypeInv, CmeType, Cmes
    <2>3. SameFlags
      BY <2>1, <2>2 DEF SameFlags
    <2> QED BY <2>1, <2>3, MidDone
  <1> QED BY <1>1, <1>2

-----------------------------------------------------------------------------
(* Messages.  When the last of the boot is acknowledged no other is due.   *)
LEMMA LastMessage ==
    ASSUME TypeInv, Forms, Is(Q1, "AwaitMsgAck", "SYNC")
    PROVE  RQ = {Q1, Q2} /\ Q2[1] = "Ready"
  <1>1. At("qm", "AwaitMsgAck")
    <2>1. PICK s \in Seq(Steps) : s = todo["qm"]
      BY DEF TypeInv, TodoType, Processes
    <2>2. Item(s, 1) # End /\ Item(s, 1) = Q1
      BY <2>1, NoEnd DEF Q1, Is
    <2>3. s # <<>> /\ s[1] = Q1
      BY <2>2, ItemsOf
    <2> QED BY <2>1, <2>3 DEF At, Is
  <1>2. PICK R \in Seq(Steps) :
               /\ QForm(R) /\ Item(R, 1) = Q2
               /\ RQ = {Q1} \union StepsOf(R) /\ QNext(Q1, Q2, Q3)
    BY <1>1, QRest
  <1>3. Q2[1] = "Ready"
    BY <1>2 DEF QNext, QThen, Is
  <1>4. R # <<>> /\ Item(R, 1) # End
    BY <1>2, <1>3, EmptyItems, NoEnd
  <1>5. QNext(Item(R, 1), Item(R, 2), Item(R, 3))
    BY <1>2, <1>4, QFormAt
  <1>6. Item(R, 2)[1] = "none"
    BY <1>2, <1>3, <1>5 DEF QNext, QThen
  <1>7. Tail(R) = <<>>
    <2>1. Tail(R) \in Seq(Steps) /\ Item(Tail(R), 1) = Item(R, 2)
      BY <1>4, TailItems
    <2>2. PICK u \in Seq(Steps) : u = Tail(R)
      BY <2>1
    <2>3. Item(u, 1) \in Steps \union {End} /\ (u = <<>> <=> Item(u, 1) = End)
      BY ItemsOf
    <2>4. Item(u, 1) \notin Steps
      <3>1. \A x \in Steps : x[1] # "none"
        BY DEF Steps, PlainKinds, SignalKinds, MsgKinds, RegisterKinds
      <3> QED BY <1>6, <2>1, <2>2, <3>1
    <2> QED BY <2>2, <2>3, <2>4
  <1>8. StepsOf(R) = {Q2}
    BY <1>2, <1>4, <1>7, TailItems, EmptyItems
  <1> QED BY <1>2, <1>3, <1>8

LEMMA NoneLeft ==
    ASSUME TypeInv, Kept, Unacked("SYNC")
    PROVE  /\ ~HasReg /\ ~RegDue /\ ~SendDue("INIT") /\ ~SendDue("LOCK")
           /\ LocksDue = 0 /\ SendDue("SYNC")
  <1>1. Is(Q1, "AwaitMsgAck", "SYNC") /\ RQ = {Q1, Q2} /\ Q2[1] = "Ready"
    BY LastMessage DEF Unacked, Kept
  <1>2. /\ ~HasReg /\ \A n : ~RegLeft(n)
        /\ \A m : <<"Send", m>> \notin RQ
    <2>1. \A x \in RQ : x[1] \in {"AwaitMsgAck", "Ready"}
      BY <1>1 DEF Is
    <2>2. /\ <<"Register", "">>[1] = "Register"
          /\ \A n : <<"RegisterDb0", n>>[1] = "RegisterDb0" /\ <<"Send", n>>[1] = "Send"
      OBVIOUS
    <2> QED BY <2>1, <2>2 DEF HasReg, RegLeft
  <1>3. ~SendDue("INIT") /\ ~SendDue("LOCK")
    BY <1>1, <1>2 DEF SendDue, Unacked, Is
  <1>4. RegistrationsLeft = 0
    BY <1>2 DEF RegistrationsLeft
  <1>5. LocksDue = 0
    BY <1>3, <1>4 DEF LocksDue
  <1> QED BY <1>2, <1>3, <1>5 DEF RegDue, SendDue

LEMMA LocksDueIs ==
    /\ RegistrationsLeft \in Nat
    /\ SendDue("LOCK") => LocksDue = RegistrationsLeft + 1
    /\ ~SendDue("LOCK") => LocksDue = RegistrationsLeft
  <1>1. RegistrationsLeft \in Nat
    BY DEF RegistrationsLeft
  <1> QED BY <1>1 DEF LocksDue

(* What the sibling receives is what was sent.                             *)
LEMMA Matches ==
    ASSUME TypeInv, Kept, NEW m \in MTypes, Unacked(m), NEW a \in MTypes,
           Is(S1, "Receive", a), TypeBits[m] \intersect TypeBits[a] # {}
    PROVE  a = m
  <1>1. S1 \in RS /\ S1 = <<"Receive", a>> /\ S1 \in Steps
    BY NoEnd, Heads DEF Is
  <1>2. \A y \in RS : y # S1 => SAfter(S1, y)
    <2>1. At("sib", "Receive")
      <3>1. PICK s \in Seq(Steps) : s = todo["sib"]
        BY DEF TypeInv, TodoType, Processes
      <3>2. Item(s, 1) # End /\ Item(s, 1) = S1
        BY <1>1, <3>1, NoEnd DEF S1
      <3>3. s # <<>> /\ s[1] = S1
        BY <3>2, ItemsOf
      <3> QED BY <3>1, <3>3 DEF At, Is
    <2>2. PICK s \in Seq(Steps) :
               /\ \A y \in StepsOf(s) : SAfter(S1, y)
               /\ RS = {S1} \union StepsOf(s)
      BY <2>1, SibTail DEF Kept
    <2> QED BY <2>2
  <1>3. todo["sib"] \in Seq(Steps)
    BY DEF TypeInv, TodoType, Processes
  <1>4. Locks(todo["sib"]) \in Nat /\ (Locks(todo["sib"]) = 0 <=> LockStep \notin RS)
    BY <1>3, LocksAre DEF RS
  <1>5. CASE m = "SYNC"
    <2>1. ~SendDue("INIT") /\ LocksDue = 0 /\ SendDue("SYNC")
      BY <1>5, NoneLeft
    <2>2. /\ LocksLeft = 0
          /\ <<"Receive", "INIT">> \notin RS
      BY <2>1 DEF Kept, Boot, B1
    <2>3. a # "INIT"
      BY <1>1, <2>2
    <2>4. ASSUME a = "LOCK" PROVE FALSE
      <3>1. <<"Register", "">> \notin RS
        BY <1>1, <1>2, <2>4 DEF SAfter
      <3>2. Locks(todo["sib"]) = 0
        BY <2>2, <3>1 DEF LocksLeft
      <3> QED BY <1>1, <1>4, <2>4, <3>2 DEF LockStep
    <2> QED BY <1>5, <2>3, <2>4 DEF MTypes
  <1>6. CASE m = "LOCK"
    <2>1. a # "INIT"
      BY <1>6 DEF TypeBits
    <2>2. ASSUME a = "SYNC" PROVE FALSE
      <3>1. <<"Register", "">> \notin RS /\ LockStep \notin RS
        BY <1>1, <1>2, <2>2 DEF SAfter, LockStep
      <3>2. LocksLeft = 0
        BY <1>4, <3>1 DEF LocksLeft
      <3>3. SendDue("SYNC")
        BY <1>1, <2>2 DEF Kept, Boot, B2
      <3>4. SendDue("LOCK")
        BY <1>6 DEF SendDue
      <3>5. LocksDue = 0
        BY <3>2, <3>3 DEF Kept, Boot, B1
      <3> QED BY <3>4, <3>5, LocksDueIs
    <2> QED BY <1>6, <2>1, <2>2 DEF MTypes
  <1>7. CASE m = "INIT"
    <2>1. a # "LOCK"
      BY <1>7 DEF TypeBits
    <2>2. ASSUME a = "SYNC" PROVE FALSE
      <3>1. <<"Receive", "INIT">> \notin RS
        BY <1>1, <1>2, <2>2 DEF SAfter
      <3>2. SendDue("INIT")
        BY <1>7 DEF SendDue
      <3> QED BY <3>1, <3>2 DEF Kept, Boot, B5
    <2> QED BY <1>7, <2>1, <2>2 DEF MTypes
  <1> QED BY <1>5, <1>6, <1>7 DEF MTypes

(* A message received: fewer are due, and as many fewer are left.          *)
LEMMA ReceivedBoot ==
    ASSUME TypeInv, Kept, SibStep, NEW m \in MTypes, Unacked(m), "ACK" \in eisr'["qm"],
           Is(S1, "Receive", m), S1 \in RS, S1 = <<"Receive", m>>,
           \A y \in RS' : (y \in RS /\ SAfter(S1, y)) \/ y[1] = "ClearBit",
           \A y \in RS : y \in RS' \/ y = S1,
           S1 # LockStep => Locks(todo["sib"])' = Locks(todo["sib"]),
           S1 = LockStep => Locks(todo["sib"]) = Locks(todo["sib"])' + 1,
           todo'["sib"] \in Seq(Steps)
    PROVE  Boot'
  <1>1. /\ Q1' = Q1 /\ RQ' = RQ /\ Interlock' = Interlock
        /\ HasReg' <=> HasReg
        /\ RegDue' <=> RegDue
        /\ \A n \in 1 .. 3 : RegLeft(n)' <=> RegLeft(n)
        /\ "REGISTERING" \in flags'["qm"] <=> "REGISTERING" \in flags["qm"]
    BY SibRest
  <1>2. Is(Q1, "AwaitMsgAck", m) /\ Q1 # End
    BY NoEnd DEF Unacked, Is
  <1>3. <<"Send", m>> \notin RQ
    <2>1. At("qm", "AwaitMsgAck")
      <3>1. PICK s \in Seq(Steps) : s = todo["qm"]
        BY DEF TypeInv, TodoType, Processes
      <3>2. Item(s, 1) # End /\ Item(s, 1) = Q1
        BY <1>2, <3>1 DEF Q1
      <3>3. s # <<>> /\ s[1] = Q1
        BY <3>2, ItemsOf
      <3> QED BY <1>2, <3>1, <3>3 DEF At, Is
    <2>2. PICK R \in Seq(Steps) :
               RQ = {Q1} \union StepsOf(R) /\ \A y \in StepsOf(R) : QAfter(Q1, y)
      BY <2>1, QRest DEF Kept
    <2>3. ASSUME <<"Send", m>> \in RQ PROVE FALSE
      <3>1. Is(<<"Send", m>>, "Send", Q1[2]) /\ <<"Send", m>> # Q1
        BY <1>2 DEF Is
      <3>2. QAfter(Q1, <<"Send", m>>)
        BY <2>2, <2>3, <3>1
      <3> QED BY <1>2, <3>1, <3>2 DEF QAfter, Is
    <2> QED BY <2>3
  <1>4. /\ ~SendDue(m)'
        /\ \A i \in MTypes : i # m => (SendDue(i)' <=> SendDue(i))
    <2>1. \A i : ~Unacked(i)'
      BY DEF Unacked
    <2>2. \A i : i # m => ~Unacked(i)
      BY <1>2 DEF Unacked, Is
    <2> QED BY <1>1, <1>3, <2>1, <2>2 DEF SendDue
  <1>5. /\ "INIT" \in MTypes /\ "LOCK" \in MTypes /\ "SYNC" \in MTypes
        /\ m = "INIT" \/ m = "LOCK" \/ m = "SYNC"
    BY DEF MTypes
  <1>6. /\ <<"Receive", "INIT">> \notin RS'
        /\ <<"Register", "">> \in RS' => <<"Register", "">> \in RS /\ m = "INIT"
        /\ \A y \in RS' : y[1] = "Receive" => y \in RS /\ m # "SYNC"
    <2>1. ASSUME <<"Receive", "INIT">> \in RS' PROVE FALSE
      BY <2>1 DEF SAfter, Is
    <2>2. ASSUME <<"Register", "">> \in RS' PROVE <<"Register", "">> \in RS /\ m = "INIT"
      <3>1. <<"Register", "">> \in RS /\ SAfter(S1, <<"Register", "">>)
        BY <2>2
      <3>2. m # "SYNC" /\ m # "LOCK"
        BY <3>1 DEF SAfter, Is
      <3> QED BY <1>5, <3>1, <3>2
    <2>3. ASSUME NEW y \in RS', y[1] = "Receive" PROVE y \in RS /\ m # "SYNC"
      BY <2>3 DEF SAfter, Is
    <2> QED BY <2>1, <2>2, <2>3
  <1>7. /\ <<"Register", "">> \in RS => <<"Register", "">> \in RS'
        /\ m # "SYNC" => (<<"Receive", "SYNC">> \in RS' <=> <<"Receive", "SYNC">> \in RS)
    <2>1. <<"Register", "">> # S1 /\ (m # "SYNC" => <<"Receive", "SYNC">> # S1)
      OBVIOUS
    <2> QED BY <2>1
  <1>8. /\ m = "LOCK" <=> S1 = LockStep
        /\ Locks(todo["sib"])' \in Nat
        /\ Locks(todo["sib"])' = 0 <=> LockStep \notin RS'
    <2>1. PICK s \in Seq(Steps) : s = todo'["sib"]
      OBVIOUS
    <2>2. Locks(s) \in Nat /\ (Locks(s) = 0 <=> LockStep \notin StepsOf(s))
      BY LocksAre
    <2> QED BY <2>1, <2>2 DEF LockStep, RS
  <1>9. RegistrationsLeft' = RegistrationsLeft
    BY <1>1 DEF RegistrationsLeft
  <1>10. CASE m = "SYNC"
    <2>1. ~HasReg /\ ~RegDue /\ ~SendDue("INIT")
      BY <1>10, NoneLeft
    <2>2. ~SendDue("SYNC")' /\ ~SendDue("INIT")' /\ ~HasReg' /\ ~RegDue'
      BY <1>1, <1>4, <1>5, <1>10, <2>1
    <2>3. <<"Register", "">> \notin RS' /\ \A y \in RS' : y[1] # "Receive"
      BY <1>6, <1>10
    <2>4. LockStep \notin RS'
      BY <2>3 DEF LockStep
    <2>5. Locks(todo["sib"])' = 0
      BY <1>8, <2>4
    <2> QED BY <2>2, <2>3, <2>5 DEF Boot, B1, B2, B3, B4, B5
  <1>11. CASE m = "INIT"
    <2>1. SendDue("INIT") /\ HasReg /\ SendDue("SYNC")
      BY <1>11 DEF SendDue, Kept, Boot, B4
    <2>2. /\ ~SendDue("INIT")' /\ SendDue("SYNC")' /\ HasReg'
          /\ SendDue("LOCK")' <=> SendDue("LOCK")
      BY <1>1, <1>4, <1>5, <1>11, <2>1
    <2>3. LocksDue' = LocksDue
      BY <1>9, <2>2 DEF LocksDue
    <2>4. LocksLeft' = LocksLeft
      BY <1>1, <1>6, <1>7, <1>8, <1>11 DEF LocksLeft
    <2>5. <<"Receive", "SYNC">> \in RS' /\ LocksDue = LocksLeft
      BY <1>7, <1>11, <2>1 DEF Kept, Boot, B1
    <2>6. B1'
      BY <1>6, <2>3, <2>4, <2>5 DEF B1
    <2>7. RegDue' => "REGISTERING" \in flags'["qm"]
      BY <1>1 DEF Kept, Boot, B3
    <2> QED BY <2>2, <2>6, <2>7 DEF Boot, B2, B3, B4, B5
  <1>12. CASE m = "LOCK"
    <2>1. /\ SendDue("LOCK") /\ ~SendDue("LOCK")'
          /\ SendDue("SYNC")' <=> SendDue("SYNC")
          /\ SendDue("INIT")' <=> SendDue("INIT")
      BY <1>4, <1>5, <1>12 DEF SendDue
    <2>2. ~SendDue("INIT")
      <3>1. <<"Receive", "INIT">> # S1
        BY <1>12
      <3>2. <<"Receive", "INIT">> \notin RS
        BY <1>6, <3>1
      <3> QED BY <3>2 DEF Kept, Boot, B5
    <2>3. <<"Register", "">> \notin RS /\ <<"Register", "">> \notin RS'
      BY <1>6, <1>7, <1>12
    <2>4. Locks(todo["sib"]) = Locks(todo["sib"])' + 1
      BY <1>8, <1>12
    <2>5. LocksDue = LocksLeft => LocksDue' = LocksLeft'
      <3>1. LocksDue = RegistrationsLeft + 1 /\ RegistrationsLeft \in Nat
        BY <2>1, LocksDueIs
      <3>2. LocksDue' = RegistrationsLeft
        BY <1>9, <2>1, <3>1 DEF LocksDue
      <3>3. LocksLeft = Locks(todo["sib"]) /\ LocksLeft' = Locks(todo["sib"])'
        BY <2>3 DEF LocksLeft
      <3> QED BY <1>8, <2>4, <3>1, <3>2, <3>3
    <2>6. B1'
      BY <1>6, <1>7, <1>12, <2>1, <2>5 DEF Kept, Boot, B1
    <2>7. B2'
      <3> SUFFICES ASSUME ~SendDue("SYNC")
                   PROVE  /\ \A y \in RS' : y[1] # "Receive"
                          /\ Locks(todo["sib"])' \in {0, 1}
        BY <2>1, <2>3 DEF B2
      <3>1. Locks(todo["sib"]) \in {0, 1} /\ \A y \in RS : y[1] = "Receive" => y = S1
        BY DEF Kept, Boot, B2
      <3>2. Locks(todo["sib"])' = 0
        BY <1>8, <2>4, <3>1
      <3>3. S1 \notin RS'
        BY <1>8, <1>12, <3>2
      <3> QED BY <1>6, <3>1, <3>2, <3>3
    <2>8. B3' /\ B4' /\ B5'
      BY <1>1, <2>1, <2>2 DEF Kept, Boot, B3, B4, B5
    <2> QED BY <2>6, <2>7, <2>8 DEF Boot
  <1> QED BY <1>5, <1>10, <1>11, <1>12

LEMMA KeepsReceive ==
    ASSUME TypeInv, Kept, Receive
    PROVE  Kept'
  <1>1. /\ At("sib", "Receive") /\ "RECVD" \in eisr["sib"]
        /\ UNCHANGED <<ticks, icrr, db0, db3, type4, registered, alive, mode, skipLock, flags>>
    BY DEF Receive, Running, doorbellVars, pgpeVars
  <1>2. S1 \in Steps /\ S1[1] = "Receive" /\ S1[2] = Argument("sib") /\ S1 # End
    BY <1>1, HeadsAt
  <1>3. S1 \in RS /\ S1 = <<S1[1], S1[2]>> /\ S1[2] \in MTypes
    BY <1>2, Heads DEF MsgKinds
  <1>4. PICK m \in MTypes : m = icrr[1] /\ Unacked(m)
    BY <1>1, <1>2 DEF Kept, Lines, W4, Is
  <1>5. SameFlags
    BY <1>1 DEF SameFlags
  <1>6. CASE Panics("sib") /\ UNCHANGED eisr
    <2>1. QSame /\ SSame /\ GSame
      BY <1>6 DEF Panics, QSame, SSame, GSame
    <2>2. SameSignals
      BY <1>6 DEF SameSignals
    <2>3. Ticks'
      BY <1>1, <2>1, <2>2, SameTicks DEF Kept
    <2> QED BY <1>1, <1>5, <2>1, <2>2, <2>3, StaysKept
  <1>7. CASE /\ TypeBits[m] \intersect TypeBits[Argument("sib")] # {}
             /\ eisr' = Raising("qm", "ACK", eisr)
             /\ Then("sib", <<<<"ClearBit", "RECVD">>>>)
    <2>1. Is(S1, "Receive", m) /\ S1 = <<"Receive", m>>
      BY <1>2, <1>3, <1>4, <1>7, Matches DEF Is
    <2>2. PICK x \in Steps : x = <<"ClearBit", "RECVD">> /\ x[1] = "ClearBit" /\ x[2] = "RECVD"
      <3>1. <<"ClearBit", "RECVD">> \in Steps
        BY DEF Steps
      <3> QED BY <3>1
    <2>3. /\ QSame /\ GSame /\ SForm(todo["sib"])'
          /\ S1' = x /\ S2' = S2
          /\ \A y \in RS' : (y \in RS /\ SAfter(S1, y)) \/ y = x
          /\ \A y \in RS : y \in RS' \/ y = S1
          /\ S1 # LockStep => Locks(todo["sib"])' = Locks(todo["sib"])
          /\ S1 = LockStep => Locks(todo["sib"]) = Locks(todo["sib"])' + 1
      <3>1. Forms /\ SNext(S1, S2)
        BY <1>2, HeadForms DEF Kept
      <3>2. SNext(x, S2)
        BY <2>1, <3>1, <2>2 DEF SNext, Is, MTypes, SibKinds
      <3>3. \A y \in Steps : SAfter(S1, y) => SAfter(x, y)
        BY <1>2, <2>2 DEF SAfter
      <3>4. Then("sib", <<x>>) /\ x # LockStep
        BY <1>7, <2>2 DEF LockStep
      <3> QED BY <1>1, <3>1, <3>2, <3>3, <3>4, SibPush
    <2>4. eisr'["qm"] = eisr["qm"] \union {"ACK"} /\ eisr'["sib"] = eisr["sib"]
      BY <1>7, BitViews DEF Bits
    <2>5. SibStep
      BY <1>1, <1>5, <2>3, <2>4 DEF SibStep
    <2>6. /\ Exchange' /\ Forms' /\ Q1' = Q1 /\ Q2' = Q2 /\ Q3' = Q3 /\ RQ' = RQ
          /\ G1' = G1 /\ G2' = G2 /\ (HasReg' <=> HasReg) /\ (RegDue' <=> RegDue)
      BY <2>5, SibRest
    <2>7. Q1[1] = "AwaitMsgAck" /\ Q1[2] = m
      BY <1>4 DEF Unacked, Is
    <2>8. /\ \A y \in Signals : y \notin eisr["sib"] /\ y \notin eisr["qm"]
          /\ "IN0" \notin eisr["sib"] /\ "IN1" \notin eisr["sib"]
      <3>1. \A y : ~Awaits(y) /\ ~Unanswered(y)
        BY <2>7 DEF Awaits, Unanswered, AnswerKinds
      <3>2. \A y \in Signals : y \notin eisr["sib"] /\ y \notin eisr["qm"]
        BY <1>2, <3>1 DEF Kept, Lines, W1, W2, Is
      <3> QED BY <3>2 DEF Signals
    <2>9. Lines'
      <3>1. W1' /\ W2'
        BY <2>4, <2>8 DEF W1, W2, Signals
      <3>2. W3'
        BY <2>6, <2>7 DEF W3
      <3>3. W4' /\ W5'
        BY <2>2, <2>3 DEF W4, W5, Is
      <3> QED BY <3>1, <3>2, <3>3 DEF Lines
    <2>10. Ticks'
      <3>1. T1'
        BY <1>1, <2>4, <2>6 DEF Kept, Ticks, T1
      <3>2. T2'
        BY <1>1, <1>2, <1>3 DEF Kept, Ticks, T2
      <3>3. T3'
        BY <1>1, <1>2 DEF Kept, Ticks, T3
      <3> QED BY <3>1, <3>2, <3>3 DEF Ticks
    <2>11. Boot'
      <3>1. "ACK" \in eisr'["qm"] /\ S1 \in RS
        BY <1>3, <2>4
      <3>2. \A y \in RS' : (y \in RS /\ SAfter(S1, y)) \/ y[1] = "ClearBit"
        BY <2>2, <2>3
      <3>3. todo'["sib"] \in Seq(Steps)
        BY TypesMessages DEF TypeInv, TodoType, Processes
      <3> QED BY <1>4, <2>1, <2>3, <2>5, <3>1, <3>2, <3>3, ReceivedBoot
    <2>12. Pairing'
      <3>1. \A j \in Ks : ~SOpen(j) /\ ~SOpen(j)'
        BY <1>2, <2>2, <2>3 DEF SOpen, Is
      <3>2. ~SClipMid /\ ~SClipMid' /\ ~SHbMid /\ ~SHbMid'
        BY <1>2, <2>2, <2>3 DEF SClipMid, SHbMid, Is
      <3>3. SameMeeting
        BY <3>1, <3>2 DEF SameMeeting
      <3> QED BY <2>4, <2>5, <3>3, SibPairing
    <2>13. Standstill'
      <3>1. L1'
        <4> SUFFICES ASSUME m = "LOCK" PROVE Held'
          BY <2>6, <2>7 DEF L1, Is
        <4>1. S2[1] = "Spin"
          BY <1>2, <2>1, HeadForms DEF Kept, SNext, Is
        <4> QED BY <2>2, <2>3, <2>4, <2>8, <4>1 DEF Held
      <3>2. L2' /\ L3' /\ L4' /\ L5'
        BY <2>6, <2>7 DEF L2, L3, L4, L5, QHbMid, Answered2, Awaits, AnswerKinds
      <3>3. K1'
        BY <1>1, <2>6 DEF Kept, Standstill, K1
      <3> QED BY <3>1, <3>2, <3>3 DEF Standstill
    <2> QED BY <2>6, <2>9, <2>10, <2>11, <2>12, <2>13 DEF Kept
  <1> QED BY <1>4, <1>6, <1>7 DEF Receive

-----------------------------------------------------------------------------
(* What the sibling does when it is stopped.                               *)
Free(s) ==      \* s may follow any step
    /\ SForm(s) /\ SNext(<<"CheckIn0", "">>, Item(s, 1))
    /\ \A y \in StepsOf(s) : y[1] # "Register" /\ ~Is(y, "Receive", "INIT")

LEMMA SibSteps ==
    /\ <<"Spin", "">> \in Steps /\ <<"CheckIn0", "">> \in Steps /\ LockStep \in Steps
    /\ <<"Spin", "">> # LockStep /\ <<"CheckIn0", "">> # LockStep
    /\ LockStep[1] = "Receive" /\ LockStep[2] = "LOCK"
    /\ <<"Spin", "">>[1] = "Spin" /\ <<"CheckIn0", "">>[1] = "CheckIn0"
  <1>1. \A k \in PlainKinds : <<k, "">> \in Steps
    BY DEF Steps
  <1>2. LockStep \in Steps
    BY DEF Steps, LockStep, MsgKinds, MsgTypes
  <1> QED BY <1>1, <1>2 DEF PlainKinds, LockStep

LEMMA StoppedScript ==
    ASSUME NEW s \in Seq(Steps), Free(s)
    PROVE  \E t \in Seq(Steps) :
               /\ t = LockAndIntercme \o s /\ Free(t) /\ Item(t, 1) = <<"Spin", "">>
               /\ StepsOf(t) = {<<"Spin", "">>, <<"CheckIn0", "">>} \union StepsOf(s)
               /\ Locks(t) = Locks(s)
  <1>1. PICK x, z \in Steps : x = <<"Spin", "">> /\ z = <<"CheckIn0", "">>
                              /\ x[1] = "Spin" /\ z[1] = "CheckIn0"
                              /\ x # LockStep /\ z # LockStep
    BY SibSteps
  <1>2. PICK u \in Seq(Steps) :
               /\ u = <<z>> \o s /\ SForm(u) /\ Item(u, 1) = z
               /\ StepsOf(u) = {z} \union StepsOf(s) /\ Locks(u) = Locks(s)
    <2>1. SNext(z, Item(s, 1)) /\ SForm(s)
      BY <1>1 DEF Free
    <2>2. \A y \in StepsOf(s) : SAfter(z, y)
      BY <1>1 DEF Free, SAfter, Is
    <2> QED BY <1>1, <2>1, <2>2, SCons
  <1>0. u \in Seq(Steps)
    BY <1>2
  <1>3. PICK t \in Seq(Steps) :
               /\ t = <<x>> \o u /\ SForm(t) /\ Item(t, 1) = x
               /\ StepsOf(t) = {x} \union StepsOf(u) /\ Locks(t) = Locks(u)
    <2>1. SNext(x, Item(u, 1)) /\ SForm(u)
      BY <1>1, <1>2 DEF SNext, SibKinds
    <2>2. \A y \in StepsOf(u) : SAfter(x, y)
      BY <1>1, <1>2 DEF Free, SAfter, Is
    <2> QED BY <1>0, <1>1, <2>1, <2>2, SCons
  <1>4. t = LockAndIntercme \o s
    <2>1. PICK a, b \in Seq(Steps) : a = <<x>> /\ b = <<z>>
      BY OneStep
    <2>2. (a \o b) \o s = a \o (b \o s)
      BY <2>1, Concat
    <2> QED BY <1>1, <1>2, <1>3, <2>1, <2>2 DEF LockAndIntercme, Step
  <1>5. Free(t)
    <2>1. SNext(<<"CheckIn0", "">>, Item(t, 1))
      BY <1>1, <1>3 DEF SNext, SibKinds
    <2>2. \A y \in StepsOf(t) : y[1] # "Register" /\ ~Is(y, "Receive", "INIT")
      BY <1>1, <1>2, <1>3 DEF Free, Is
    <2> QED BY <1>3, <2>1, <2>2 DEF Free
  <1> QED BY <1>1, <1>2, <1>3, <1>4, <1>5

LEMMA SiblingLockScript ==
    ASSUME NEW s \in Seq(Steps), Free(s)
    PROVE  \E t \in Seq(Steps) :
               /\ t = SiblingLock \o s /\ Free(t)
               /\ Item(t, 1) = LockStep /\ Item(t, 2)[1] = "Spin"
               /\ StepsOf(t) = {LockStep, <<"Spin", "">>, <<"CheckIn0", "">>} \union StepsOf(s)
               /\ Locks(t) = Locks(s) + 1
  <1>1. PICK u \in Seq(Steps) :
               /\ u = LockAndIntercme \o s /\ Free(u) /\ Item(u, 1) = <<"Spin", "">>
               /\ StepsOf(u) = {<<"Spin", "">>, <<"CheckIn0", "">>} \union StepsOf(s)
               /\ Locks(u) = Locks(s)
    BY StoppedScript
  <1>0. u \in Seq(Steps)
    BY <1>1
  <1>2. PICK t \in Seq(Steps) :
               /\ t = <<LockStep>> \o u /\ SForm(t)
               /\ Item(t, 1) = LockStep /\ Item(t, 2) = Item(u, 1)
               /\ StepsOf(t) = {LockStep} \union StepsOf(u)
               /\ Locks(t) = Locks(u) + 1
    <2>1. SNext(LockStep, Item(u, 1))
      <3>1. Item(u, 1)[1] = "Spin" /\ LockStep[1] = "Receive" /\ LockStep[2] = "LOCK"
        BY <1>1, SibSteps
      <3> QED BY <3>1 DEF SNext, SibKinds
    <2>2. \A y \in StepsOf(u) : SAfter(LockStep, y)
      BY <1>1, SibSteps DEF Free, SAfter, Is
    <2>3. SForm(u)
      BY <1>1 DEF Free
    <2> QED BY <1>0, <2>1, <2>2, <2>3, SibSteps, SCons
  <1>3. t = SiblingLock \o s
    <2>1. PICK a, b \in Seq(Steps) : a = <<LockStep>> /\ b = LockAndIntercme
      BY OneStep, SibSteps, LockScripts
    <2>2. (a \o b) \o s = a \o (b \o s)
      BY <2>1, Concat
    <2> QED BY <1>1, <1>2, <2>1, <2>2 DEF SiblingLock, MsgRecv, LockStep
  <1>4. Free(t)
    <2>1. SNext(<<"CheckIn0", "">>, Item(t, 1))
      BY <1>2, SibSteps DEF SNext, SibKinds
    <2>2. \A y \in StepsOf(t) : y[1] # "Register" /\ ~Is(y, "Receive", "INIT")
      BY <1>1, <1>2, SibSteps DEF Free, Is
    <2> QED BY <1>2, <2>1, <2>2 DEF Free
  <1>5. Item(t, 2)[1] = "Spin"
    BY <1>1, <1>2, SibSteps
  <1> QED BY <1>1, <1>2, <1>3, <1>4, <1>5

(* Three times when it registers.                                          *)
LEMMA RegisterScript ==
    ASSUME NEW s \in Seq(Steps), Free(s)
    PROVE  \E t \in Seq(Steps) :
               /\ t = (SiblingLock \o SiblingLock \o SiblingLock) \o s /\ Free(t)
               /\ Item(t, 1) = LockStep
               /\ StepsOf(t) = {LockStep, <<"Spin", "">>, <<"CheckIn0", "">>} \union StepsOf(s)
               /\ Locks(t) = Locks(s) + 3
  <1>1. PICK u \in Seq(Steps) :
               /\ u = SiblingLock \o s /\ Free(u)
               /\ StepsOf(u) = {LockStep, <<"Spin", "">>, <<"CheckIn0", "">>} \union StepsOf(s)
               /\ Locks(u) = Locks(s) + 1
    BY SiblingLockScript
  <1>2. PICK v \in Seq(Steps) :
               /\ v = SiblingLock \o u /\ Free(v)
               /\ StepsOf(v) = {LockStep, <<"Spin", "">>, <<"CheckIn0", "">>} \union StepsOf(u)
               /\ Locks(v) = Locks(u) + 1
    <2>1. u \in Seq(Steps) /\ Free(u)
      BY <1>1
    <2> QED BY <2>1, SiblingLockScript
  <1>3. PICK t \in Seq(Steps) :
               /\ t = SiblingLock \o v /\ Free(t) /\ Item(t, 1) = LockStep
               /\ StepsOf(t) = {LockStep, <<"Spin", "">>, <<"CheckIn0", "">>} \union StepsOf(v)
               /\ Locks(t) = Locks(v) + 1
    <2>1. v \in Seq(Steps) /\ Free(v)
      BY <1>2
    <2> QED BY <2>1, SiblingLockScript
  <1>4. Locks(t) = Locks(s) + 3
    <2>1. Locks(s) \in Nat
      BY LocksAre
    <2>2. Locks(t) = ((Locks(s) + 1) + 1) + 1
      BY <1>1, <1>2, <1>3, Zenon
    <2> QED BY <2>1, <2>2
  <1>5. t = (SiblingLock \o SiblingLock \o SiblingLock) \o s
    <2>1. PICK l \in Seq(Steps) : l = SiblingLock
      BY LockScripts
    <2>2. l \in Seq(Steps)
      BY <2>1
    <2>3. Join(Join(Join(l, l), l), s) = Join(l, Join(l, Join(l, s)))
      BY <2>2, Join4
    <2> QED BY <1>1, <1>2, <1>3, <2>1, <2>3 DEF Join
  <1> QED BY <1>1, <1>2, <1>3, <1>4, <1>5

LEMMA RegisteredSteps ==
    ASSUME TypeInv, Kept, Register("sib")
    PROVE  \E t, s \in Seq(Steps) :
               /\ t = todo'["sib"] /\ QSame /\ GSame /\ Free(t)
               /\ RS = {S1} \union StepsOf(s) /\ S1 \notin StepsOf(s)
               /\ StepsOf(s) \subseteq StepsOf(t)
               /\ \A y \in StepsOf(t) : y \in StepsOf(s) \/ y = LockStep
                                       \/ y[1] \in {"Spin", "CheckIn0"}
               /\ Locks(t) = IF "INTERLOCK" \in flags["sib"] THEN 3 ELSE 0
  <1>1. At("sib", "Register")
    BY DEF Register, Running
  <1>2. S1 \in Steps /\ S1[1] = "Register" /\ S1 # End
    BY <1>1, HeadsAt
  <1>3. PICK s \in Seq(Steps) :
               /\ s = Tail(todo["sib"]) /\ SForm(s)
               /\ Item(s, 1) = S2
               /\ SNext(S1, S2) /\ \A y \in StepsOf(s) : SAfter(S1, y)
               /\ RS = {S1} \union StepsOf(s)
    BY <1>1, SibTail DEF Kept
  <1>4. \A y \in StepsOf(s) : y[1] # "Register" /\ ~Is(y, "Receive", "INIT") /\ y # LockStep
    <2>1. \A y \in StepsOf(s) : y[1] # "Register" /\ ~(y[1] = "Receive" /\ y[2] \in {"LOCK", "INIT"})
      BY <1>2, <1>3 DEF SAfter
    <2> QED BY <2>1, SibSteps DEF Is
  <1>5. Free(s) /\ Locks(s) = 0 /\ S1 \notin StepsOf(s)
    <2>1. SNext(<<"CheckIn0", "">>, Item(s, 1))
      BY <1>2, <1>3 DEF SNext, SibKinds
    <2>2. Locks(s) = 0
      BY <1>4, LocksAre
    <2> QED BY <1>2, <1>3, <1>4, <2>1, <2>2 DEF Free
  <1>0. s \in Seq(Steps)
    BY <1>3
  <1>6. TodoType /\ "sib" \in Processes /\ "qm" \in Processes \ {"sib"}
        /\ "pgpe" \in Processes \ {"sib"}
    BY DEF TypeInv, Processes
  <1>7. CASE "INTERLOCK" \in flags["sib"]
    <2>1. PICK t \in Seq(Steps) :
               /\ t = (SiblingLock \o SiblingLock \o SiblingLock) \o s /\ Free(t)
               /\ StepsOf(t) = {LockStep, <<"Spin", "">>, <<"CheckIn0", "">>} \union StepsOf(s)
               /\ Locks(t) = Locks(s) + 3
      BY <1>0, <1>5, RegisterScript
    <2>2. PICK l \in Seq(Steps) : l = SiblingLock \o SiblingLock \o SiblingLock
      BY LockScripts, Joined
    <2>3. Then("sib", l)
      BY <1>7, <2>2 DEF Register
    <2>4. todo'["sib"] = t /\ QSame /\ GSame
      BY <1>3, <1>6, <2>1, <2>2, <2>3, ThenSteps DEF QSame, GSame
    <2>5. \A y \in StepsOf(t) : y \in StepsOf(s) \/ y = LockStep \/ y[1] \in {"Spin", "CheckIn0"}
      BY <2>1, SibSteps
    <2>6. Locks(t) = 3
      <3>1. Locks(t) = 0 + 3
        BY <1>5, <2>1, Zenon
      <3> QED BY <3>1
    <2> QED BY <1>0, <1>3, <1>5, <1>7, <2>1, <2>4, <2>5, <2>6
  <1>8. CASE "INTERLOCK" \notin flags["sib"]
    <2>1. Then("sib", <<>>)
      BY <1>8 DEF Register
    <2>2. <<>> \in Seq(Steps) /\ <<>> \o s = s
      BY <1>0, Concat
    <2>3. todo'["sib"] = s /\ QSame /\ GSame
      BY <1>3, <1>6, <2>1, <2>2, ThenSteps DEF QSame, GSame
    <2> QED BY <1>0, <1>3, <1>5, <1>8, <2>3
  <1> QED BY <1>7, <1>8

LEMMA KeepsSibRegister ==
    ASSUME TypeInv, Kept, Register("sib")
    PROVE  Kept'
  <1>1. /\ At("sib", "Register")
        /\ UNCHANGED <<eisr, ticks, icrr, db0, db3, type4, registered, alive, mode, skipLock,
                       flags>>
    BY DEF Register, Running, sysVars, pgpeVars
  <1>2. S1 \in Steps /\ S1[1] = "Register" /\ S1 # End
    BY <1>1, HeadsAt
  <1>3. PICK t, s \in Seq(Steps) :
               /\ t = todo'["sib"] /\ QSame /\ GSame /\ Free(t)
               /\ RS = {S1} \union StepsOf(s) /\ S1 \notin StepsOf(s)
               /\ StepsOf(s) \subseteq StepsOf(t)
               /\ \A y \in StepsOf(t) : y \in StepsOf(s) \/ y = LockStep
                                       \/ y[1] \in {"Spin", "CheckIn0"}
               /\ Locks(t) = IF "INTERLOCK" \in flags["sib"] THEN 3 ELSE 0
    BY RegisteredSteps
  <1>4. SibStep
    BY <1>1, <1>3 DEF SibStep, SameFlags, Free
  <1>5. /\ Exchange' /\ Forms' /\ Q1' = Q1 /\ Q2' = Q2 /\ RQ' = RQ
        /\ HasReg' <=> HasReg
        /\ RegDue' <=> RegDue
        /\ \A n \in 1 .. 3 : RegLeft(n)' <=> RegLeft(n)
        /\ Interlock' = Interlock
        /\ "REGISTERING" \in flags'["qm"] <=> "REGISTERING" \in flags["qm"]
    BY <1>4, SibRest
  <1>6. S1' = Item(t, 1) /\ RS' = StepsOf(t) /\ Locks(todo["sib"])' = Locks(t)
    BY <1>3 DEF S1, RS
  <1>7. /\ SNext(<<"CheckIn0", "">>, S1')
        /\ S1'[1] \notin {"Answer", "SiblingDb0", "Suspended", "ClearBit", "Store", "ToFsafe", "Pmsr"}
        /\ ~Is(S1, "AwaitSignal", "IN2")'
    BY <1>3, <1>6 DEF Free, SNext, SibKinds, Is
  <1>8. Lines'
    <2>1. \A x : (Awaits(x)' <=> Awaits(x)) /\ (Unanswered(x)' <=> Unanswered(x))
      BY <1>1, <1>5 DEF Awaits, Unanswered
    <2>2. \A m : Unacked(m)' <=> Unacked(m)
      BY <1>1, <1>5 DEF Unacked
    <2>3. W1' /\ W3'
      BY <1>1, <1>5, <2>1 DEF Kept, Lines, W1, W3
    <2>4. W2'
      BY <1>1, <1>2, <2>1 DEF Kept, Lines, W2, Is
    <2>5. W4'
      BY <1>1, <1>2, <2>2 DEF Kept, Lines, W4, Is
    <2>6. W5'
      BY <1>7 DEF W5
    <2> QED BY <2>3, <2>4, <2>5, <2>6 DEF Lines
  <1>9. Ticks'
    <2>1. T1'
      BY <1>1, <1>5 DEF Kept, Ticks, T1
    <2>2. T2'
      BY <1>1, <1>2, <1>3 DEF Kept, Ticks, T2
    <2>3. T3'
      BY <1>1, <1>2 DEF Kept, Ticks, T3
    <2> QED BY <2>1, <2>2, <2>3 DEF Ticks
  <1>10. Boot'
    <2>0. S1 = <<"Register", "">> /\ S1 \in RS
      BY <1>2, <1>3, Heads, Blank DEF PlainKinds
    <2>1. \A m : (Unacked(m)' <=> Unacked(m)) /\ (SendDue(m)' <=> SendDue(m))
      BY <1>1, <1>5 DEF Unacked, SendDue
    <2>2. SendDue("SYNC")
      BY <2>0 DEF Kept, Boot, B2
    <2>3. /\ <<"Register", "">> \notin RS' /\ <<"Receive", "INIT">> \notin RS'
          /\ <<"Receive", "SYNC">> \in RS => <<"Receive", "SYNC">> \in RS'
          /\ <<"Receive", "INIT">> \in RS => <<"Receive", "INIT">> \in RS'
      <3>1. \A y \in RS' : y[1] # "Register" /\ ~Is(y, "Receive", "INIT")
        BY <1>3, <1>6 DEF Free
      <3>2. <<"Register", "">> \notin RS'
        BY <3>1
      <3>3. <<"Receive", "INIT">> \notin RS'
        BY <3>1 DEF Is
      <3>4. S1 # <<"Receive", "SYNC">> /\ S1 # <<"Receive", "INIT">>
        BY <2>0
      <3> QED BY <1>3, <1>6, <3>2, <3>3, <3>4
    <2>4. ~SendDue("INIT")
      BY <2>3 DEF Kept, Boot, B5
    <2>5. LocksLeft' = LocksLeft /\ LocksDue' = LocksDue
      <3>1. Interlock <=> "INTERLOCK" \in flags["sib"]
        BY DEF Kept, Exchange, E8
      <3>2. LocksLeft' = LocksLeft
        BY <1>3, <1>5, <1>6, <2>0, <2>3, <3>1 DEF LocksLeft
      <3>3. /\ RegLeft(1)' <=> RegLeft(1)
            /\ RegLeft(2)' <=> RegLeft(2)
            /\ RegLeft(3)' <=> RegLeft(3)
            /\ SendDue("LOCK")' <=> SendDue("LOCK")
        BY <1>5, <2>1
      <3>4. RegistrationsLeft' = RegistrationsLeft
        BY <1>5, <3>3 DEF RegistrationsLeft
      <3> QED BY <3>2, <3>3, <3>4 DEF LocksDue
    <2>6. B1'
      BY <2>2, <2>3, <2>5 DEF Kept, Boot, B1
    <2>7. B2' /\ B3' /\ B4' /\ B5'
      BY <1>5, <2>1, <2>2, <2>4 DEF Kept, Boot, B2, B3, B4, B5
    <2> QED BY <2>6, <2>7 DEF Boot
  <1>11. Pairing'
    <2>1. \A j \in Ks : ~SOpen(j) /\ ~SOpen(j)'
      BY <1>2, <1>7 DEF SOpen, Is
    <2>2. ~SClipMid /\ ~SClipMid' /\ ~SHbMid /\ ~SHbMid'
      BY <1>2, <1>7 DEF SClipMid, SHbMid, Is
    <2>3. SameMeeting
      BY <2>1, <2>2 DEF SameMeeting
    <2> QED BY <1>1, <1>4, <2>3, SibPairing
  <1>12. Standstill'
    BY <1>2, <1>1, <1>4, SibStandstill DEF Held, SHbMid, Is
  <1> QED BY <1>5, <1>8, <1>9, <1>10, <1>11, <1>12 DEF Kept

-----------------------------------------------------------------------------
(* The interrupts of the idle sibling.                                     *)
LEMMA SEmpty ==
    /\ <<>> \in Seq(Steps) /\ SForm(<<>>) /\ Free(<<>>) /\ StepsOf(<<>>) = {}
    /\ Item(<<>>, 1) = End /\ Item(<<>>, 2) = End /\ Locks(<<>>) = 0
  <1>1. Len(<<>>) = 0 /\ <<>> \in Seq(Steps)
    OBVIOUS
  <1>2. StepsOf(<<>>) = {} /\ Item(<<>>, 1) = End /\ Item(<<>>, 2) = End
    BY EmptyItems
  <1>3. SForm(<<>>)
    BY <1>1 DEF SForm, Form
  <1>4. SNext(<<"CheckIn0", "">>, Item(<<>>, 1))
    BY <1>2, NoEnd DEF SNext, SibKinds
  <1>5. Locks(<<>>) = 0
    BY <1>1, <1>2, LocksAre
  <1> QED BY <1>1, <1>2, <1>3, <1>4, <1>5 DEF Free

LEMMA IdleSibling ==
    ASSUME TypeInv, Idle("sib")
    PROVE  /\ S1 = End /\ RS = {} /\ Locks(todo["sib"]) = 0
           /\ S1[1] = "none" /\ \A k \in Ks : ~SOpen(k)
           /\ ~SClipMid /\ ~SHbMid /\ ~Held
  <1>1. S1 = End /\ RS = {} /\ S1[1] = "none"
    BY IdleViews, NoEnd
  <1>2. Locks(todo["sib"]) = 0
    BY SEmpty DEF Idle
  <1> QED BY <1>1, <1>2 DEF SOpen, SClipMid, SHbMid, Held, Is

LEMMA SibBegins ==
    ASSUME TypeInv, Kept, Idle("sib"), SibStep, eisr'["qm"] = eisr["qm"],
           \A b \in Bits \ {"DB3", "HB"} : b \in eisr'["sib"] <=> b \in eisr["sib"],
           \A i \in {"DB0", "RECVD"} : ticks'[i] = ticks[i],
           ticks'["IN0"] = 0,
           NEW t \in Seq(Steps), t = todo'["sib"],
           \A y \in StepsOf(t) : y[1] \notin {"Receive", "Register", "PowerOn"},
           Item(t, 1)[1] # "ClearBit",
           W5'
    PROVE  Lines' /\ Exchange' /\ Ticks' /\ Boot' /\ Forms'
  <1>1. S1 = End /\ RS = {} /\ S1[1] = "none" /\ Locks(todo["sib"]) = 0
    BY IdleSibling
  <1>2. S1' = Item(t, 1) /\ RS' = StepsOf(t)
    BY DEF S1, RS
  <1>3. /\ Exchange' /\ Forms' /\ Q1' = Q1 /\ Q2' = Q2 /\ RQ' = RQ
        /\ HasReg' <=> HasReg
        /\ RegDue' <=> RegDue
    BY SibRest
  <1>4. Lines'
    <2>1. \A x : (Awaits(x)' <=> Awaits(x)) /\ (Unanswered(x)' <=> Unanswered(x))
      BY <1>3 DEF Awaits, Unanswered
    <2>2. \A m : Unacked(m)' <=> Unacked(m)
      BY <1>3 DEF Unacked
    <2>3. W1' /\ W3'
      BY <1>3, <2>1 DEF Kept, Lines, W1, W3
    <2>4. W2'
      BY <1>1, <2>1 DEF Bits, Signals, Kept, Lines, W2, Is
    <2>5. W4'
      <3>1. "RECVD" \in eisr'["sib"] <=> "RECVD" \in eisr["sib"]
        BY DEF Bits
      <3>2. ~Is(S1, "ClearBit", "RECVD") /\ icrr' = icrr
        BY <1>1 DEF Is, SibStep
      <3>3. Unacked(icrr[1])' <=> Unacked(icrr[1])
        BY <1>3, <3>2 DEF Unacked
      <3> QED BY <3>1, <3>2, <3>3 DEF Kept, Lines, W4
    <2> QED BY <2>3, <2>4, <2>5 DEF Lines
  <1>5. Ticks'
    <2>1. T1'
      BY <1>3 DEF Kept, Ticks, T1
    <2>2. T2'
      <3>1. \A y \in RS' : y[1] \notin {"Receive", "Register", "PowerOn"}
        BY <1>2
      <3>2. ~Is(S1', "ClearBit", "RECVD")
        BY <1>2 DEF Is
      <3>3. ticks["RECVD"] > 0 => "RECVD" \in eisr'["sib"]
        BY DEF Kept, Ticks, T2, Bits
      <3> QED BY <3>1, <3>2, <3>3 DEF T2
    <2>3. T3'
      BY DEF T3
    <2> QED BY <2>1, <2>2, <2>3 DEF Ticks
  <1>6. Boot'
    <2>1. \A y \in RS' : y[1] \in {"Receive", "Register"} => y \in RS
      BY <1>2
    <2>2. \A y \in RS : y[1] \in {"Receive", "Register"} => y \in RS'
      BY <1>1
    <2>3. Locks(todo["sib"])' = Locks(todo["sib"])
      <3>1. LockStep \notin StepsOf(t)
        BY SibSteps
      <3>2. Locks(t) = 0
        BY <3>1, LocksAre
      <3> QED BY <1>1, <3>2
    <2> QED BY <1>1, <2>1, <2>2, <2>3, SibBoot
  <1> QED BY <1>3, <1>4, <1>5, <1>6

LEMMA KeepsTakeIn0 ==
    ASSUME TypeInv, Kept, TakeIn0
    PROVE  Kept'
  <1>1. Idle("sib") /\ "IN0" \in eisr["sib"]
    BY TakenIs DEF TakeIn0, Kept
  <1>2. /\ ticks' = [ticks EXCEPT !["IN0"] = 0] /\ UNCHANGED eisr
        /\ todo' = [todo EXCEPT !["sib"] = ProcessDb0Sibling]
        /\ UNCHANGED <<icrr, db0, db3, type4, registered, alive, mode, skipLock, flags>>
    BY DEF TakeIn0, doorbellVars, cmeVars, sysVars, pgpeVars
  <1>3. S1 = End /\ S1[1] = "none"
    BY <1>1, IdleSibling
  <1>4. Unanswered("IN0")
    BY <1>1, <1>3 DEF Kept, Lines, W2, Is, Signals
  <1>5. PICK x, z \in Steps : x = <<"SiblingDb0", "">> /\ z = <<"Answer", "IN0">>
               /\ x[1] = "SiblingDb0" /\ z[1] = "Answer" /\ z[2] = "IN0"
               /\ x # LockStep /\ z # LockStep
    <2>1. \A k \in PlainKinds : <<k, "">> \in Steps
      BY DEF Steps
    <2>2. \A k \in SignalKinds, i \in Signals : <<k, i>> \in Steps
      BY DEF Steps
    <2>3. <<"SiblingDb0", "">> \in Steps /\ <<"Answer", "IN0">> \in Steps
      BY <2>1, <2>2 DEF PlainKinds, SignalKinds, Signals
    <2> QED BY <2>3 DEF LockStep
  <1>6. PICK u \in Seq(Steps) :
               /\ u = <<z>> \o <<>> /\ SForm(u) /\ Item(u, 1) = z
               /\ StepsOf(u) = {z} \union StepsOf(<<>>)
    <2>1. SNext(z, Item(<<>>, 1))
      BY <1>5, SEmpty, NoEnd DEF SNext, SibKinds
    <2>2. \A y \in StepsOf(<<>>) : SAfter(z, y)
      BY SEmpty
    <2> QED BY <1>5, <2>1, <2>2, SEmpty, SCons
  <1>0. u \in Seq(Steps)
    BY <1>6
  <1>7. PICK t \in Seq(Steps) :
               /\ t = <<x>> \o u /\ SForm(t) /\ Item(t, 1) = x
               /\ StepsOf(t) = {x} \union StepsOf(u)
    <2>1. SNext(x, Item(u, 1)) /\ SForm(u)
      BY <1>5, <1>6 DEF SNext, SibKinds
    <2>2. \A y \in StepsOf(u) : SAfter(x, y)
      BY <1>5, <1>6, SEmpty DEF SAfter
    <2> QED BY <1>0, <1>5, <2>1, <2>2, SCons, ZenonT(120)
  <1>8. t = ProcessDb0Sibling
    <2>1. PICK b \in Seq(Steps) : b = <<z>>
      BY OneStep
    <2>2. b \o <<>> = b
      BY <2>1, Concat
    <2> QED BY <1>5, <1>6, <1>7, <2>1, <2>2 DEF ProcessDb0Sibling, Step
  <1>9. t = todo'["sib"] /\ QSame /\ GSame
    BY <1>2, <1>8 DEF TypeInv, Processes, TodoType, QSame, GSame
  <1>10. SibStep
    BY <1>7, <1>9, <1>2 DEF SibStep, SameFlags
  <1>11. S1' = x /\ Q1' = Q1
    BY <1>7, <1>9, <1>10, SibRest DEF S1
  <1>12. W5'
    <2>1. Unanswered("IN0")'
      BY <1>2, <1>4, <1>11 DEF Unanswered, Awaits
    <2> QED BY <1>5, <1>11, <2>1 DEF W5
  <1>13. Lines' /\ Exchange' /\ Ticks' /\ Boot' /\ Forms'
    <2>1. (\A i \in {"DB0", "RECVD"} : ticks'[i] = ticks[i]) /\ ticks'["IN0"] = 0
      BY <1>2 DEF TypeInv, IrqType
    <2>2. /\ \A y \in StepsOf(t) : y[1] \notin {"Receive", "Register", "PowerOn"}
          /\ Item(t, 1)[1] # "ClearBit"
      BY <1>5, <1>6, <1>7, SEmpty
    <2> QED BY <1>1, <1>2, <1>9, <1>10, <1>12, <2>1, <2>2, SibBegins
  <1>14. Pairing' /\ Standstill'
    <2>1. \A j \in Ks : ~SOpen(j) /\ ~SOpen(j)'
      BY <1>1, <1>5, <1>11, IdleSibling DEF SOpen, Is
    <2>2. ~SClipMid /\ ~SClipMid' /\ ~SHbMid /\ ~SHbMid'
      BY <1>1, <1>5, <1>11, IdleSibling DEF SClipMid, SHbMid, Is
    <2>3. SameMeeting /\ ~Is(S1, "AwaitSignal", "IN2") /\ ~Held
      BY <1>1, <1>3, <2>1, <2>2, IdleSibling DEF SameMeeting, Is
    <2> QED BY <1>2, <1>10, <2>2, <2>3, SibPairing, SibStandstill
  <1> QED BY <1>13, <1>14 DEF Kept

LEMMA KeepsTakeMsg ==
    ASSUME TypeInv, Kept, TakeMsg
    PROVE  Kept'
  <1>1. Idle("sib") /\ "RECVD" \in eisr["sib"]
    BY TakenIs DEF TakeMsg, Kept
  <1>2. /\ ticks' = [ticks EXCEPT !["RECVD"] = 0] /\ UNCHANGED eisr
        /\ todo' = [todo EXCEPT !["sib"] = SiblingLock]
        /\ UNCHANGED <<icrr, db0, db3, type4, registered, alive, mode, skipLock, flags>>
    BY DEF TakeMsg, doorbellVars, cmeVars, sysVars, pgpeVars
  <1>3. S1 = End /\ S1[1] = "none" /\ RS = {}
    BY <1>1, IdleSibling
  <1>4. ~SendDue("SYNC") /\ ~SendDue("INIT")
    BY <1>3 DEF Kept, Boot, B1, B5
  <1>5. Unacked("LOCK")
    BY <1>1, <1>3, <1>4 DEF Kept, Lines, W4, Is, SendDue, MTypes
  <1>6. PICK t \in Seq(Steps) :
               /\ t = SiblingLock \o <<>> /\ Free(t)
               /\ Item(t, 1) = LockStep
               /\ StepsOf(t) = {LockStep, <<"Spin", "">>, <<"CheckIn0", "">>} \union StepsOf(<<>>)
               /\ Locks(t) = Locks(<<>>) + 1
    BY SEmpty, SiblingLockScript
  <1>7. t = todo'["sib"] /\ QSame /\ GSame
    <2>1. TodoType /\ "sib" \in Processes
      BY DEF TypeInv, Processes
    <2>2. t = SiblingLock
      <3>1. PICK l \in Seq(Steps) : l = SiblingLock
        BY LockScripts
      <3>2. l \o <<>> = l
        BY <3>1, Concat
      <3> QED BY <1>6, <3>1, <3>2
    <2> QED BY <1>2, <2>1, <2>2 DEF TodoType, QSame, GSame, Processes
  <1>8. SibStep
    <2>1. SForm(todo["sib"])'
      BY <1>6, <1>7 DEF Free
    <2> QED BY <1>2, <1>7, <2>1 DEF SibStep, SameFlags
  <1>9. S1' = LockStep /\ RS' = StepsOf(t) /\ S1'[1] = "Receive"
    BY <1>6, <1>7, SibSteps DEF S1, RS
  <1>10. /\ Exchange' /\ Forms' /\ Q1' = Q1 /\ Q2' = Q2 /\ RQ' = RQ
         /\ HasReg' <=> HasReg
         /\ RegDue' <=> RegDue
         /\ "REGISTERING" \in flags'["qm"] <=> "REGISTERING" \in flags["qm"]
    BY <1>8, SibRest
  <1>11. /\ \A x : (Awaits(x)' <=> Awaits(x)) /\ (Unanswered(x)' <=> Unanswered(x))
         /\ \A m : (Unacked(m)' <=> Unacked(m)) /\ (SendDue(m)' <=> SendDue(m))
    BY <1>2, <1>10 DEF Awaits, Unanswered, Unacked, SendDue
  <1>12. Lines'
    <2>1. W1' /\ W3'
      BY <1>2, <1>10, <1>11 DEF Kept, Lines, W1, W3
    <2>2. W2'
      BY <1>2, <1>3, <1>11 DEF Kept, Lines, W2, Is
    <2>3. W4'
      BY <1>2, <1>3, <1>11 DEF Kept, Lines, W4, Is
    <2>4. W5'
      BY <1>9 DEF W5
    <2> QED BY <2>1, <2>2, <2>3, <2>4 DEF Lines
  <1>13. Ticks'
    <2>1. /\ ticks'["DB0"] = ticks["DB0"] /\ ticks'["IN0"] = ticks["IN0"]
          /\ ticks'["RECVD"] = 0
      BY <1>2 DEF TypeInv, IrqType
    <2>2. T1'
      BY <1>2, <1>10, <2>1 DEF Kept, Ticks, T1
    <2>3. T2'
      BY <2>1 DEF T2
    <2>4. T3'
      <3>1. ~Unanswered("IN0")
        BY <1>5 DEF Unanswered, Awaits, Unacked, Is, AnswerKinds
      <3>2. "IN0" \notin eisr["sib"]
        BY <1>3, <3>1 DEF Kept, Lines, W2, Is, Signals
      <3> QED BY <2>1, <3>2 DEF Kept, Ticks, T3
    <2> QED BY <2>2, <2>3, <2>4 DEF Ticks
  <1>14. Boot'
    <2>1. ~SendDue("SYNC")' /\ ~SendDue("INIT")' /\ Unacked("LOCK")'
      BY <1>4, <1>5, <1>11
    <2>2. Locks(todo["sib"])' = 1
      <3>1. Locks(t) = 0 + 1
        BY <1>6, SEmpty, Zenon
      <3> QED BY <1>7, <3>1
    <2>3. \A y \in RS' : y = LockStep \/ y[1] \in {"Spin", "CheckIn0"}
      BY <1>6, <1>9, SibSteps, SEmpty
    <2>4. <<"Register", "">> \notin RS'
      <3>1. <<"Register", "">>[1] = "Register"
        OBVIOUS
      <3> QED BY <1>9, <2>3, <3>1
    <2>5. \A y \in RS' : y[1] = "Receive" => y[2] = "LOCK" /\ y = S1'
      BY <1>9, <2>3, SibSteps
    <2>6. B2'
      BY <2>1, <2>2, <2>4, <2>5 DEF B2
    <2>7. B1' /\ B3' /\ B4' /\ B5'
      BY <1>10, <1>11, <2>1 DEF Kept, Boot, B1, B3, B4, B5
    <2> QED BY <2>6, <2>7 DEF Boot
  <1>15. Pairing' /\ Standstill'
    <2>1. \A j \in Ks : ~SOpen(j) /\ ~SOpen(j)'
      BY <1>1, <1>9, IdleSibling DEF SOpen, Is
    <2>2. ~SClipMid /\ ~SClipMid' /\ ~SHbMid /\ ~SHbMid'
      BY <1>1, <1>9, IdleSibling DEF SClipMid, SHbMid, Is
    <2>3. SameMeeting /\ ~Is(S1, "AwaitSignal", "IN2") /\ ~Held
      BY <1>1, <1>3, <2>1, <2>2, IdleSibling DEF SameMeeting, Is
    <2> QED BY <1>2, <1>8, <2>2, <2>3, SibPairing, SibStandstill
  <1> QED BY <1>10, <1>12, <1>13, <1>14, <1>15 DEF Kept

-----------------------------------------------------------------------------
(* What the sibling does of doorbell 3 and of the loss of the heartbeat: t *)
(* opens with the meeting in IN2.                                          *)
Serves(t) ==
    /\ SForm(t) /\ Is(Item(t, 1), "AwaitSignal", "IN2") /\ Is(Item(t, 2), "Answer", "IN2")
    /\ \A y \in StepsOf(t) : y[1] \notin {"Receive", "Register", "PowerOn"}

LEMMA ServeScript ==
    ASSUME NEW s \in Seq(Steps), SForm(s),
           Item(s, 1)[1] \in {"Spin", "Store", "ToFsafe", "none"},
           \A y \in StepsOf(s) : y[1] \notin {"Receive", "Register", "PowerOn"}
    PROVE  \E t \in Seq(Steps) :
               /\ t = Serve("IN2") \o s /\ Serves(t) /\ Item(t, 3) = Item(s, 1)
               /\ \A y \in StepsOf(t) : y \in StepsOf(s) \/ y[1] \in {"AwaitSignal", "Answer"}
  <1>1. PICK x, z \in Steps : x = <<"AwaitSignal", "IN2">> /\ z = <<"Answer", "IN2">>
               /\ x[1] = "AwaitSignal" /\ z[1] = "Answer" /\ x[2] = "IN2" /\ z[2] = "IN2"
    <2>1. \A k \in SignalKinds, i \in Signals : <<k, i>> \in Steps
      BY DEF Steps
    <2>2. <<"AwaitSignal", "IN2">> \in Steps /\ <<"Answer", "IN2">> \in Steps
      BY <2>1 DEF SignalKinds, Signals
    <2> QED BY <2>2
  <1>2. PICK u \in Seq(Steps) :
               /\ u = <<z>> \o s /\ SForm(u) /\ Item(u, 1) = z /\ Item(u, 2) = Item(s, 1)
               /\ StepsOf(u) = {z} \union StepsOf(s)
    <2>1. SNext(z, Item(s, 1))
      BY <1>1 DEF SNext, SibKinds
    <2>2. \A y \in StepsOf(s) : SAfter(z, y)
      BY <1>1 DEF SAfter
    <2> QED BY <1>1, <2>1, <2>2, SCons
  <1>0. u \in Seq(Steps)
    BY <1>2
  <1>3. PICK t \in Seq(Steps) :
               /\ t = <<x>> \o u /\ SForm(t)
               /\ Item(t, 1) = x /\ Item(t, 2) = Item(u, 1) /\ Item(t, 3) = Item(u, 2)
               /\ StepsOf(t) = {x} \union StepsOf(u)
    <2>1. SNext(x, Item(u, 1)) /\ SForm(u)
      BY <1>1, <1>2 DEF SNext, SibKinds
    <2>2. \A y \in StepsOf(u) : SAfter(x, y)
      BY <1>1, <1>2 DEF SAfter
    <2> QED BY <1>0, <1>1, <2>1, <2>2, SCons
  <1>4. t = Serve("IN2") \o s
    BY <1>1, <1>2, <1>3, TwoCons, ZenonT(120) DEF Serve, Cons
  <1>5. Serves(t)
    BY <1>1, <1>2, <1>3 DEF Serves, Is
  <1> QED BY <1>1, <1>2, <1>3, <1>4, <1>5

LEMMA ServeAlone ==
    \E t \in Seq(Steps) :
        /\ t = Serve("IN2") /\ Serves(t) /\ Item(t, 3) = End
        /\ \A y \in StepsOf(t) : y[1] \in {"AwaitSignal", "Answer"}
  <1>1. PICK t \in Seq(Steps) :
               /\ t = Serve("IN2") \o <<>> /\ Serves(t) /\ Item(t, 3) = End
               /\ \A y \in StepsOf(t) : y \in StepsOf(<<>>) \/ y[1] \in {"AwaitSignal", "Answer"}
    <2>1. /\ <<>> \in Seq(Steps) /\ SForm(<<>>) /\ Item(<<>>, 1) = End /\ End[1] = "none"
          /\ StepsOf(<<>>) = {}
      BY SEmpty, NoEnd
    <2>2. \A y \in StepsOf(<<>>) : y[1] \notin {"Receive", "Register", "PowerOn"}
      BY <2>1
    <2> QED BY <2>1, <2>2, ServeScript
  <1>2. Serve("IN2") \o <<>> = Serve("IN2")
    <2>1. Serve("IN2") \in Seq(Steps)
      BY PlainSteps DEF Signals
    <2>2. PICK f \in Seq(Steps) : f = Serve("IN2")
      BY <2>1
    <2>3. f \o <<>> = f
      BY <2>2, Concat
    <2> QED BY <2>2, <2>3
  <1> QED BY <1>1, <1>2, SEmpty

(* In between the sibling does x, and waits to be let go.                  *)
LEMMA ServeAgain ==
    ASSUME NEW x \in Steps, x[1] \in {"Pmsr", "ToFsafe"}
    PROVE  \E s \in Seq(Steps) :
               /\ s = <<x>> \o Serve("IN2") /\ SForm(s) /\ Item(s, 1) = x
               /\ \A y \in StepsOf(s) : y = x \/ y[1] \in {"AwaitSignal", "Answer"}
  <1>1. PICK u \in Seq(Steps) :
        /\ u = Serve("IN2") /\ Serves(u) /\ Item(u, 3) = End
        /\ \A y \in StepsOf(u) : y[1] \in {"AwaitSignal", "Answer"}
    BY ServeAlone
  <1>2. u \in Seq(Steps) /\ SForm(u) /\ Is(Item(u, 1), "AwaitSignal", "IN2")
    BY <1>1 DEF Serves
  <1>3. SNext(x, Item(u, 1))
    BY <1>2 DEF SNext, SibKinds, Is
  <1>4. \A y \in StepsOf(u) : SAfter(x, y)
    BY <1>1 DEF SAfter
  <1>5. PICK s \in Seq(Steps) :
               /\ s = <<x>> \o u /\ SForm(s) /\ Item(s, 1) = x
               /\ StepsOf(s) = {x} \union StepsOf(u)
    BY <1>2, <1>3, <1>4, SCons
  <1> QED BY <1>1, <1>5

LEMMA SibSafeOpens ==
    \E t \in Seq(Steps) :
        /\ t = Serve("IN2") \o Step("ToFsafe") \o Serve("IN2")
        /\ Serves(t) /\ SReasonOf(Item(t, 3)) = "hb"
  <1>1. PICK x \in Steps : x = <<"ToFsafe", "">> /\ x[1] = "ToFsafe"
    <2>1. \A k \in PlainKinds : <<k, "">> \in Steps
      BY DEF Steps
    <2>2. <<"ToFsafe", "">> \in Steps
      BY <2>1 DEF PlainKinds
    <2> QED BY <2>2
  <1>2. PICK s \in Seq(Steps) :
               /\ s = <<x>> \o Serve("IN2") /\ SForm(s) /\ Item(s, 1) = x
               /\ \A y \in StepsOf(s) : y = x \/ y[1] \in {"AwaitSignal", "Answer"}
    BY <1>1, ServeAgain
  <1>3. PICK t \in Seq(Steps) :
               /\ t = Serve("IN2") \o s /\ Serves(t) /\ Item(t, 3) = Item(s, 1)
    BY <1>1, <1>2, ServeScript
  <1>4. t = Serve("IN2") \o Step("ToFsafe") \o Serve("IN2")
    <2>1. PICK a, f \in Seq(Steps) : a = <<x>> /\ f = Serve("IN2")
      BY PlainSteps, OneStep DEF Signals
    <2>2. (f \o a) \o f = f \o (a \o f)
      BY <2>1, Concat
    <2> QED BY <1>1, <1>2, <1>3, <2>1, <2>2 DEF Step
  <1>5. SReasonOf(Item(t, 3)) = "hb"
    BY <1>1, <1>2, <1>3 DEF SReasonOf
  <1> QED BY <1>3, <1>4, <1>5

LEMMA SibDb3Opens ==
    ASSUME TypeInv, NEW m \in Db3Messages
    PROVE  \E t \in Seq(Steps) :
               /\ t = Db3Steps("sib", m)
               /\ m = "SUSPEND" => t = <<>>
               /\ m # "SUSPEND" => Serves(t) /\ SReasonOf(Item(t, 3)) = Reason[m]
  <1>1. CASE m \in LockLike
    <2>1. PICK x \in Steps : x = <<"EndDb3", m>> /\ x[1] = "EndDb3" /\ EndDb3(m) = <<x>>
      BY DEF Steps, EndDb3
    <2>2. PICK s \in Seq(Steps) :
               /\ s = <<x>> \o <<>> /\ SForm(s) /\ Item(s, 1) = x
               /\ StepsOf(s) = {x} \union StepsOf(<<>>)
      <3>1. SNext(x, Item(<<>>, 1))
        BY <2>1, SEmpty, NoEnd DEF SNext, SibKinds
      <3>2. \A y \in StepsOf(<<>>) : SAfter(x, y)
        BY SEmpty
      <3>3. <<>> \in Seq(Steps) /\ SForm(<<>>)
        BY SEmpty
      <3> QED BY <3>1, <3>2, <3>3, SCons
    <2>3. s \in Seq(Steps) /\ Free(s) /\ StepsOf(s) = {x}
      <3>1. SNext(<<"CheckIn0", "">>, Item(s, 1))
        BY <2>1, <2>2, SibSteps DEF SNext, SibKinds
      <3>2. StepsOf(s) = {x}
        BY <2>2, SEmpty
      <3> QED BY <2>1, <2>2, <3>1, <3>2 DEF Free, Is
    <2>4. PICK u \in Seq(Steps) :
               /\ u = LockAndIntercme \o s /\ Free(u) /\ Item(u, 1) = <<"Spin", "">>
               /\ StepsOf(u) = {<<"Spin", "">>, <<"CheckIn0", "">>} \union StepsOf(s)
      BY <2>3, StoppedScript
    <2>5. /\ u \in Seq(Steps) /\ SForm(u) /\ Item(u, 1)[1] = "Spin"
          /\ \A y \in StepsOf(u) : y[1] \notin {"Receive", "Register", "PowerOn"}
      BY <2>1, <2>3, <2>4, SibSteps DEF Free
    <2>6. PICK t \in Seq(Steps) :
               /\ t = Serve("IN2") \o u /\ Serves(t) /\ Item(t, 3) = Item(u, 1)
      BY <2>5, ServeScript
    <2>7. t = Serve("IN2") \o LockAndIntercme \o EndDb3(m)
      <3>1. PICK f, l, e \in Seq(Steps) :
                f = Serve("IN2") /\ l = LockAndIntercme /\ e = EndDb3(m)
        BY PlainSteps, LockScripts DEF Signals
      <3>2. (f \o l) \o e = f \o (l \o e) /\ e \o <<>> = e
        <4>1. Join(Join(f, l), e) = Join(f, Join(l, e))
          BY Join3
        <4>2. e \o <<>> = e
          BY Concat
        <4> QED BY <4>1, <4>2 DEF Join
      <3>3. s = e
        BY <2>1, <2>2, <3>1, <3>2
      <3> QED BY <2>4, <2>6, <3>1, <3>2, <3>3
    <2>8. t = Db3Steps("sib", m)
      <3>1. "sib" # "qm"
        OBVIOUS
      <3> QED BY <1>1, <2>7, <3>1, ZenonT(30) DEF Db3Steps, LockLike
    <2>9. SReasonOf(Item(t, 3)) = "lock"
      BY <2>5, <2>6 DEF SReasonOf
    <2>10. Reason[m] = "lock" /\ m # "SUSPEND"
      BY <1>1 DEF Reason, LockLike
    <2> QED BY <2>6, <2>8, <2>9, <2>10
  <1>2. CASE m \in {"HANDOFF", "UNSUSPEND"}
    <2>1. PICK t \in Seq(Steps) : t = Serve("IN2") /\ Serves(t) /\ Item(t, 3) = End
      BY ServeAlone
    <2>2. t = Db3Steps("sib", m) /\ Reason[m] = "last" /\ m # "SUSPEND"
      <3>1. CASE m = "HANDOFF"
        BY <2>1, <3>1 DEF Db3Steps, Reason
      <3>2. CASE m = "UNSUSPEND"
        BY <2>1, <3>2 DEF Db3Steps, Reason
      <3> QED BY <1>2, <3>1, <3>2
    <2>3. SReasonOf(Item(t, 3)) = "last"
      BY <2>1, NoEnd DEF SReasonOf
    <2> QED BY <2>1, <2>2, <2>3
  <1>3. CASE m = "CLIP"
    <2>1. PICK d \in Db0Messages : d = db0["sib"]
      BY CmesAre DEF TypeInv, DoorbellType
    <2>2. PICK c, p \in Steps : c = <<"Store", d>> /\ p = <<"Pmsr", "">>
                                /\ c[1] = "Store" /\ p[1] = "Pmsr"
      <3>1. \A k \in PlainKinds : <<k, "">> \in Steps
        BY DEF Steps
      <3>2. <<"Pmsr", "">> \in Steps
        BY <3>1 DEF PlainKinds
      <3>3. <<"Store", d>> \in Steps
        BY DEF Steps
      <3> QED BY <3>2, <3>3
    <2>3. PICK v \in Seq(Steps) :
               /\ v = <<p>> \o Serve("IN2") /\ SForm(v) /\ Item(v, 1) = p
               /\ \A y \in StepsOf(v) : y = p \/ y[1] \in {"AwaitSignal", "Answer"}
      BY <2>2, ServeAgain
    <2>4. v \in Seq(Steps) /\ c \in Steps /\ p \in Steps
      BY <2>2, <2>3
    <2>5. PICK w \in Seq(Steps) :
               /\ w = <<c>> \o v /\ SForm(w) /\ Item(w, 1) = c
               /\ StepsOf(w) = {c} \union StepsOf(v)
      <3>1. SNext(c, Item(v, 1))
        BY <2>2, <2>3 DEF SNext, SibKinds
      <3>2. \A y \in StepsOf(v) : SAfter(c, y)
        BY <2>2, <2>3 DEF SAfter
      <3>3. SForm(v)
        BY <2>3
      <3> QED BY <2>4, <3>1, <3>2, <3>3, SCons
    <2>6. PICK t \in Seq(Steps) :
               /\ t = Serve("IN2") \o w /\ Serves(t) /\ Item(t, 3) = Item(w, 1)
      <3>1. Item(w, 1)[1] = "Store"
        BY <2>2, <2>5
      <3>2. \A y \in StepsOf(w) : y[1] \notin {"Receive", "Register", "PowerOn"}
        BY <2>2, <2>3, <2>5
      <3>3. w \in Seq(Steps) /\ SForm(w)
        BY <2>5
      <3> QED BY <3>1, <3>2, <3>3, ServeScript
    <2>7. t = Serve("IN2") \o <<<<"Store", d>>, <<"Pmsr", "">>>> \o Serve("IN2")
      <3>1. PICK f, q \in Seq(Steps) : f = Serve("IN2") /\ q = <<c, p>>
        <4>1. Serve("IN2") \in Seq(Steps)
          BY PlainSteps DEF Signals
        <4>2. <<c, p>> \in Seq(Steps)
          BY <2>4, TwoSteps
        <4> QED BY <4>1, <4>2
      <3>2. (f \o q) \o f = f \o (q \o f)
        BY <3>1, Concat, SMTT(60)
      <3>3. q \o f = Cons(c, Cons(p, f))
        BY <2>4, <3>1, TwoCons
      <3>4. q \o f = w
        BY <2>3, <2>5, <3>1, <3>3 DEF Cons
      <3> QED BY <2>2, <2>6, <3>1, <3>2, <3>4
    <2>8. t = Db3Steps("sib", m) /\ Reason[m] = "clip" /\ m # "SUSPEND"
      BY <1>3, <2>1, <2>7 DEF Db3Steps, Reason
    <2>9. SReasonOf(Item(t, 3)) = "clip"
      BY <2>2, <2>5, <2>6 DEF SReasonOf
    <2> QED BY <2>6, <2>8, <2>9
  <1>4. CASE m = "SUSPEND"
    <2>1. PICK t \in Seq(Steps) : t = <<>>
      BY SEmpty
    <2>2. t = Db3Steps("sib", m)
      BY <1>4, <2>1 DEF Db3Steps
    <2> QED BY <1>4, <2>1, <2>2
  <1> QED BY <1>1, <1>2, <1>3, <1>4 DEF LockLike, Db3Messages

(* The sibling takes one of them up, for the reason k.                     *)
LEMMA NoSignalWaits ==
    ASSUME TypeInv, Kept, Idle("sib"), NEW k \in Ks, SPend(k)
    PROVE  QPend(k) \/ QOpen(k)
  BY IdleSibling DEF Kept, Pairing, C1

LEMMA NoIn0Waits ==
    ASSUME TypeInv, Kept, Idle("sib"), NEW k \in Ks, SPend(k)
    PROVE  ticks["IN0"] = 0
  <1>1. QPend(k) \/ QOpen(k)
    BY NoSignalWaits
  <1>2. ASSUME "IN0" \in eisr["sib"] PROVE FALSE
    <2>1. Q1[1] \in AnswerKinds /\ Q1[2] = "IN0"
      BY <1>2, IdleSibling DEF Kept, Lines, W2, Is, Signals, Unanswered, Awaits
    <2>2. AckDue
      <3>1. Q1 # End
        BY <2>1, NoEnd DEF AnswerKinds
      <3>2. Q2[1] \in AckKinds
        BY <2>1, <3>1, HeadForms DEF Kept, QNext, QThen
      <3>3. Q2 # End
        BY <3>2, NoEnd DEF AckKinds
      <3>4. Q2 \in RQ
        <4>1. PICK s \in Seq(Steps) : s = todo["qm"]
          BY DEF TypeInv, TodoType, Processes
        <4>2. Item(s, 2) # End => Item(s, 2) \in StepsOf(s)
          BY ItemsOf
        <4> QED BY <3>3, <4>1, <4>2 DEF Q2, RQ
      <3> QED BY <3>2, <3>4 DEF AckDue
    <2>3. (Awaiting \/ Half) /\ G1 # End /\ ~Db3Due
      BY <2>2, DueNow DEF Due, Kept, Exchange, E4
    <2>4. ~QOpen(k)
      BY <2>1 DEF QOpen, Is, Unanswered, Awaits, AnswerKinds
    <2>5. CASE k = "hb"
      BY <1>1, <2>3, <2>4, <2>5 DEF QPend, Kept, Exchange, HB1, E14
    <2>6. CASE k # "hb"
      <3>1. "DB3" \in eisr["qm"] /\ Reason[db3["qm"]] = k
        BY <1>1, <2>4, <2>6 DEF QPend
      <3>2. db3["qm"] # "SUSPEND"
        BY <3>1 DEF Reason, Ks
      <3> QED BY <2>3, <3>1, <3>2 DEF Db3Due
    <2> QED BY <2>5, <2>6
  <1>3. ticks["IN0"] \in Nat
    BY DEF TypeInv, IrqType
  <1> QED BY <1>2, <1>3 DEF Kept, Ticks, T3

LEMMA SibServes ==
    ASSUME TypeInv, Kept, Idle("sib"), SibStep, eisr'["qm"] = eisr["qm"],
           \A b \in Bits \ {"DB3", "HB"} : b \in eisr'["sib"] <=> b \in eisr["sib"],
           ticks' = ticks, NEW k \in Ks, SPend(k), ~SPend(k)',
           \A j \in Ks : SPend(j)' => SPend(j),
           NEW t \in Seq(Steps), t = todo'["sib"], Serves(t), SReasonOf(Item(t, 3)) = k
    PROVE  Kept'
  <1>1. /\ S1 = End /\ S1[1] = "none" /\ ~Held
        /\ ~SClipMid /\ ~SHbMid /\ \A j \in Ks : ~SOpen(j)
    BY IdleSibling
  <1>2. /\ Is(S1', "AwaitSignal", "IN2") /\ SReasonOf(S3') = k
        /\ S1'[1] = "AwaitSignal" /\ S1'[2] = "IN2"
    BY DEF Serves, S1, S3, Is
  <1>3. Lines' /\ Exchange' /\ Ticks' /\ Boot' /\ Forms'
    <2>1. W5'
      BY <1>2 DEF W5
    <2>2. ticks'["IN0"] = 0 /\ \A i \in {"DB0", "RECVD"} : ticks'[i] = ticks[i]
      BY NoIn0Waits
    <2>3. /\ \A y \in StepsOf(t) : y[1] \notin {"Receive", "Register", "PowerOn"}
          /\ Item(t, 1)[1] # "ClearBit"
      BY DEF Serves, Is
    <2> QED BY <2>1, <2>2, <2>3, SibBegins
  <1>4. /\ \A j : SOpen(j)' <=> j = k
        /\ ~SClipMid' /\ ~SHbMid'
    BY <1>2 DEF SOpen, SClipMid, SHbMid, Is
  <1>5. \A j \in Ks : ~SPend(j)'
    BY DEF Kept, Pairing, C5
  <1>6. /\ \A j \in Ks : (QPend(j)' <=> QPend(j)) /\ (QOpen(j)' <=> QOpen(j))
        /\ \A m : HalfM(m)' <=> HalfM(m)
    <2>1. /\ Q1' = Q1 /\ Q2' = Q2 /\ Q3' = Q3 /\ G1' = G1 /\ G2' = G2
          /\ type4' = type4 /\ db3' = db3
      BY SibRest DEF SibStep
    <2>2. Unanswered("IN2")' <=> Unanswered("IN2")
      BY <2>1 DEF Unanswered, Awaits
    <2>3. \A j \in Ks : (QPend(j)' <=> QPend(j)) /\ (QOpen(j)' <=> QOpen(j))
      BY <2>1, <2>2 DEF QPend, QOpen
    <2>4. \A m : HalfM(m)' <=> HalfM(m)
      BY <2>1 DEF HalfM
    <2> QED BY <2>3, <2>4
  <1>7. Pairing'
    <2>1. C1'
      BY <1>4, <1>5, <1>6, NoSignalWaits DEF C1
    <2>2. C2' /\ C4' /\ C5'
      BY <1>4, <1>5 DEF C2, C4, C5
    <2>3. C3'
      BY <1>6 DEF Kept, Pairing, C3
    <2> QED BY <2>1, <2>2, <2>3 DEF Pairing
  <1>8. Standstill'
    BY <1>1, SibStandstill DEF Is
  <1> QED BY <1>3, <1>7, <1>8 DEF Kept

LEMMA KeepsSibLoss ==
    ASSUME TypeInv, Kept, TakeHeartbeatLoss("sib")
    PROVE  Kept'
  <1>1. Idle("sib") /\ "HB" \in eisr["sib"]
    BY TakenIs DEF TakeHeartbeatLoss, Kept
  <1>2. PICK t \in Seq(Steps) :
        /\ t = Serve("IN2") \o Step("ToFsafe") \o Serve("IN2")
        /\ Serves(t) /\ SReasonOf(Item(t, 3)) = "hb"
    BY SibSafeOpens
  <1>3. /\ UNCHANGED <<ticks, icrr, type4, db0, db3, registered, alive, mode, flags,
                       skipLock>>
        /\ todo' = [todo EXCEPT !["sib"] = t]
        /\ eisr' = Clearing("sib", {"HB"}, eisr)
    BY <1>2 DEF TakeHeartbeatLoss, doorbellVars, cmeVars, sysVars, pgpeVars
  <1>4. t = todo'["sib"] /\ QSame /\ GSame
    BY <1>3 DEF TypeInv, Processes, TodoType, QSame, GSame
  <1>5. eisr'["sib"] = eisr["sib"] \ {"HB"} /\ eisr'["qm"] = eisr["qm"]
    BY <1>3, BitViews DEF Bits
  <1>6. SibStep
    BY <1>2, <1>4, <1>3, <1>5 DEF Serves, SibStep, SameFlags
  <1>7. "hb" \in Ks /\ SPend("hb") /\ ~SPend("hb")'
    BY <1>1, <1>5 DEF SPend, Ks
  <1>8. \A j \in Ks : SPend(j)' => SPend(j)
    BY <1>3, <1>5 DEF SPend
  <1>9. \A b \in Bits \ {"DB3", "HB"} : b \in eisr'["sib"] <=> b \in eisr["sib"]
    BY <1>5
  <1> QED BY <1>1, <1>2, <1>3, <1>4, <1>5, <1>6, <1>7, <1>8, <1>9, SibServes

LEMMA KeepsSibDb3 ==
    ASSUME TypeInv, Kept, TakeDb3("sib")
    PROVE  Kept'
  <1>1. Idle("sib") /\ "DB3" \in eisr["sib"]
    BY TakenIs DEF TakeDb3, Kept
  <1>2. PICK m \in Db3Messages : m = db3["sib"]
    BY <1>1, CmesAre DEF TypeInv, Db3Written
  <1>3. PICK t \in Seq(Steps) :
               /\ t = Db3Steps("sib", m)
               /\ m = "SUSPEND" => t = <<>>
               /\ m # "SUSPEND" => Serves(t) /\ SReasonOf(Item(t, 3)) = Reason[m]
    BY SibDb3Opens
  <1>4. /\ UNCHANGED <<ticks, icrr, type4, db0, db3, registered, alive, mode>>
        /\ todo' = [todo EXCEPT !["sib"] = t]
        /\ eisr' = Clearing("sib", {"DB3"}, eisr)
        /\ "qm" \in skipLock' <=> "qm" \in skipLock
    <2>1. /\ UNCHANGED <<ticks, icrr, type4, db0, db3, registered, alive, mode>>
          /\ todo' = [todo EXCEPT !["sib"] = t]
          /\ eisr' = Clearing("sib", {"DB3"}, eisr)
      BY <1>2, <1>3 DEF TakeDb3, doorbellVars, sysVars, pgpeVars
    <2>2. skipLock' = skipLock \/ skipLock' = skipLock \union {"sib"}
      BY DEF TakeDb3
    <2> QED BY <2>1, <2>2
  <1>5. t = todo'["sib"] /\ QSame /\ GSame
    BY <1>4 DEF TypeInv, Processes, TodoType, QSame, GSame
  <1>6. eisr'["sib"] = eisr["sib"] \ {"DB3"} /\ eisr'["qm"] = eisr["qm"]
    BY <1>4, BitViews DEF Bits
  <1>7. SameFlags
    BY Db3Flags, CmesAre
  <1>8. \A b \in Bits \ {"DB3", "HB"} : b \in eisr'["sib"] <=> b \in eisr["sib"]
    BY <1>6
  <1>9. SForm(todo["sib"])' => SibStep
    BY <1>4, <1>5, <1>6, <1>7 DEF SibStep
  <1>10. CASE m = "SUSPEND"
    <2>1. t = <<>>
      BY <1>3, <1>10
    <2>2. SibStep
      BY <1>5, <1>9, <2>1, SEmpty
    <2>3. S1' = End /\ S1'[1] = "none" /\ RS' = {}
      BY <1>5, <2>1, SEmpty, NoEnd DEF S1, RS
    <2>4. S1[1] = "none" /\ RS = {} /\ Locks(todo["sib"]) = 0 /\ ~Held
          /\ ~SClipMid /\ ~SHbMid /\ \A k \in Ks : ~SOpen(k)
      BY <1>1, IdleSibling
    <2>5. SameMeeting
      BY <2>3, <2>4 DEF SameMeeting, SOpen, SClipMid, SHbMid, Is
    <2>6. Pairing' /\ Standstill'
      BY <1>6, <2>2, <2>4, <2>5, SibPairing, SibStandstill DEF Is
    <2>7. Boot'
      <3>1. Locks(todo["sib"])' = 0
        BY <1>5, <2>1, SEmpty
      <3> QED BY <1>6, <2>2, <2>3, <2>4, <3>1, SibBoot
    <2>8. Exchange' /\ Forms' /\ Q1' = Q1 /\ Q2' = Q2 /\ RQ' = RQ
          /\ (HasReg' <=> HasReg) /\ (RegDue' <=> RegDue)
      BY <2>2, SibRest
    <2>9. /\ \A x : (Awaits(x)' <=> Awaits(x)) /\ (Unanswered(x)' <=> Unanswered(x))
          /\ \A x : Unacked(x)' <=> Unacked(x)
      BY <1>6, <2>8 DEF Awaits, Unanswered, Unacked
    <2>10. Lines'
      <3>1. W1' /\ W3'
        BY <1>6, <2>8, <2>9 DEF Kept, Lines, W1, W3
      <3>2. W2'
        BY <1>6, <2>4, <2>9 DEF Kept, Lines, W2, Is
      <3>3. W4'
        BY <1>4, <1>6, <2>4, <2>9 DEF Kept, Lines, W4, Is
      <3>4. W5'
        BY <2>3 DEF W5
      <3> QED BY <3>1, <3>2, <3>3, <3>4 DEF Lines
    <2>11. Ticks'
      <3>1. T1'
        BY <1>4, <1>6, <2>8 DEF Kept, Ticks, T1
      <3>2. T2'
        BY <1>4, <1>6, <2>3 DEF Kept, Ticks, T2, Is
      <3>3. T3'
        BY <1>4, <1>6, <2>3 DEF Kept, Ticks, T3
      <3> QED BY <3>1, <3>2, <3>3 DEF Ticks
    <2> QED BY <2>6, <2>7, <2>8, <2>10, <2>11 DEF Kept
  <1>11. CASE m # "SUSPEND"
    <2>1. PICK k \in Ks : k = Reason[m] /\ k # "hb"
      BY <1>11 DEF Reason, Ks, Db3Messages
    <2>2. Serves(t) /\ SReasonOf(Item(t, 3)) = k
      BY <1>3, <1>11, <2>1
    <2>3. SibStep
      BY <1>5, <1>9, <2>2 DEF Serves
    <2>4. SPend(k) /\ ~SPend(k)'
      BY <1>1, <1>2, <1>6, <2>1 DEF SPend
    <2>5. \A j \in Ks : SPend(j)' => SPend(j)
      BY <1>4, <1>6 DEF SPend
    <2>6. SReasonOf(Item(t, 3)) = k /\ Serves(t) /\ ticks' = ticks
      BY <1>4, <2>2
    <2> QED BY <1>1, <1>5, <1>6, <1>8, <2>3, <2>4, <2>5, <2>6, SibServes
  <1> QED BY <1>10, <1>11

-----------------------------------------------------------------------------
(* The scripts of the PGPE keep to its form: R is what follows them.       *)
Apart(x) == /\ ~(x[1] = "Write3" /\ x[2][1] = "sib")
            /\ ~(x[1] = "Write0" /\ x[2][1] = {"sib"})
GFormed(s, l) == GForm(s, TRUE, l)
GFollows(x, y, z, l) == GNext(x, y, z, TRUE, l)
GScript(s, l) == GFormed(s, l) /\ Apart(Item(s, 1))

LEMMA GFollowing ==
    ASSUME NEW x, NEW y, NEW z, NEW l \in BOOLEAN, x[1] \in PgKinds,
           x[1] = "Write0" =>
               /\ x[2][1] \in {Cmes, {"qm"}, {"sib"}}
               /\ l => x[2][2].msg # "REGISTER_DONE"
               /\ "qm" \in x[2][1] /\ x[2][2].msg # "PAYLOAD" => y[1] = "AwaitAck"
               /\ "qm" \in x[2][1] /\ x[2][2].msg = "PAYLOAD" =>
                      y[1] = "Write3" /\ y[2][1] = "qm" /\ y[2][2] # "SUSPEND",
           x[1] = "Write3" =>
               /\ x[2][1] \in Cmes
               /\ x[2][1] = "qm" /\ x[2][2] # "SUSPEND" =>
                      \/ Writes3(y, "sib", x[2][2])
                      \/ y[1] = "Write0" /\ y[2][1] = {"sib"} /\ Writes3(z, "sib", x[2][2])
               /\ x[2][1] = "sib" /\ x[2][2] # "SUSPEND" => y[1] = "AwaitAck",
           y[1] = "Write3" /\ y[2][1] = "sib" =>
               \/ Writes3(x, "qm", y[2][2])
               \/ x[1] = "Write0" /\ x[2][1] = {"sib"},
           y[1] = "Write0" /\ y[2][1] = {"sib"} =>
               x[1] = "Write3" /\ x[2][1] = "qm" /\ x[2][2] # "SUSPEND"
    PROVE  GFollows(x, y, z, l)
  BY Zenon DEF GFollows, GNext

LEMMA GEmpty == \A l \in BOOLEAN : <<>> \in Seq(Steps) /\ GScript(<<>>, l)
  <1>1. ASSUME NEW l \in BOOLEAN PROVE GFormed(<<>>, l)
    <2>1. 1 .. Len(<<>>) = {}
      OBVIOUS
    <2> QED BY <2>1, Zenon DEF GFormed, GForm, Form
  <1>2. Apart(Item(<<>>, 1))
    BY EmptyItems, NoEnd DEF Apart
  <1>3. <<>> \in Seq(Steps)
    OBVIOUS
  <1> QED BY <1>1, <1>2, <1>3 DEF GScript

Consed(t, x, s, l) == /\ t = <<x>> \o s /\ GFormed(t, l) /\ t \in Seq(Steps)
                      /\ Item(t, 1) = x /\ Item(t, 2) = Item(s, 1)
LEMMA GCons ==
    ASSUME NEW l \in BOOLEAN, NEW x \in Steps, NEW s \in Seq(Steps), GFormed(s, l),
           GFollows(x, Item(s, 1), Item(s, 2), l)
    PROVE  \E t \in Seq(Steps) : Consed(t, x, s, l)
  <1>1. "pgpe" \in Processes
    BY DEF Processes
  <1>2. Follows("pgpe", x, Item(s, 1), Item(s, 2), TRUE, l)
    <2>1. "pgpe" # "qm" /\ "pgpe" # "sib"
      OBVIOUS
    <2> QED BY <2>1, Zenon DEF Follows, GFollows
  <1>3. \A y \in StepsOf(s) : After("pgpe", x, y)
    BY DEF After
  <1>4. Form("pgpe", Cons(x, s), TRUE, l)
    <2>1. Form("pgpe", s, TRUE, l)
      BY Zenon DEF GFormed, GForm
    <2> QED BY <1>1, <1>2, <1>3, <2>1, FormCons, Zenon
  <1>5. /\ Cons(x, s) \in Seq(Steps) /\ Item(Cons(x, s), 1) = x
        /\ Item(Cons(x, s), 1 + 1) = Item(s, 1)
    BY ConsItems
  <1>6. Item(Cons(x, s), 2) = Item(s, 1)
    BY <1>5
  <1>7. GFormed(Cons(x, s), l)
    BY <1>4, Zenon DEF GFormed, GForm
  <1>8. Consed(Cons(x, s), x, s, l)
    BY <1>5, <1>6, <1>7 DEF Cons, Consed
  <1> QED BY <1>5, <1>8

LEMMA QuietScript ==
    ASSUME NEW l \in BOOLEAN, NEW x \in Steps, x[1] \in {"PollDroop", "Become", "AwaitAck"},
           NEW R \in Seq(Steps), GScript(R, l)
    PROVE  \E t \in Seq(Steps) : t = <<x>> \o R /\ GScript(t, l) /\ Item(t, 1) = x
  <1>1. GFollows(x, Item(R, 1), Item(R, 2), l)
    BY GFollowing DEF GScript, Apart, PgKinds
  <1>2. PICK t \in Seq(Steps) : Consed(t, x, R, l)
    BY <1>1, GCons DEF GScript
  <1>3. Apart(x)
    BY DEF Apart
  <1> QED BY <1>2, <1>3 DEF GScript, Consed

AckingScript(s, l) == GScript(s, l) /\ Item(s, 1)[1] = "AwaitAck"
IsAwait(a) == \E x \in Steps : x[1] = "AwaitAck" /\ a = <<x>>
LEMMA AwaitIs ==
    \A e \in Acks, r \in Db3Messages \union {"none"}, n \in BOOLEAN :
        Await(e, r, n) \in Seq(Steps) /\ IsAwait(Await(e, r, n))
  <1>1. ASSUME NEW e \in Acks, NEW r \in Db3Messages \union {"none"}, NEW n \in BOOLEAN
        PROVE  IsAwait(Await(e, r, n))
    <2>1. <<"AwaitAck", [expected |-> e, replay |-> r, nacked |-> n]>> \in Steps
      BY DEF Steps, Awaited
    <2>2. <<"AwaitAck", [expected |-> e, replay |-> r, nacked |-> n]>>[1] = "AwaitAck"
      OBVIOUS
    <2> QED BY <2>1, <2>2, Zenon DEF IsAwait, Await
  <1> QED BY <1>1, PgpeSteps

LEMMA AwaitScript ==
    ASSUME NEW l \in BOOLEAN, NEW a \in Seq(Steps), IsAwait(a),
           NEW R \in Seq(Steps), GScript(R, l)
    PROVE  \E t \in Seq(Steps) : t = a \o R /\ AckingScript(t, l)
  <1>1. PICK x \in Steps : x[1] = "AwaitAck" /\ a = <<x>>
    BY DEF IsAwait
  <1>2. PICK t \in Seq(Steps) : t = <<x>> \o R /\ GScript(t, l) /\ Item(t, 1) = x
    BY <1>1, QuietScript, ZenonT(60)
  <1>3. AckingScript(t, l)
    BY <1>1, <1>2 DEF AckingScript
  <1> QED BY <1>1, <1>2, <1>3

LEMMA BecomesScript ==
    ASSUME NEW l \in BOOLEAN, NEW m \in {"stopped", "active", "safe"}
    PROVE  Becomes(m) \in Seq(Steps) /\ GScript(Becomes(m), l)
  <1>1. PICK x \in Steps : x = <<"Become", m>> /\ x[1] = "Become"
    <2>1. <<"Become", m>> \in Steps /\ <<"Become", m>>[1] = "Become"
      BY DEF Steps
    <2> QED BY <2>1
  <1>2. PICK t \in Seq(Steps) : t = <<x>> \o <<>> /\ GScript(t, l)
    BY <1>1, GEmpty, QuietScript
  <1>3. t = <<x>>
    BY <1>1, <1>2
  <1> QED BY <1>1, <1>2, <1>3 DEF Becomes

Writing(x, kind, c, what) == /\ x = <<kind, <<c, what>>>>
                             /\ x[1] = kind /\ x[2][1] = c /\ x[2][2] = what
LEMMA Write0Step ==
    ASSUME NEW cs \in SUBSET Cmes, NEW d \in Db0Messages
    PROVE  \E x \in Steps : Writing(x, "Write0", cs, d)
  <1>1. <<"Write0", <<cs, d>>>> \in Steps
    BY DEF Steps
  <1>2. Writing(<<"Write0", <<cs, d>>>>, "Write0", cs, d)
    BY DEF Writing
  <1> QED BY <1>1, <1>2

LEMMA Doorbell0Script ==
    ASSUME NEW l \in BOOLEAN, NEW d \in Db0Messages, d.msg # "PAYLOAD",
           l => d.msg # "REGISTER_DONE",
           NEW R \in Seq(Steps), GScript(R, l), Item(R, 1)[1] = "AwaitAck"
    PROVE  \E t \in Seq(Steps) : t = Write0(Cmes, d) \o R /\ GScript(t, l)
  <1>1. PICK x \in Steps : Writing(x, "Write0", Cmes, d)
    <2>1. Cmes \in SUBSET Cmes
      OBVIOUS
    <2> QED BY <2>1, Write0Step, Zenon
  <1>2. Cmes # {"sib"} /\ "qm" \in Cmes
    BY DEF Cmes
  <1>3. GFollows(x, Item(R, 1), Item(R, 2), l)
    BY <1>1, <1>2, GFollowing DEF PgKinds, Writing
  <1>4. PICK t \in Seq(Steps) : Consed(t, x, R, l)
    BY <1>3, GCons DEF GScript
  <1>5. Apart(x)
    BY <1>1, <1>2 DEF Apart, Writing
  <1> QED BY <1>1, <1>4, <1>5 DEF GScript, Consed, Write0, Writing

LEMMA WithDoorbell0 ==
    ASSUME ~WritesApart, NEW l \in BOOLEAN, NEW d \in Db0Messages, d.msg # "PAYLOAD",
           l => d.msg # "REGISTER_DONE",
           NEW R \in Seq(Steps), GScript(R, l)
    PROVE  \E t \in Seq(Steps) : t = Doorbell0(d) \o R /\ GScript(t, l)
  <1>1. PICK b \in Seq(Steps) : b = Await("ok", "REPLAY", FALSE) /\ IsAwait(b)
    BY AwaitIs DEF Acks, Db3Messages
  <1>2. PICK u \in Seq(Steps) : u = b \o R /\ AckingScript(u, l)
    BY <1>1, AwaitScript, ZenonT(120)
  <1>3. u \in Seq(Steps) /\ b \in Seq(Steps)
    BY <1>1, <1>2
  <1>4. PICK t \in Seq(Steps) : t = Write0(Cmes, d) \o u /\ GScript(t, l)
    BY <1>2, <1>3, Doorbell0Script DEF AckingScript
  <1>5. t = Doorbell0(d) \o R
    <2>1. PICK a \in Seq(Steps) : a = Write0(Cmes, d)
      BY PgpeSteps
    <2>2. a \in Seq(Steps)
      BY <2>1
    <2>3. Join(Join(a, b), R) = Join(a, Join(b, R))
      BY <1>3, <2>2, Joins
    <2> QED BY <1>1, <1>2, <1>4, <2>1, <2>3 DEF Doorbell0, Unicast, Join
  <1> QED BY <1>4, <1>5

(* Doorbell 3 to both.                                                     *)
LEMMA Write3Step ==
    ASSUME NEW c \in Cmes, NEW m \in Db3Messages
    PROVE  \E x \in Steps : Writing(x, "Write3", c, m)
  <1>1. <<"Write3", <<c, m>>>> \in Steps
    BY DEF Steps
  <1>2. Writing(<<"Write3", <<c, m>>>>, "Write3", c, m)
    BY DEF Writing
  <1> QED BY <1>1, <1>2

LEMMA PairScript ==
    ASSUME NEW l \in BOOLEAN, NEW m \in Db3Messages, NEW R \in Seq(Steps), GScript(R, l),
           m = "SUSPEND" \/ Item(R, 1)[1] = "AwaitAck"
    PROVE  \E t \in Seq(Steps) : t = Write3(m) \o R /\ GScript(t, l)
  <1>1. "qm" \in Cmes /\ "sib" \in Cmes /\ "qm" # "sib"
    BY DEF Cmes
  <1>2. PICK x \in Steps : Writing(x, "Write3", "qm", m)
    BY <1>1, Write3Step
  <1>3. PICK z \in Steps : Writing(z, "Write3", "sib", m)
    BY <1>1, Write3Step
  <1>4. PICK u \in Seq(Steps) : Consed(u, z, R, l)
    BY <1>1, <1>3, GFollowing, GCons DEF GScript, Apart, PgKinds, Writing
  <1>5. PICK t \in Seq(Steps) : Consed(t, x, u, l)
    <2>1. GFollows(x, Item(u, 1), Item(u, 2), l)
      BY <1>1, <1>2, <1>3, <1>4, GFollowing DEF Consed, Writes3, PgKinds, Writing
    <2>2. u \in Seq(Steps) /\ GFormed(u, l)
      BY <1>4 DEF Consed
    <2> QED BY <2>1, <2>2, GCons
  <1>6. t = Write3(m) \o R
    BY <1>2, <1>3, <1>4, <1>5, TwoCons DEF Write3, Cons, Consed, Writing
  <1>7. Apart(Item(t, 1))
    BY <1>1, <1>2, <1>5 DEF Apart, Consed, Writing
  <1> QED BY <1>5, <1>6, <1>7 DEF Consed, GScript

(* And with a message in doorbell 0.                                       *)
Doorbell3Form(m, d, r, R, l) ==
    \E t \in Seq(Steps) : t = Doorbell3(m, d, r) \o R /\ GScript(t, l)
LEMMA Doorbell3Script ==
    ASSUME NEW l \in BOOLEAN, NEW m \in Db3Messages, m # "SUSPEND",
           NEW d \in Db0Messages, d.msg = "PAYLOAD",
           NEW r \in Db3Messages \union {"none"}, NEW R \in Seq(Steps), GScript(R, l)
    PROVE  Doorbell3Form(m, d, r, R, l)
  <1>1. "qm" \in Cmes /\ "sib" \in Cmes /\ "qm" # "sib" /\ {"qm"} # {"sib"}
        /\ "qm" \notin {"sib"} /\ {"qm"} \in SUBSET Cmes /\ {"sib"} \in SUBSET Cmes
    BY DEF Cmes
  <1>2. PICK x \in Steps : Writing(x, "Write3", "qm", m)
    BY <1>1, Write3Step
  <1>3. PICK z \in Steps : Writing(z, "Write3", "sib", m)
    BY <1>1, Write3Step
  <1>4. PICK f \in Steps : Writing(f, "Write0", {"qm"}, d)
    BY <1>1, Write0Step, Zenon
  <1>5. PICK g \in Steps : Writing(g, "Write0", {"sib"}, d)
    BY <1>1, Write0Step, Zenon
  <1>0. PICK aa \in Seq(Steps) : aa = Await("ok", r, FALSE) /\ IsAwait(aa)
    BY AwaitIs DEF Acks
  <1>6. PICK a \in Seq(Steps) : a = aa \o R /\ AckingScript(a, l)
    BY <1>0, AwaitScript, ZenonT(120)
  <1>7. PICK v \in Seq(Steps) : Consed(v, z, a, l)
    <2>0. a \in Seq(Steps) /\ GFormed(a, l)
      BY <1>6 DEF AckingScript, GScript
    <2>1. GFollows(z, Item(a, 1), Item(a, 2), l)
      BY <1>1, <1>3, <1>6, GFollowing DEF AckingScript, PgKinds, Writing
    <2> QED BY <2>0, <2>1, GCons
  <1>8. PICK w \in Seq(Steps) : Consed(w, g, v, l)
    <2>0. v \in Seq(Steps) /\ GFormed(v, l)
      BY <1>7 DEF Consed
    <2>1. GFollows(g, Item(v, 1), Item(v, 2), l)
      <3>1. /\ Item(v, 1)[1] = "Write3" /\ Item(v, 1)[2][1] = "sib"
            /\ "Write0" \in PgKinds
        BY <1>3, <1>7 DEF Consed, PgKinds, Writing
      <3>2. g[1] = "Write0" /\ g[2][1] = {"sib"} /\ g[2][2] = d
        BY <1>5 DEF Writing
      <3>3. /\ "qm" \notin g[2][1] /\ g[2][2].msg # "REGISTER_DONE"
            /\ "Write0" # "Write3"
        BY <1>1, <3>2
      <3> QED BY <1>1, <3>1, <3>2, <3>3, GFollowing, SMTT(60)
    <2> QED BY <2>0, <2>1, GCons
  <1>9. PICK u \in Seq(Steps) : Consed(u, x, w, l)
    <2>0. w \in Seq(Steps) /\ GFormed(w, l)
      BY <1>8 DEF Consed
    <2>1. GFollows(x, Item(w, 1), Item(w, 2), l)
      <3>1. /\ Item(w, 1)[1] = "Write0" /\ Item(w, 1)[2][1] = {"sib"}
            /\ Writes3(Item(w, 2), "sib", m) /\ "Write3" \in PgKinds
        BY <1>3, <1>5, <1>7, <1>8 DEF Consed, PgKinds, Writing, Writes3
      <3>2. x[1] = "Write3" /\ x[2][1] = "qm" /\ x[2][2] = m
        BY <1>2 DEF Writing
      <3> QED BY <1>1, <3>1, <3>2, GFollowing, SMTT(60)
    <2> QED BY <2>0, <2>1, GCons
  <1>10. PICK t \in Seq(Steps) : Consed(t, f, u, l)
    <2>0. u \in Seq(Steps) /\ GFormed(u, l)
      BY <1>9 DEF Consed
    <2>1. GFollows(f, Item(u, 1), Item(u, 2), l)
      <3>1. Item(u, 1)[1] = "Write3" /\ Item(u, 1)[2][1] = "qm" /\ Item(u, 1)[2][2] = m
        BY <1>2, <1>9 DEF Consed, Writing
      <3>2. f[1] = "Write0" /\ f[2][1] = {"qm"} /\ f[2][2] = d /\ "Write0" \in PgKinds
        BY <1>4 DEF Writing, PgKinds
      <3> QED BY <1>1, <3>1, <3>2, GFollowing, SMTT(60)
    <2> QED BY <2>0, <2>1, GCons
  <1>11. t = Doorbell3(m, d, r) \o R
    <2>1. PICK ff, xx, gg, zz \in Seq(Steps) :
              ff = <<f>> /\ xx = <<x>> /\ gg = <<g>> /\ zz = <<z>>
      BY OneStep
    <2>2. aa \in Seq(Steps) /\ aa = Await("ok", r, FALSE)
      BY <1>0
    <2>3. Join(Join(Join(Join(Join(ff, xx), gg), zz), aa), R)
          = Join(ff, Join(xx, Join(gg, Join(zz, Join(aa, R)))))
      <3>1. /\ ff \in Seq(Steps) /\ xx \in Seq(Steps) /\ gg \in Seq(Steps)
            /\ zz \in Seq(Steps) /\ aa \in Seq(Steps)
        BY <2>1, <2>2
      <3>2. R \in Seq(Steps)
        OBVIOUS
      <3>3. /\ Join(ff, xx) \in Seq(Steps) /\ Join(zz, Join(aa, R)) \in Seq(Steps)
            /\ Join(gg, Join(zz, Join(aa, R))) \in Seq(Steps)
        BY <3>1, <3>2, Joins
      <3>4. Join(Join(Join(Join(Join(ff, xx), gg), zz), aa), R)
            = Join(Join(Join(ff, xx), gg), Join(zz, Join(aa, R)))
        <4>1. Join(Join(ff, xx), gg) \in Seq(Steps)
          BY <3>1, <3>3, Joins
        <4>2. PICK e \in Seq(Steps) : e = Join(Join(ff, xx), gg)
          BY <4>1
        <4>3. Join(Join(Join(e, zz), aa), R) = Join(e, Join(zz, Join(aa, R)))
          <5>1. e \in Seq(Steps) /\ zz \in Seq(Steps) /\ aa \in Seq(Steps)
            BY <3>1, <4>2
          <5> QED BY <3>2, <5>1, Join4
        <4> QED BY <4>2, <4>3
      <3>5. PICK e \in Seq(Steps) : e = Join(zz, Join(aa, R))
        BY <3>3
      <3>6. Join(Join(Join(ff, xx), gg), e) = Join(ff, Join(xx, Join(gg, e)))
        BY <3>5, <3>1, Join4
      <3> QED BY <3>4, <3>5, <3>6
    <2>4. t = Join(ff, Join(xx, Join(gg, Join(zz, Join(aa, R)))))
      BY <1>6, <1>7, <1>8, <1>9, <1>10, <2>1, <2>2 DEF Consed, Join
    <2>5. Doorbell3(m, d, r) = Join(Join(Join(Join(ff, xx), gg), zz), aa)
      BY <1>2, <1>3, <1>4, <1>5, <2>1, <2>2 DEF Doorbell3, Write0, Join, Writing
    <2> QED BY <2>3, <2>4, <2>5 DEF Join
  <1>12. Apart(Item(t, 1))
    BY <1>1, <1>4, <1>10 DEF Apart, Consed, Writing
  <1> QED BY <1>10, <1>11, <1>12 DEF Consed, GScript, Doorbell3Form

LEMMA AwaitAlone ==
    ASSUME NEW l \in BOOLEAN, NEW a \in Seq(Steps), IsAwait(a)
    PROVE  AckingScript(a, l)
  <1>1. PICK e \in Seq(Steps) : e = <<>> /\ GScript(e, l)
    BY GEmpty
  <1>2. e \in Seq(Steps) /\ GScript(e, l)
    BY <1>1
  <1>3. PICK t \in Seq(Steps) : t = a \o e /\ AckingScript(t, l)
    BY <1>2, AwaitScript
  <1>4. a \o e = a
    BY <1>1
  <1> QED BY <1>3, <1>4

LEMMA StartsScript ==
    ASSUME ~WritesApart, NEW l \in BOOLEAN, NEW w \in Targets,
           NEW R \in Seq(Steps), GScript(R, l)
    PROVE  \E t \in Seq(Steps) : t = StartPstates(w) \o R /\ GScript(t, l)
  <1>1. w.quadPstate \in Values /\ w.pmin \in Values /\ w.pmax \in Values
    BY DEF Targets, Values
  <1>2. /\ Message("START", "quadPstate", w.quadPstate) \in Db0Messages
        /\ Message("CLIP", "pmin", w.pmin) \in Db0Messages
        /\ Message("CLIP", "pmax", w.pmax) \in Db0Messages
    BY <1>1 DEF Message, Db0Messages
  <1>3. PICK d, c1, c2 \in Db0Messages :
            /\ d = Message("START", "quadPstate", w.quadPstate)
            /\ c1 = Message("CLIP", "pmin", w.pmin) /\ c2 = Message("CLIP", "pmax", w.pmax)
    BY <1>2
  <1>4. d.msg = "START" /\ c1.msg = "CLIP" /\ c2.msg = "CLIP"
    BY <1>3 DEF Message
  <1>5. PICK u \in Seq(Steps) : u = Doorbell0(c2) \o R /\ GScript(u, l)
    BY <1>4, WithDoorbell0
  <1>6. PICK v \in Seq(Steps) : v = Doorbell0(c1) \o u /\ GScript(v, l)
    <2>1. c1.msg # "PAYLOAD" /\ c1.msg # "REGISTER_DONE" /\ c1 \in Db0Messages
      BY <1>4
    <2>2. u \in Seq(Steps) /\ GScript(u, l)
      BY <1>5
    <2> QED BY <2>1, <2>2, WithDoorbell0, ZenonT(60)
  <1>7. PICK t \in Seq(Steps) : t = Doorbell0(d) \o v /\ GScript(t, l)
    <2>1. d.msg # "PAYLOAD" /\ d.msg # "REGISTER_DONE" /\ d \in Db0Messages
      BY <1>4
    <2>2. v \in Seq(Steps) /\ GScript(v, l)
      BY <1>6
    <2> QED BY <2>1, <2>2, WithDoorbell0, ZenonT(120)
  <1>8. t = StartPstates(w) \o R
    <2>1. PICK x, y, z \in Seq(Steps) :
              x = Doorbell0(d) /\ y = Doorbell0(c1) /\ z = Doorbell0(c2)
      BY Doorbells
    <2>2. x \in Seq(Steps) /\ y \in Seq(Steps) /\ z \in Seq(Steps)
      BY <2>1
    <2>3. Join(y, z) \in Seq(Steps) /\ Join(Join(y, z), R) = Join(y, Join(z, R))
      BY <2>2, Joins
    <2>4. Join(Join(x, Join(y, z)), R) = Join(x, Join(Join(y, z), R))
      BY <2>2, <2>3, Joins
    <2>5. StartPstates(w) = Join(x, Join(y, z))
      BY <1>3, <2>1 DEF StartPstates, Clips, Join
    <2>6. t = Join(x, Join(y, Join(z, R)))
      BY <1>5, <1>6, <1>7, <2>1 DEF Join
    <2> QED BY <2>3, <2>4, <2>5, <2>6 DEF Join
  <1> QED BY <1>7, <1>8

LEMMA UnthrottleScript ==
    ASSUME ~WritesApart, NEW l \in BOOLEAN, NEW R \in Seq(Steps), GScript(R, l)
    PROVE  \E t \in Seq(Steps) : t = Unthrottle \o R /\ GScript(t, l)
  <1>1. PICK d \in Db0Messages : d = Message("PMSR", "clear", 0) /\ d.msg = "PMSR"
    <2>1. Message("PMSR", "clear", 0) \in Db0Messages
      BY DEF Message, Db0Messages, Values
    <2>2. Message("PMSR", "clear", 0).msg = "PMSR"
      BY DEF Message
    <2> QED BY <2>1, <2>2
  <1>2. PICK u \in Seq(Steps) : u = Doorbell0(d) \o R /\ GScript(u, l)
    BY <1>1, WithDoorbell0, ZenonT(60)
  <1>3. PICK a \in Seq(Steps) : a = Await("unsuspended", "none", FALSE) /\ IsAwait(a)
    BY AwaitIs DEF Acks
  <1>4. PICK v \in Seq(Steps) : v = a \o u /\ AckingScript(v, l)
    <2>1. a \in Seq(Steps) /\ IsAwait(a) /\ u \in Seq(Steps) /\ GScript(u, l)
      BY <1>2, <1>3
    <2> QED BY <2>1, AwaitScript, SMTT(60)
  <1>5. PICK t \in Seq(Steps) : t = Write3("UNSUSPEND") \o v /\ GScript(t, l)
    <2>1. v \in Seq(Steps) /\ GScript(v, l) /\ Item(v, 1)[1] = "AwaitAck"
      BY <1>4 DEF AckingScript
    <2>2. "UNSUSPEND" \in Db3Messages
      BY DEF Db3Messages
    <2> QED BY <2>1, <2>2, PairScript, SMTT(60)
  <1>6. t = Unthrottle \o R
    <2>1. PICK w, x \in Seq(Steps) : w = Write3("UNSUSPEND") /\ x = Doorbell0(d)
      BY PgpeSteps, Doorbells DEF Db3Messages
    <2>2. w \in Seq(Steps) /\ x \in Seq(Steps) /\ a \in Seq(Steps)
      BY <1>3, <2>1
    <2>3. Join(Join(Join(w, a), x), R) = Join(w, Join(a, Join(x, R)))
      BY <2>2, Join4
    <2>4. Unthrottle = Join(Join(w, a), x)
      BY <1>1, <1>3, <2>1 DEF Unthrottle, Join
    <2>5. t = Join(w, Join(a, Join(x, R)))
      BY <1>2, <1>4, <1>5, <2>1 DEF Join
    <2> QED BY <2>3, <2>4, <2>5 DEF Join
  <1> QED BY <1>5, <1>6

LEMMA ThrottleScript ==
    ASSUME NEW l \in BOOLEAN, NEW R \in Seq(Steps), GScript(R, l)
    PROVE  \E t \in Seq(Steps) : t = Throttle \o R /\ GScript(t, l)
  <1>1. PICK x \in Steps : x = <<"PollDroop", "">> /\ x[1] = "PollDroop"
    <2>1. \A k \in PlainKinds : <<k, "">> \in Steps
      BY DEF Steps
    <2>2. <<"PollDroop", "">> \in Steps /\ <<"PollDroop", "">>[1] = "PollDroop"
      BY <2>1 DEF PlainKinds
    <2> QED BY <2>2
  <1>2. PICK u \in Seq(Steps) : u = <<x>> \o R /\ GScript(u, l)
    <2>1. x[1] \in {"PollDroop", "Become", "AwaitAck"} /\ x \in Steps
      BY <1>1
    <2> QED BY <2>1, QuietScript, ZenonT(120)
  <1>3. PICK t \in Seq(Steps) : t = Write3("SUSPEND") \o u /\ GScript(t, l)
    <2>1. u \in Seq(Steps) /\ GScript(u, l)
      BY <1>2
    <2>2. "SUSPEND" \in Db3Messages
      BY DEF Db3Messages
    <2> QED BY <2>1, <2>2, PairScript
  <1>4. t = Throttle \o R
    <2>1. PICK w, p \in Seq(Steps) : w = Write3("SUSPEND") /\ p = <<x>>
      BY PgpeSteps, OneStep DEF Db3Messages
    <2>2. w \in Seq(Steps) /\ p \in Seq(Steps)
      BY <2>1
    <2>3. Join(Join(w, p), R) = Join(w, Join(p, R))
      BY <2>2, Joins
    <2>4. Throttle = Join(w, p)
      BY <1>1, <2>1 DEF Throttle, Step, Join
    <2>5. t = Join(w, Join(p, R))
      BY <1>2, <1>3, <2>1 DEF Join
    <2> QED BY <2>3, <2>4, <2>5 DEF Join
  <1> QED BY <1>3, <1>4

ReplayForm(first, m, a, R, l) ==
    \E t \in Seq(Steps) : t = (first \o Write3(m) \o a) \o R /\ GScript(t, l)
LEMMA ReplayScript ==
    ASSUME NEW l \in BOOLEAN, NEW R \in Seq(Steps), GScript(R, l),
           NEW first \in Seq(Steps), first = <<>> \/ first = Throttle,
           NEW m \in Db3Messages, NEW a \in Seq(Steps), IsAwait(a)
    PROVE  ReplayForm(first, m, a, R, l)
  <1>1. PICK u \in Seq(Steps) : u = a \o R /\ AckingScript(u, l)
    BY AwaitScript
  <1>2. PICK v \in Seq(Steps) : v = Write3(m) \o u /\ GScript(v, l)
    BY <1>1, PairScript, ZenonT(60) DEF AckingScript
  <1>3. PICK t \in Seq(Steps) : t = first \o v /\ GScript(t, l)
    <2>1. v \in Seq(Steps) /\ GScript(v, l)
      BY <1>2
    <2>2. CASE first = <<>>
      BY <2>1, <2>2
    <2>3. CASE first = Throttle
      BY <2>1, <2>3, ThrottleScript
    <2> QED BY <2>2, <2>3
  <1>4. t = (first \o Write3(m) \o a) \o R
    <2>1. PICK w \in Seq(Steps) : w = Write3(m)
      BY PgpeSteps
    <2>2. w \in Seq(Steps)
      BY <2>1
    <2>3. Join(Join(Join(first, w), a), R) = Join(first, Join(w, Join(a, R)))
      BY <2>2, Join4
    <2>4. t = Join(first, Join(w, Join(a, R)))
      BY <1>1, <1>2, <1>3, <2>1 DEF Join
    <2> QED BY <2>1, <2>3, <2>4 DEF Join
  <1> QED BY <1>3, <1>4 DEF ReplayForm

LEMMA Doorbell3Forms ==
    ASSUME NEW l \in BOOLEAN, NEW d \in Db0Messages, d.msg = "PAYLOAD",
           NEW R \in Seq(Steps), GScript(R, l)
    PROVE  \A m \in Db3Messages \ {"SUSPEND"}, r \in Db3Messages \union {"none"} :
               Doorbell3Form(m, d, r, R, l)
  <1>1. ASSUME NEW m \in Db3Messages, m # "SUSPEND", NEW r \in Db3Messages \union {"none"}
        PROVE  Doorbell3Form(m, d, r, R, l)
    BY <1>1, Doorbell3Script
  <1> QED BY <1>1

LEMMA ProtocolForm ==
    ASSUME ~WritesApart, NEW l \in BOOLEAN, NEW op \in AllOperations,
           NEW field \in Fields(op), NEW w \in Targets
    PROVE  GScript(Protocol(op, field, w), l)
  <1>0. <<>> \in Seq(Steps) /\ GScript(<<>>, l)
    BY GEmpty
  <1>1. w.quadPstate \in Values
    BY DEF Targets, Values
  <1>2. PICK a \in Seq(Steps) : a = Await("ok", "REPLAY", FALSE) /\ IsAwait(a)
    BY AwaitIs DEF Acks, Db3Messages
  <1>3. AckingScript(a, l) /\ a \in Seq(Steps)
    BY <1>2, AwaitAlone
  <1>4. PICK p \in Db0Messages : /\ p = Payload("quadPstate", w.quadPstate)
                                 /\ p.msg = "PAYLOAD"
    <2>1. /\ Payload("quadPstate", w.quadPstate) \in Db0Messages
          /\ Payload("quadPstate", w.quadPstate).msg = "PAYLOAD"
      BY <1>1 DEF Payload, Message, Db0Messages
    <2> QED BY <2>1
  <1>5. p \in Db0Messages /\ p.msg = "PAYLOAD"
    BY <1>4
  <1>6. CASE op = "start"
    <2>1. PICK b \in Seq(Steps) : b = Becomes("active") /\ GScript(b, l)
      BY BecomesScript
    <2>2. b \in Seq(Steps) /\ GScript(b, l)
      BY <2>1
    <2>3. PICK t \in Seq(Steps) : t = StartPstates(w) \o b /\ GScript(t, l)
      BY <2>2, StartsScript, ZenonT(60)
    <2>4. Protocol(op, field, w) = StartPstates(w) \o b
      BY <1>6, <2>1 DEF Protocol
    <2> QED BY <2>3, <2>4
  <1>7. CASE op = "freq"
    <2>1. PICK d \in Db0Messages : /\ d = Message("GLB", "quadPstate", w.quadPstate)
                                   /\ d.msg = "GLB"
      <3>1. /\ Message("GLB", "quadPstate", w.quadPstate) \in Db0Messages
            /\ Message("GLB", "quadPstate", w.quadPstate).msg = "GLB"
        BY <1>1 DEF Message, Db0Messages
      <3> QED BY <3>1
    <2>2. d \in Db0Messages /\ d.msg # "PAYLOAD" /\ d.msg # "REGISTER_DONE"
      BY <2>1
    <2>3. PICK t \in Seq(Steps) : t = Write0(Cmes, d) \o a /\ GScript(t, l)
      BY <1>3, <2>2, Doorbell0Script DEF AckingScript
    <2>4. Protocol(op, field, w) = Write0(Cmes, d) \o a
      BY <1>2, <1>7, <2>1 DEF Protocol, Multicast
    <2> QED BY <2>3, <2>4
  <1>8. CASE op = "high"
    <2>1. /\ "HIGH" \in Db3Messages \ {"SUSPEND"} /\ "HIGH" \in Db3Messages
          /\ "REPLAY" \in Db3Messages \union {"none"}
      BY DEF Db3Messages
    <2>2. PICK t \in Seq(Steps) : t = Doorbell3("HIGH", p, "REPLAY") \o <<>> /\ GScript(t, l)
      <3>1. Doorbell3Form("HIGH", p, "REPLAY", <<>>, l)
        BY <1>0, <1>5, <2>1, Doorbell3Forms
      <3> QED BY <3>1 DEF Doorbell3Form
    <2>3. Doorbell3("HIGH", p, "REPLAY") \in Seq(Steps)
      BY <1>5, <2>1, Doorbells
    <2>4. t = Doorbell3("HIGH", p, "REPLAY")
      BY <2>2, <2>3, Concat
    <2>5. Protocol(op, field, w) = Doorbell3("HIGH", p, "REPLAY")
      BY <1>4, <1>8 DEF Protocol
    <2> QED BY <2>2, <2>4, <2>5
  <1>9. CASE op = "clip"
    <2>1. field \in {"pmin", "pmax"}
      BY <1>9 DEF Fields
    <2>2. w[field] \in Values
      BY <2>1 DEF Targets, Values
    <2>3. PICK d \in Db0Messages : d = Payload(field, w[field]) /\ d.msg = "PAYLOAD"
      <3>1. /\ Payload(field, w[field]) \in Db0Messages
            /\ Payload(field, w[field]).msg = "PAYLOAD"
        BY <2>1, <2>2 DEF Payload, Message, Db0Messages
      <3> QED BY <3>1
    <2>4. d \in Db0Messages /\ d.msg = "PAYLOAD"
      BY <2>3
    <2>5. /\ "CLIP" \in Db3Messages \ {"SUSPEND"} /\ "CLIP" \in Db3Messages
          /\ "none" \in Db3Messages \union {"none"}
      BY DEF Db3Messages
    <2>6. PICK t \in Seq(Steps) : t = Doorbell3("CLIP", d, "none") \o <<>> /\ GScript(t, l)
      <3>1. Doorbell3Form("CLIP", d, "none", <<>>, l)
        BY <1>0, <2>4, <2>5, Doorbell3Forms
      <3> QED BY <3>1 DEF Doorbell3Form
    <2>7. Doorbell3("CLIP", d, "none") \in Seq(Steps)
      BY <2>4, <2>5, Doorbells
    <2>8. t = Doorbell3("CLIP", d, "none")
      BY <2>6, <2>7, Concat
    <2>9. Protocol(op, field, w) = Doorbell3("CLIP", d, "none")
      BY <1>9, <2>3 DEF Protocol
    <2> QED BY <2>6, <2>8, <2>9
  <1>10. CASE op = "stop"
    <2>1. PICK b \in Seq(Steps) : b = Becomes("stopped") /\ GScript(b, l)
      BY BecomesScript
    <2>2. b \in Seq(Steps) /\ GScript(b, l)
      BY <2>1
    <2>3. PICK c \in Seq(Steps) : c = Await("suspended", "REPLAY", FALSE) /\ IsAwait(c)
      BY AwaitIs DEF Acks, Db3Messages
    <2>4. c \in Seq(Steps) /\ IsAwait(c)
      BY <2>3
    <2>5. PICK u \in Seq(Steps) : u = c \o b /\ AckingScript(u, l)
      BY <2>2, <2>4, AwaitScript, ZenonT(120)
    <2>6. u \in Seq(Steps) /\ GScript(u, l) /\ Item(u, 1)[1] = "AwaitAck"
      BY <2>5 DEF AckingScript
    <2>7. PICK d \in Db0Messages : d = Message("STOP", "none", 0) /\ d.msg = "STOP"
      <3>1. Message("STOP", "none", 0) \in Db0Messages /\ Message("STOP", "none", 0).msg = "STOP"
        BY DEF Message, Db0Messages, Values
      <3> QED BY <3>1
    <2>8. d \in Db0Messages /\ d.msg # "PAYLOAD" /\ d.msg # "REGISTER_DONE"
      BY <2>7
    <2>9. PICK t \in Seq(Steps) : t = Write0(Cmes, d) \o u /\ GScript(t, l)
      BY <2>6, <2>8, Doorbell0Script, ZenonT(120)
    <2>10. Protocol(op, field, w) = t
      <3>1. PICK x \in Seq(Steps) : x = Write0(Cmes, d)
        BY <2>8, PgpeSteps
      <3>2. x \in Seq(Steps)
        BY <3>1
      <3>3. Join(Join(x, c), b) = Join(x, Join(c, b))
        BY <2>2, <2>4, <3>2, Joins
      <3>4. Protocol(op, field, w) = Join(Join(x, c), b)
        BY <1>10, <2>1, <2>3, <2>7, <3>1 DEF Protocol, Unicast, Join
      <3> QED BY <2>5, <2>9, <3>1, <3>3, <3>4 DEF Join
    <2> QED BY <2>9, <2>10
  <1>11. CASE op = "safe"
    <2>1. PICK b \in Seq(Steps) : b = Becomes("safe") /\ GScript(b, l)
      BY BecomesScript
    <2>2. b \in Seq(Steps) /\ GScript(b, l)
      BY <2>1
    <2>3. /\ "ENTER_SAFE" \in Db3Messages \ {"SUSPEND"}
          /\ "ENTER_SAFE" \in Db3Messages \union {"none"}
      BY DEF Db3Messages
    <2>4. PICK t \in Seq(Steps) :
              t = Doorbell3("ENTER_SAFE", p, "ENTER_SAFE") \o b /\ GScript(t, l)
      <3>1. Doorbell3Form("ENTER_SAFE", p, "ENTER_SAFE", b, l)
        BY <1>5, <2>2, <2>3, Doorbell3Forms
      <3> QED BY <3>1 DEF Doorbell3Form
    <2>5. Protocol(op, field, w) = Doorbell3("ENTER_SAFE", p, "ENTER_SAFE") \o b
      BY <1>4, <1>11, <2>1 DEF Protocol
    <2> QED BY <2>4, <2>5
  <1>12. CASE op = "handoff"
    <2>1. "HANDOFF" \in Db3Messages
      BY DEF Db3Messages
    <2>2. PICK t \in Seq(Steps) : t = Write3("HANDOFF") \o a /\ GScript(t, l)
      BY <1>3, <2>1, PairScript DEF AckingScript
    <2>3. Protocol(op, field, w) = Write3("HANDOFF") \o a
      BY <1>2, <1>12 DEF Protocol
    <2> QED BY <2>2, <2>3
  <1> QED BY <1>6, <1>7, <1>8, <1>9, <1>10, <1>11, <1>12 DEF AllOperations

-----------------------------------------------------------------------------
(* Steps of the PGPE that write no doorbell.                               *)
PgpeQuiet ==
    /\ QSame /\ SSame /\ alive
    /\ UNCHANGED <<eisr, ticks, db0, db3, icrr, skipLock, flags, alive>>

LEMMA QuietPgpeStep ==
    ASSUME TypeInv, Kept, PgpeQuiet, E5', E6', type4' = "none",
           ~Due, ~Awaiting, ~Half, ~WriteNext, Apart(G1'),
           GForm(todo["pgpe"], registered, Interlock)'
    PROVE  Kept'
  <1>1. /\ Q1' = Q1 /\ Q2' = Q2 /\ Q3' = Q3 /\ RQ' = RQ
        /\ S1' = S1 /\ S2' = S2 /\ S3' = S3 /\ RS' = RS
    BY SamesViews DEF PgpeQuiet
  <1>2. UNCHANGED <<eisr, ticks, db0, db3, icrr, skipLock, flags, alive>> /\ alive
    BY DEF PgpeQuiet
  <1>3. Lines' /\ Boot' /\ Standstill'
    BY <1>2, StaysRest DEF PgpeQuiet, SameInterCme, SameFlags
  <1>4. Ticks'
    BY <1>2, SameTicks DEF Kept, PgpeQuiet, SameSignals
  <1>5. /\ HasReg' <=> HasReg
        /\ RegDue' <=> RegDue
        /\ AckDue' <=> AckDue
        /\ In2Due' <=> In2Due
        /\ RegHead' <=> RegHead
        /\ Db0Due' <=> Db0Due
        /\ Db3Due' <=> Db3Due
        /\ Due' <=> Due
        /\ Interlock' <=> Interlock
    <2>1. /\ HasReg' <=> HasReg
          /\ RegDue' <=> RegDue
          /\ AckDue' <=> AckDue
          /\ In2Due' <=> In2Due
      BY <1>1 DEF HasReg, RegDue, RegLeft, AckDue, In2Due
    <2>2. /\ RegHead' <=> RegHead
          /\ Db0Due' <=> Db0Due
          /\ Db3Due' <=> Db3Due
          /\ Interlock' <=> Interlock
      BY <1>1, <1>2, <2>1 DEF RegHead, Db0Due, Db3Due, Msg0, Interlock
    <2> QED BY <2>1, <2>2 DEF Due
  <1>6. \A m : ~HalfM(m)'
    BY DEF HalfM, Apart, Writes3
  <1>7. Pairing'
    <2>1. \A k : /\ QOpen(k)' <=> QOpen(k)
                 /\ SOpen(k)' <=> SOpen(k)
                 /\ QPend(k)' <=> QPend(k)
                 /\ SPend(k)' <=> SPend(k)
      BY <1>1, <1>2 DEF QOpen, SOpen, QPend, SPend, Unanswered, Awaits
    <2>2. /\ QClipMid' <=> QClipMid
          /\ QHbMid' <=> QHbMid
          /\ SClipMid' <=> SClipMid
          /\ SHbMid' <=> SHbMid
      BY <1>1, <1>2 DEF QClipMid, QHbMid, SClipMid, SHbMid, Answered2, Awaits
    <2>3. C1' /\ C2' /\ C4' /\ C5'
      BY <2>1, <2>2 DEF Kept, Pairing, C1, C2, C4, C5
    <2>4. C3'
      BY <1>6 DEF C3
    <2> QED BY <2>3, <2>4 DEF Pairing
  <1>8. Forms'
    BY DEF Kept, Forms, PgpeQuiet, QSame, SSame
  <1>9. Exchange'
    <2>1. E1' /\ E2' /\ E2a' /\ E4'
      BY <1>5 DEF E1, E2, E2a, E4, Due
    <2>2. E3' /\ E8' /\ E9'
      BY <1>1, <1>2, <1>5 DEF Kept, Exchange, E3, E8, E9, Msg0
    <2>3. E11' /\ E12' /\ E13' /\ E14' /\ HB1'
      BY <1>1, <1>2, <1>5 DEF Kept, Exchange, E11, E12, E13, E14, HB1, Msg0
    <2> QED BY <2>1, <2>2, <2>3 DEF Exchange
  <1> QED BY <1>3, <1>4, <1>7, <1>8, <1>9 DEF Kept

LEMMA QuietPgpe ==
    ASSUME TypeInv, Kept, PgpeQuiet, registered' = TRUE, type4' = "none", ~HasReg,
           ~Due, ~Awaiting, ~Half, ~WriteNext, Apart(G1'),
           GForm(todo["pgpe"], registered, Interlock)'
    PROVE  Kept'
  <1>1. RQ' = RQ
    BY SamesViews DEF PgpeQuiet
  <1>2. E5' /\ E6'
    BY <1>1 DEF E5, E6, HasReg
  <1> QED BY <1>2, QuietPgpeStep

(* When the PGPE is at a step that writes no doorbell nothing is due.      *)
LEMMA PgpeInBetween ==
    ASSUME TypeInv, Kept, G1 # End, G1[1] \notin {"Write0", "Write3"},
           G1[1] = "AwaitAck" => type4 # "none"
    PROVE  /\ registered /\ type4 # "available" /\ ~HasReg
           /\ G1[1] # "AwaitAck" => type4 = "none"
           /\ ~Due /\ ~Awaiting /\ ~Half /\ ~WriteNext
           /\ Apart(G1) /\ Apart(G2)
  <1>1. ~Awaiting /\ ~Half /\ ~WriteNext
    BY DEF Awaiting, Half, HalfM, Writes3, WriteNext
  <1>2. registered
    BY DEF Kept, Exchange, E5
  <1>3. ~Due /\ type4 # "available" /\ ~HasReg
    BY <1>1, <1>2 DEF Kept, Exchange, E1, E2a, E6
  <1>4. G1[1] # "AwaitAck" => type4 = "none"
    BY <1>3 DEF Kept, Exchange, E2
  <1>5. Apart(G1)
    BY DEF Apart
  <1>6. Apart(G2)
    BY HeadForms DEF Kept, GNext, Apart, Writes3
  <1> QED BY <1>1, <1>2, <1>3, <1>4, <1>5, <1>6

LEMMA KeepsBecome ==
    ASSUME TypeInv, Kept, Become \/ PollDroop
    PROVE  Kept'
  <1>1. PICK k \in {"Become", "PollDroop"} : At("pgpe", k) /\ Continue("pgpe")
    BY DEF Become, PollDroop, PgpeAt, Running
  <1>2. /\ GPops /\ QSame /\ SSame
        /\ GForm(todo'["pgpe"], registered, Interlock)
        /\ G1 \in Steps /\ G1[1] = k
    BY <1>1, GContinues DEF Kept
  <1>3. /\ registered /\ type4 # "available" /\ ~HasReg /\ type4 = "none"
        /\ ~Due /\ ~Awaiting /\ ~Half /\ ~WriteNext /\ Apart(G2)
    BY <1>2, NoEnd, PgpeInBetween
  <1>4. /\ UNCHANGED <<eisr, ticks, db0, db3, icrr, skipLock, flags, alive, type4, registered>>
        /\ alive
    BY DEF Become, PollDroop, PgpeAt, irqVars, doorbellVars, cmeVars, sysVars, pgpeVars
  <1>5. GForm(todo["pgpe"], registered, Interlock)'
    BY <1>4, <1>2 DEF Interlock
  <1>6. registered' = TRUE
    BY <1>3, <1>4 DEF TypeInv, PgpeType
  <1> QED BY <1>2, <1>3, <1>4, <1>5, <1>6, QuietPgpe DEF GPops, PgpeQuiet

LEMMA RestOfPgpe ==
    ASSUME TypeInv, Kept, registered, G1 # End, Apart(G2)
    PROVE  /\ Tail(todo["pgpe"]) \in Seq(Steps)
           /\ GScript(Tail(todo["pgpe"]), Interlock)
  <1>1. todo["pgpe"] \in Seq(Steps) /\ "pgpe" \in Processes
    BY DEF TypeInv, TodoType, Processes
  <1>2. todo["pgpe"] # <<>>
    BY <1>1, ItemsOf DEF G1
  <1>3. registered = TRUE /\ Interlock \in BOOLEAN
    BY DEF TypeInv, PgpeType, Interlock
  <1>4. Form("pgpe", todo["pgpe"], TRUE, Interlock)
    BY <1>3 DEF Kept, Forms, GForm
  <1>5. PICK l \in BOOLEAN : l = Interlock
    BY <1>3
  <1>6. TRUE \in BOOLEAN /\ l \in BOOLEAN
    BY <1>5
  <1>7. Form("pgpe", todo["pgpe"], TRUE, l)
    BY <1>4, <1>5
  <1>8. Form("pgpe", Tail(todo["pgpe"]), TRUE, l)
    BY <1>1, <1>2, <1>6, <1>7, FormTail, Zenon
  <1>9. Tail(todo["pgpe"]) \in Seq(Steps) /\ Item(Tail(todo["pgpe"]), 1) = G2
    BY <1>1, <1>2, TailItems DEF G2
  <1>10. GFormed(Tail(todo["pgpe"]), l)
    BY <1>8, Zenon DEF GFormed, GForm
  <1> QED BY <1>5, <1>9, <1>10 DEF GScript

LEMMA ScriptForms ==
    ASSUME TypeInv, NEW l \in BOOLEAN, l = Interlock,
           NEW s, s = todo'["pgpe"], GScript(s, l),
           Interlock' = Interlock, registered' = TRUE
    PROVE  GForm(todo["pgpe"], registered, Interlock)' /\ Apart(G1')
  <1>1. GForm(s, TRUE, l)
    BY Zenon DEF GScript, GFormed
  <1>2. GForm(todo'["pgpe"], registered', Interlock')
    BY <1>1
  <1>3. Apart(G1')
    BY DEF GScript, G1
  <1> QED BY <1>2, <1>3

LEMMA KeepsOperate ==
    ASSUME TypeInv, Kept, NEW op \in AllOperations, Operate(op), ~WritesApart
    PROVE  Kept'
  <1>1. /\ Idle("pgpe") /\ alive /\ registered /\ type4 = "none"
        /\ UNCHANGED <<eisr, ticks, db0, db3, icrr, skipLock, flags, alive, type4, registered>>
    BY DEF Operate, PgpeFree, irqVars, doorbellVars, cmeVars
  <1>2. PICK field \in Fields(op), w \in Targets :
            todo' = [todo EXCEPT !["pgpe"] = Protocol(op, field, w)]
    BY DEF Operate
  <1>3. G1 = End
    BY <1>1, IdleViews
  <1>4. ~Awaiting /\ ~Half /\ ~WriteNext
    BY <1>3, NoEnd DEF Awaiting, Half, HalfM, Writes3, WriteNext
  <1>5. ~Due /\ ~HasReg
    BY <1>1, <1>4 DEF Kept, Exchange, E1, E6
  <1>6. /\ todo'["pgpe"] = Protocol(op, field, w) /\ QSame /\ SSame
    BY <1>2 DEF TypeInv, TodoType, QSame, SSame, Processes
  <1>7. PICK l \in BOOLEAN : l = Interlock
    <2>1. Interlock \in BOOLEAN
      BY DEF Interlock
    <2> QED BY <2>1
  <1>8. GScript(Protocol(op, field, w), l)
    BY ProtocolForm
  <1>9. registered' = TRUE /\ Interlock' = Interlock
    BY <1>1 DEF TypeInv, PgpeType, Interlock
  <1>10. GForm(todo["pgpe"], registered, Interlock)' /\ Apart(G1')
    BY <1>6, <1>7, <1>8, <1>9, ScriptForms
  <1> QED BY <1>1, <1>4, <1>5, <1>6, <1>9, <1>10, QuietPgpe DEF PgpeQuiet

LEMMA KeepsRegistration ==
    ASSUME TypeInv, Kept, ProcessRegistration, ~WritesApart
    PROVE  Kept'
  <1>1. /\ Idle("pgpe") /\ alive /\ type4 = "available"
        /\ UNCHANGED <<eisr, ticks, db0, db3, icrr, skipLock, flags, alive, mode>>
    BY DEF ProcessRegistration, PgpeFree, irqVars, doorbellVars, cmeVars
  <1>2. ~registered /\ ~HasReg
    BY <1>1 DEF Kept, Exchange, E2a
  <1>3. /\ type4' = "none" /\ registered' = TRUE
        /\ todo' = [todo EXCEPT !["pgpe"] =
                       IF mode = "active" THEN StartPstates(wanted)
                       ELSE Doorbell0(Message("REGISTER_DONE", "none", 0))]
    BY <1>2 DEF ProcessRegistration
  <1>4. G1 = End
    BY <1>1, IdleViews
  <1>5. ~Awaiting /\ ~Half /\ ~WriteNext
    BY <1>4, NoEnd DEF Awaiting, Half, HalfM, Writes3, WriteNext
  <1>6. ~Due
    BY <1>2 DEF Kept, Exchange, E1
  <1>7. PICK l \in BOOLEAN : l = Interlock
    <2>1. Interlock \in BOOLEAN
      BY DEF Interlock
    <2> QED BY <2>1
  <1>8. mode = "active" <=> l
    BY <1>2, <1>7 DEF Kept, Exchange, E5
  <1>9. <<>> \in Seq(Steps) /\ GScript(<<>>, l)
    BY GEmpty
  <1>10. PICK t \in Seq(Steps) :
             /\ t = IF mode = "active" THEN StartPstates(wanted)
                    ELSE Doorbell0(Message("REGISTER_DONE", "none", 0))
             /\ GScript(t, l)
    <2>1. CASE mode = "active"
      <3>1. wanted \in Targets
        BY DEF TypeInv, PgpeType
      <3>2. PICK t \in Seq(Steps) : t = StartPstates(wanted) \o <<>> /\ GScript(t, l)
        BY <1>9, <3>1, StartsScript
      <3>3. StartPstates(wanted) \in Seq(Steps)
        BY <3>1, StartScript
      <3>4. t = StartPstates(wanted)
        BY <3>2, <3>3, Concat
      <3> QED BY <2>1, <3>2, <3>4
    <2>2. CASE mode # "active"
      <3>1. PICK d \in Db0Messages : /\ d = Message("REGISTER_DONE", "none", 0)
                                     /\ d.msg = "REGISTER_DONE"
        <4>1. /\ Message("REGISTER_DONE", "none", 0) \in Db0Messages
              /\ Message("REGISTER_DONE", "none", 0).msg = "REGISTER_DONE"
          BY DEF Message, Db0Messages, Values
        <4> QED BY <4>1
      <3>2. d \in Db0Messages /\ d.msg # "PAYLOAD" /\ ~l
        BY <1>8, <2>2, <3>1
      <3>3. PICK t \in Seq(Steps) : t = Doorbell0(d) \o <<>> /\ GScript(t, l)
        BY <1>9, <3>2, WithDoorbell0
      <3>4. Doorbell0(d) \in Seq(Steps)
        BY <3>1, Doorbells
      <3>5. t = Doorbell0(d)
        BY <3>3, <3>4, Concat
      <3> QED BY <2>2, <3>1, <3>3, <3>5
    <2> QED BY <2>1, <2>2
  <1>11. /\ todo'["pgpe"] = t /\ QSame /\ SSame
    BY <1>3, <1>10 DEF TypeInv, TodoType, QSame, SSame, Processes
  <1>12. Interlock' = Interlock
    BY <1>1 DEF Interlock
  <1>13. GForm(todo["pgpe"], registered, Interlock)' /\ Apart(G1')
    BY <1>3, <1>7, <1>10, <1>11, <1>12, ScriptForms
  <1> QED BY <1>1, <1>2, <1>3, <1>5, <1>6, <1>11, <1>13, QuietPgpe DEF PgpeQuiet

(* What the PGPE does next when it has an answer.                          *)
AfterAck(a) ==
    {IF a.nacked THEN Unthrottle ELSE <<>>,
     IF a.replay = "none" THEN <<>>
     ELSE (IF a.nacked THEN <<>> ELSE Throttle) \o Write3(a.replay)
          \o Await(a.expected, a.replay, TRUE)}

LEMMA AckScripts ==
    ASSUME ~WritesApart, NEW l \in BOOLEAN, NEW R \in Seq(Steps), GScript(R, l),
           NEW a \in Awaited, NEW more \in AfterAck(a)
    PROVE  more \in Seq(Steps) /\ GScript(more \o R, l)
  <1>1. a.expected \in Acks /\ a.replay \in Db3Messages \union {"none"} /\ a.nacked \in BOOLEAN
    BY DEF Awaited
  <1>2. CASE more = <<>>
    BY <1>2, Concat
  <1>3. CASE more = Unthrottle
    <2>1. Unthrottle \in Seq(Steps)
      BY Doorbells
    <2>2. PICK t \in Seq(Steps) : t = Unthrottle \o R /\ GScript(t, l)
      BY UnthrottleScript
    <2> QED BY <1>3, <2>1, <2>2
  <1>4. CASE more # <<>> /\ more # Unthrottle
    <2>1. /\ a.replay \in Db3Messages
          /\ more = (IF a.nacked THEN <<>> ELSE Throttle) \o Write3(a.replay)
                    \o Await(a.expected, a.replay, TRUE)
      BY <1>1, <1>4 DEF AfterAck
    <2>2. PICK first \in Seq(Steps) : /\ first = IF a.nacked THEN <<>> ELSE Throttle
                                      /\ first = <<>> \/ first = Throttle
      <3>1. <<>> \in Seq(Steps) /\ Throttle \in Seq(Steps)
        BY Doorbells
      <3> QED BY <3>1
    <2>3. PICK w \in Seq(Steps) : w = Await(a.expected, a.replay, TRUE) /\ IsAwait(w)
      BY <1>1, AwaitIs
    <2>4. /\ first \in Seq(Steps) /\ (first = <<>> \/ first = Throttle)
          /\ w \in Seq(Steps) /\ IsAwait(w)
      BY <2>2, <2>3
    <2>5. PICK m \in Db3Messages : m = a.replay
      BY <2>1
    <2>6. PICK t \in Seq(Steps) : t = (first \o Write3(m) \o w) \o R /\ GScript(t, l)
      <3>1. ReplayForm(first, m, w, R, l)
        BY <2>4, ReplayScript
      <3> QED BY <3>1 DEF ReplayForm
    <2>7. more = first \o Write3(m) \o w
      BY <2>1, <2>2, <2>3, <2>5
    <2>8. more \in Seq(Steps)
      BY <2>4, <2>7, PgpeSteps, Joined
    <2> QED BY <2>6, <2>7, <2>8
  <1> QED BY <1>2, <1>3, <1>4

LEMMA KeepsAwaitAck ==
    ASSUME TypeInv, Kept, AwaitAck, ~WritesApart
    PROVE  Kept'
  <1>1. /\ At("pgpe", "AwaitAck") /\ alive /\ type4 # "none" /\ type4' = "none"
        /\ UNCHANGED <<eisr, ticks, db0, db3, icrr, skipLock, flags, alive, registered>>
    BY DEF AwaitAck, PgpeAt, Running, irqVars, cmeVars, pgpeVars
  <1>2. /\ G1 \in Steps /\ G1[1] = "AwaitAck" /\ G1[2] = Argument("pgpe") /\ G1 # End
    BY <1>1, HeadsAt
  <1>3. /\ registered /\ ~HasReg /\ ~Due /\ ~Awaiting /\ ~Half /\ ~WriteNext
        /\ Apart(G1) /\ Apart(G2)
    BY <1>1, <1>2, PgpeInBetween
  <1>4. PICK a \in Awaited : a = Argument("pgpe")
    BY <1>2, Arguments
  <1>5. TodoType /\ "pgpe" \in Processes
    BY DEF TypeInv, Processes
  <1>6. registered' = TRUE /\ Interlock' = Interlock
    BY <1>1, <1>3 DEF TypeInv, PgpeType, Interlock
  <1>7. CASE UNCHANGED todo
    <2>1. QSame /\ SSame /\ GSame
      BY <1>7 DEF QSame, SSame, GSame
    <2>2. G1' = G1
      BY <2>1, SamesViews
    <2>3. GForm(todo["pgpe"], registered, Interlock)'
      BY <1>1, <1>6, <1>7 DEF Kept, Forms
    <2> QED BY <1>1, <1>3, <1>6, <2>1, <2>2, <2>3, QuietPgpe DEF PgpeQuiet
  <1>8. CASE ~UNCHANGED todo
    <2>1. PICK more \in AfterAck(a) : Then("pgpe", more)
      BY <1>4, <1>8 DEF AwaitAck, Panics, AfterAck
    <2>2. PICK l \in BOOLEAN : l = Interlock
      <3>1. Interlock \in BOOLEAN
        BY DEF Interlock
      <3> QED BY <3>1
    <2>3. PICK R \in Seq(Steps) : R = Tail(todo["pgpe"]) /\ GScript(R, l)
      BY <1>2, <1>3, <2>2, RestOfPgpe
    <2>4. R \in Seq(Steps) /\ GScript(R, l)
      BY <2>3
    <2>5. more \in Seq(Steps) /\ GScript(more \o R, l)
      BY <2>4, AckScripts
    <2>6. todo'["pgpe"] = more \o R /\ QSame /\ SSame
      BY <1>5, <2>1, <2>5, <2>3, ThenSteps DEF QSame, SSame, Processes
    <2>7. GForm(todo["pgpe"], registered, Interlock)' /\ Apart(G1')
      BY <1>6, <2>2, <2>5, <2>6, ScriptForms
    <2> QED BY <1>1, <1>3, <1>6, <2>6, <2>7, QuietPgpe DEF PgpeQuiet
  <1> QED BY <1>7, <1>8

(* While the quad boots a change of frequency elsewhere is broadcast.      *)
LEMMA BroadcastForm ==
    ASSUME NEW l \in BOOLEAN, NEW d \in Db0Messages, d.msg = "GLB"
    PROVE  \E t \in Seq(Steps) :
               /\ t = Write0(Cmes, d) /\ GForm(t, FALSE, l)
               /\ Writing(Item(t, 1), "Write0", Cmes, d) /\ Item(t, 2) = End
  <1>1. PICK x \in Steps : Writing(x, "Write0", Cmes, d)
    <2>1. Cmes \in SUBSET Cmes
      OBVIOUS
    <2> QED BY <2>1, Write0Step, Zenon
  <1>2. PICK e \in Seq(Steps) : e = <<>>
    BY QEmpty
  <1>3. /\ Item(e, 1) = End /\ Item(e, 2) = End /\ StepsOf(e) = {}
        /\ \A r, k \in BOOLEAN : Form("pgpe", e, r, k)
    BY <1>2, EmptyItems DEF Form
  <1>4. GNext(x, End, End, FALSE, l)
    <2>1. "Write0" \in PgKinds /\ "Write0" # "Write3"
      BY DEF PgKinds
    <2>2. x[1] = "Write0" /\ x[2][1] = Cmes /\ x[2][2] = d
      BY <1>1 DEF Writing
    <2>3. x[2][2].msg # "REGISTER_DONE" /\ x[2][2].msg # "PAYLOAD"
      BY <2>2
    <2> QED BY <2>1, <2>2, <2>3, NoEnd, Zenon DEF GNext
  <1>5. Follows("pgpe", x, Item(e, 1), Item(e, 2), FALSE, l)
    <2>1. "pgpe" # "qm" /\ "pgpe" # "sib"
      OBVIOUS
    <2> QED BY <1>3, <1>4, <2>1, Zenon DEF Follows
  <1>6. Form("pgpe", Cons(x, e), FALSE, l)
    <2>1. "pgpe" \in Processes /\ FALSE \in BOOLEAN /\ e \in Seq(Steps)
      BY <1>2 DEF Processes
    <2>2. \A y \in StepsOf(e) : After("pgpe", x, y)
      BY <1>3
    <2>3. Form("pgpe", e, FALSE, l)
      BY <1>3, Zenon
    <2> QED BY <1>5, <2>1, <2>2, <2>3, FormCons, Zenon
  <1>7. /\ Cons(x, e) \in Seq(Steps) /\ Item(Cons(x, e), 1) = x
        /\ Item(Cons(x, e), 1 + 1) = Item(e, 1)
    <2>1. x \in Steps /\ e \in Seq(Steps)
      BY <1>1, <1>2
    <2> QED BY <2>1, ConsItems
  <1>8. Cons(x, e) = <<x>>
    BY <1>2, Concat DEF Cons
  <1>9. <<x>> = Write0(Cmes, d)
    BY <1>1 DEF Write0, Writing
  <1>10. PICK t \in Seq(Steps) : t = Cons(x, e)
    BY <1>7
  <1>11. Item(t, 2) = End /\ Writing(Item(t, 1), "Write0", Cmes, d)
    BY <1>1, <1>3, <1>7, <1>10
  <1>12. GForm(t, FALSE, l)
    BY <1>6, <1>10, Zenon DEF GForm
  <1>13. t = Write0(Cmes, d)
    BY <1>8, <1>9, <1>10
  <1> QED BY <1>11, <1>12, <1>13

LEMMA KeepsElsewhere ==
    ASSUME TypeInv, Kept, OperateElsewhere("freq")
    PROVE  Kept'
  <1>1. /\ Idle("pgpe") /\ alive /\ ~registered /\ type4 = "none" /\ mode = "active"
        /\ mode' = mode
        /\ UNCHANGED <<eisr, ticks, db0, db3, icrr, skipLock, flags, alive, type4, registered>>
        /\ todo' = [todo EXCEPT !["pgpe"] =
                       Multicast(Message("GLB", "quadPstate", wanted.quadPstate))]
    BY DEF OperateElsewhere, PgpeFree, irqVars, doorbellVars, cmeVars
  <1>2. G1 = End
    BY <1>1, IdleViews
  <1>3. ~Awaiting /\ ~Half /\ ~WriteNext
    BY <1>2, NoEnd DEF Awaiting, Half, HalfM, Writes3, WriteNext
  <1>4. ~Due /\ Interlock
    BY <1>1 DEF Kept, Exchange, E1, E5
  <1>5. PICK d \in Db0Messages : /\ d = Message("GLB", "quadPstate", wanted.quadPstate)
                                 /\ d.msg = "GLB"
    <2>1. wanted.quadPstate \in Values
      BY DEF TypeInv, PgpeType, Targets, Values
    <2>2. /\ Message("GLB", "quadPstate", wanted.quadPstate) \in Db0Messages
          /\ Message("GLB", "quadPstate", wanted.quadPstate).msg = "GLB"
      BY <2>1 DEF Message, Db0Messages
    <2> QED BY <2>2
  <1>6. PICK l \in BOOLEAN : l = Interlock
    <2>1. Interlock \in BOOLEAN
      BY DEF Interlock
    <2> QED BY <2>1
  <1>7. PICK t \in Seq(Steps) :
            /\ t = Write0(Cmes, d) /\ GForm(t, FALSE, l)
            /\ Writing(Item(t, 1), "Write0", Cmes, d) /\ Item(t, 2) = End
    BY <1>5, BroadcastForm
  <1>8. /\ todo'["pgpe"] = t /\ QSame /\ SSame
    BY <1>1, <1>5, <1>7 DEF TypeInv, TodoType, QSame, SSame, Processes, Multicast
  <1>9. registered' = FALSE /\ Interlock' = Interlock
    BY <1>1 DEF TypeInv, PgpeType, Interlock
  <1>10. GForm(todo["pgpe"], registered, Interlock)'
    BY <1>7, <1>6, <1>8, <1>9
  <1>11. G1'[1] = "Write0" /\ G1'[2][1] = Cmes /\ G1'[2][2] = d /\ G2' = End
    BY <1>7, <1>8 DEF G1, G2, Writing
  <1>12. Apart(G1')
    BY <1>11 DEF Cmes, Apart
  <1>13. /\ RQ' = RQ /\ (RegDue' <=> RegDue) /\ (HasReg' <=> HasReg)
    BY <1>8, SamesViews DEF RegDue, RegLeft, HasReg
  <1>14. E5'
    BY <1>5, <1>1, <1>4, <1>9, <1>11, <1>13 DEF Kept, Exchange, E5, Msg0
  <1>15. E6'
    BY <1>1, <1>13 DEF E6
  <1> QED BY <1>1, <1>3, <1>4, <1>8, <1>10, <1>12, <1>14, <1>15, QuietPgpeStep DEF PgpeQuiet

-----------------------------------------------------------------------------
(* A doorbell is written.                                                  *)
PgpeMoves ==
    /\ QSame /\ SSame /\ alive /\ SameInterCme
    /\ "DB0" \in eisr["qm"] => "DB0" \in eisr'["qm"]
    /\ "HB" \in eisr'["qm"] <=> "HB" \in eisr["qm"]
    /\ "HB" \in eisr'["sib"] <=> "HB" \in eisr["sib"]
    /\ UNCHANGED <<ticks, icrr, skipLock, flags, alive, type4, registered, mode>>

LEMMA MovesKept ==
    ASSUME TypeInv, Kept, PgpeMoves, Exchange', Pairing',
           GForm(todo["pgpe"], registered, Interlock)'
    PROVE  Kept'
  <1>1. /\ Q1' = Q1 /\ RQ' = RQ /\ S1' = S1 /\ RS' = RS
    BY SamesViews DEF PgpeMoves
  <1>2. Lines' /\ Boot' /\ Standstill'
    BY StaysRest DEF PgpeMoves, SameFlags
  <1>3. Ticks'
    <2>1. /\ "RECVD" \in eisr'["sib"] <=> "RECVD" \in eisr["sib"]
          /\ "IN0" \in eisr'["sib"] <=> "IN0" \in eisr["sib"]
          /\ "DB0" \in eisr["qm"] => "DB0" \in eisr'["qm"]
          /\ ticks' = ticks
      BY DEF PgpeMoves, SameInterCme, Signals
    <2>2. (HasReg' <=> HasReg) /\ (RegDue' <=> RegDue)
      BY <1>1 DEF HasReg, RegDue, RegLeft
    <2>3. T1'
      BY <1>1, <2>1, <2>2 DEF Kept, Ticks, T1
    <2>4. T2' /\ T3'
      BY <1>1, <2>1 DEF Kept, Ticks, T2, T3
    <2> QED BY <2>3, <2>4 DEF Ticks
  <1>4. Forms'
    BY DEF Kept, Forms, PgpeMoves, QSame, SSame
  <1> QED BY <1>2, <1>3, <1>4 DEF Kept

LEMMA MovesViews ==
    ASSUME PgpeMoves
    PROVE  /\ HasReg' <=> HasReg
           /\ RegDue' <=> RegDue
           /\ AckDue' <=> AckDue
           /\ In2Due' <=> In2Due
           /\ Interlock' <=> Interlock
           /\ Q1' = Q1 /\ RQ' = RQ
           /\ \A k : (QOpen(k)' <=> QOpen(k)) /\ (SOpen(k)' <=> SOpen(k))
           /\ QClipMid' <=> QClipMid
           /\ QHbMid' <=> QHbMid
           /\ SClipMid' <=> SClipMid
           /\ SHbMid' <=> SHbMid
  <1>1. /\ Q1' = Q1 /\ Q2' = Q2 /\ Q3' = Q3 /\ RQ' = RQ
        /\ S1' = S1 /\ S2' = S2 /\ S3' = S3 /\ RS' = RS
    BY SamesViews DEF PgpeMoves
  <1>2. /\ HasReg' <=> HasReg
        /\ RegDue' <=> RegDue
        /\ AckDue' <=> AckDue
        /\ In2Due' <=> In2Due
        /\ Interlock' <=> Interlock
    BY <1>1 DEF HasReg, RegDue, RegLeft, AckDue, In2Due, Interlock, PgpeMoves
  <1>3. "IN2" \in eisr'["qm"] <=> "IN2" \in eisr["qm"]
    BY DEF PgpeMoves, SameInterCme, Signals
  <1>4. \A k : (QOpen(k)' <=> QOpen(k)) /\ (SOpen(k)' <=> SOpen(k))
    BY <1>1, <1>3 DEF QOpen, SOpen, Unanswered, Awaits
  <1>5. /\ QClipMid' <=> QClipMid
        /\ QHbMid' <=> QHbMid
        /\ SClipMid' <=> SClipMid
        /\ SHbMid' <=> SHbMid
    BY <1>1, <1>3 DEF QClipMid, QHbMid, SClipMid, SHbMid, Answered2, Awaits
  <1> QED BY <1>1, <1>2, <1>4, <1>5

(* Doorbell 0.                                                             *)
Db0Written ==
    /\ PgpeMoves /\ GPops /\ G1[1] = "Write0" /\ G1 # End
    /\ GForm(todo["pgpe"], registered, Interlock)'
    /\ \A b \in Bits \ {"DB0"} : /\ b \in eisr'["qm"] <=> b \in eisr["qm"]
                                 /\ b \in eisr'["sib"] <=> b \in eisr["sib"]
    /\ db3' = db3
    /\ "qm" \in G1[2][1] => Msg0' = G1[2][2].msg
    /\ "qm" \notin G1[2][1] => Msg0' = Msg0
    /\ "qm" \notin G1[2][1] \/ G1[2][2].msg = "PAYLOAD" =>
           ("DB0" \in eisr'["qm"] => "DB0" \in eisr["qm"])

LEMMA WritesDb0 ==
    ASSUME TypeInv, Kept, WriteDb0
    PROVE  Db0Written
  <1>1. /\ At("pgpe", "Write0") /\ Continue("pgpe") /\ alive
        /\ UNCHANGED <<ticks, icrr, skipLock, flags, alive, type4, registered, mode, db3>>
    BY DEF WriteDb0, PgpeAt, Running, cmeVars, sysVars, pgpeVars
  <1>2. /\ GPops /\ QSame /\ SSame
        /\ GForm(todo'["pgpe"], registered, Interlock)
        /\ G1 \in Steps /\ G1[1] = "Write0" /\ G1[2] = Argument("pgpe") /\ G1 # End
    BY <1>1, GContinues, NoEnd DEF Kept
  <1>3. PICK targets \in SUBSET Cmes, d \in Db0Messages : targets = G1[2][1] /\ d = G1[2][2]
    BY <1>2, Arguments
  <1>4. /\ db0' = [c \in Cmes |-> IF c \in targets THEN d ELSE db0[c]]
        /\ eisr' = [c \in Cmes |-> eisr[c] \union
                      IF c \in targets /\ d.msg # "PAYLOAD" THEN {"DB0"} ELSE {}]
    BY <1>2, <1>3 DEF WriteDb0
  <1>5. /\ db0'["qm"] = IF "qm" \in targets THEN d ELSE db0["qm"]
        /\ eisr'["qm"] = eisr["qm"] \union
                      IF "qm" \in targets /\ d.msg # "PAYLOAD" THEN {"DB0"} ELSE {}
        /\ eisr'["sib"] = eisr["sib"] \union
                      IF "sib" \in targets /\ d.msg # "PAYLOAD" THEN {"DB0"} ELSE {}
    BY <1>4 DEF Cmes
  <1>6. \A b \in Bits \ {"DB0"} : /\ b \in eisr'["qm"] <=> b \in eisr["qm"]
                                  /\ b \in eisr'["sib"] <=> b \in eisr["sib"]
    BY <1>5
  <1>7. /\ "qm" \in G1[2][1] => Msg0' = G1[2][2].msg
        /\ "qm" \notin G1[2][1] => Msg0' = Msg0
        /\ "qm" \notin G1[2][1] \/ G1[2][2].msg = "PAYLOAD" =>
               ("DB0" \in eisr'["qm"] => "DB0" \in eisr["qm"])
        /\ "DB0" \in eisr["qm"] => "DB0" \in eisr'["qm"]
    BY <1>3, <1>5 DEF Msg0
  <1>8. PgpeMoves
    <2>1. Signals \union {"ACK", "RECVD", "HB"} \subseteq Bits \ {"DB0"}
      BY DEF Bits, Signals
    <2>2. SameInterCme
      BY <1>6, <2>1 DEF SameInterCme
    <2> QED BY <1>1, <1>2, <1>6, <1>7, <2>1, <2>2 DEF PgpeMoves
  <1>9. GForm(todo["pgpe"], registered, Interlock)'
    BY <1>1, <1>2 DEF Interlock
  <1> QED BY <1>1, <1>2, <1>6, <1>7, <1>8, <1>9 DEF Db0Written

LEMMA Db0Pairing ==
    ASSUME Pairing, Db0Written, \A m \in Ms : HalfM(m)' => HalfM(m)
    PROVE  Pairing'
  <1>1. /\ \A k : (QOpen(k)' <=> QOpen(k)) /\ (SOpen(k)' <=> SOpen(k))
        /\ QClipMid' <=> QClipMid
        /\ QHbMid' <=> QHbMid
        /\ SClipMid' <=> SClipMid
        /\ SHbMid' <=> SHbMid
    BY MovesViews DEF Db0Written
  <1>2. /\ \A b \in {"DB3", "HB"} : b \in Bits \ {"DB0"}
        /\ db3' = db3
        /\ \A b \in Bits \ {"DB0"} : /\ b \in eisr'["qm"] <=> b \in eisr["qm"]
                                     /\ b \in eisr'["sib"] <=> b \in eisr["sib"]
    BY DEF Bits, Db0Written
  <1>3. \A k : (QPend(k)' <=> QPend(k)) /\ (SPend(k)' <=> SPend(k))
    BY <1>2 DEF QPend, SPend
  <1>4. C1' /\ C2' /\ C4' /\ C5'
    BY <1>1, <1>3 DEF Pairing, C1, C2, C4, C5
  <1>5. C3'
    BY <1>1, <1>2, <1>3 DEF Pairing, C3
  <1> QED BY <1>4, <1>5 DEF Pairing

(* To the sibling, in the middle of doorbell 3.                            *)
LEMMA WriteDb0Sibling ==
    ASSUME TypeInv, Kept, Db0Written, G1[2][1] = {"sib"}
    PROVE  Kept'
  <1>0. "qm" \notin G1[2][1] /\ {"sib"} # Cmes /\ GNext(G1, G2, G3, registered, Interlock)
    BY HeadForms DEF Db0Written, Kept, Cmes
  <1>1. registered /\ type4 = "none" /\ ~HasReg /\ ~Awaiting /\ ~WriteNext
    <2>1. registered
      BY <1>0 DEF Kept, Exchange, E5, Db0Written
    <2> QED BY <2>1 DEF Kept, Exchange, E2, E2a, E6, Db0Written, Awaiting, WriteNext
  <1>2. /\ HasReg' <=> HasReg
        /\ RegDue' <=> RegDue
        /\ AckDue' <=> AckDue
        /\ In2Due' <=> In2Due
        /\ Interlock' <=> Interlock
        /\ Q1' = Q1 /\ RQ' = RQ /\ Msg0' = Msg0 /\ db3' = db3
        /\ UNCHANGED <<flags, alive, type4, registered, mode>>
        /\ alive /\ G1' = G2 /\ G2' = G3
        /\ "DB0" \in eisr'["qm"] <=> "DB0" \in eisr["qm"]
    BY <1>0, MovesViews DEF Db0Written, PgpeMoves, GPops
  <1>3. /\ \A b \in {"DB3", "HB"} : /\ b \in eisr'["qm"] <=> b \in eisr["qm"]
                                    /\ b \in eisr'["sib"] <=> b \in eisr["sib"]
    BY DEF Bits, Db0Written
  <1>4. \A m : HalfM(m)' <=> HalfM(m)
    BY <1>0, <1>1, <1>2 DEF GNext, Db0Written, HalfM, Writes3
  <1>5. (Half' <=> Half) /\ (Due' <=> Due) /\ (Db0Due' <=> Db0Due) /\ (RegHead' <=> RegHead)
        /\ (Db3Due' <=> Db3Due)
    BY <1>2, <1>3, <1>4 DEF Half, Due, Db0Due, RegHead, Db3Due
  <1>6. Exchange'
    <2>1. E1' /\ E2' /\ E2a' /\ E5' /\ E6'
      BY <1>1, <1>2, <1>5 DEF Kept, Exchange, E1, E2, E2a, E5, E6
    <2>2. E3' /\ E4' /\ E8' /\ E9'
      BY <1>2, <1>5 DEF Kept, Exchange, E3, E4, E8, E9
    <2>3. E11' /\ E12' /\ E13'
      BY <1>1, <1>2, <1>5 DEF Kept, Exchange, E11, E12, E13
    <2>4. E14' /\ HB1'
      BY <1>2, <1>3 DEF Kept, Exchange, E14, HB1
    <2> QED BY <2>1, <2>2, <2>3, <2>4 DEF Exchange
  <1>7. Pairing'
    BY <1>4, Db0Pairing DEF Kept
  <1> QED BY <1>6, <1>7, MovesKept DEF Db0Written

(* To the quad manager: before, nothing is due.                            *)
LEMMA WriteDb0Before ==
    ASSUME TypeInv, Kept, Db0Written, "qm" \in G1[2][1]
    PROVE  /\ GNext(G1, G2, G3, registered, Interlock)
           /\ ~Due /\ ~AckDue /\ ~Db0Due /\ ~RegHead /\ ~Db3Due
           /\ type4 \in {"none", "available"}
           /\ registered => type4 = "none" /\ ~HasReg
           /\ RegDue /\ "ENABLED" \in flags["qm"] => Msg0 \in RegMsgs
           /\ Q1[1] = "RegisterDb0" => RegDue
           /\ \A m : ~HalfM(m)'
  <1>1. G1[1] = "Write0" /\ G1[2][1] # {"sib"} /\ G1' = G2 /\ G2' = G3
        /\ GNext(G1, G2, G3, registered, Interlock)
    BY HeadForms DEF Db0Written, Kept, GPops
  <1>2. ~Awaiting /\ ~Half /\ ~WriteNext
    BY <1>1 DEF Awaiting, Half, HalfM, Writes3, WriteNext
  <1>3. ~Due /\ (RegDue /\ "ENABLED" \in flags["qm"] => Msg0 \in RegMsgs)
    BY <1>2 DEF Kept, Exchange, E1, E11
  <1>4. ~AckDue /\ ~Db0Due /\ ~RegHead /\ ~Db3Due
    BY <1>3 DEF Due
  <1>5. type4 \in {"none", "available"}
    BY <1>1 DEF Kept, Exchange, E2
  <1>6. registered => type4 = "none" /\ ~HasReg
    BY <1>5 DEF Kept, Exchange, E2a, E6
  <1>7. Q1[1] = "RegisterDb0" => RegDue
    <2> HAVE Q1[1] = "RegisterDb0"
    <2>1. Q1 # End
      BY NoEnd
    <2>2. Q1 \in RQ /\ Q1 \in Steps
      <3>1. PICK s \in Seq(Steps) : s = todo["qm"]
        BY DEF TypeInv, TodoType, Processes
      <3>2. /\ Item(s, 1) # End => Item(s, 1) \in StepsOf(s)
            /\ StepsOf(s) \subseteq Steps
        BY ItemsOf
      <3> QED BY <2>1, <3>1, <3>2 DEF Q1, RQ
    <2>3. Q1 = <<"RegisterDb0", Q1[2]>> /\ Q1[2] \in 1 .. 3
      BY <2>2, StepIsPair, Arguments DEF RegisterKinds
    <2> QED BY <2>2, <2>3 DEF RegDue, RegLeft
  <1>8. \A m : ~HalfM(m)'
    BY <1>1 DEF GNext, Apart, Writes3, HalfM
  <1> QED BY <1>1, <1>3, <1>4, <1>5, <1>6, <1>7, <1>8


LEMMA WriteDb0Qm ==
    ASSUME TypeInv, Kept, Db0Written, "qm" \in G1[2][1], E1', E5', E11', E13'
    PROVE  Kept'
  <1>1. /\ GNext(G1, G2, G3, registered, Interlock)
        /\ ~AckDue /\ ~Db3Due /\ type4 \in {"none", "available"}
        /\ \A m : ~HalfM(m)'
    BY WriteDb0Before
  <1>2. /\ HasReg' <=> HasReg
        /\ RegDue' <=> RegDue
        /\ AckDue' <=> AckDue
        /\ In2Due' <=> In2Due
        /\ Interlock' <=> Interlock
        /\ Q1' = Q1 /\ RQ' = RQ /\ Msg0' = G1[2][2].msg /\ db3' = db3
        /\ UNCHANGED <<flags, alive, type4, registered, mode>>
        /\ alive /\ G1' = G2 /\ G2' = G3
    BY MovesViews DEF Db0Written, PgpeMoves, GPops
  <1>3. /\ \A b \in {"DB3", "HB"} : /\ b \in eisr'["qm"] <=> b \in eisr["qm"]
                                    /\ b \in eisr'["sib"] <=> b \in eisr["sib"]
    BY DEF Bits, Db0Written
  <1>4. ~Db3Due'
    BY <1>1, <1>2, <1>3 DEF Db3Due
  <1>5. Interlock => Msg0' # "REGISTER_DONE"
    BY <1>1, <1>2 DEF GNext, Db0Written
  <1>6. Exchange'
    <2>1. E2' /\ E2a' /\ E6'
      BY <1>1, <1>2 DEF Kept, Exchange, E2, E2a, E6
    <2>2. E3' /\ E4' /\ E12'
      BY <1>1, <1>2, <1>4 DEF E3, E4, E12
    <2>3. E8' /\ E9'
      BY <1>2, <1>5 DEF Kept, Exchange, E8, E9
    <2>4. E14' /\ HB1'
      BY <1>2, <1>3 DEF Kept, Exchange, E14, HB1
    <2> QED BY <2>1, <2>2, <2>3, <2>4 DEF Exchange
  <1>7. Pairing'
    BY <1>1, Db0Pairing DEF Kept
  <1> QED BY <1>6, <1>7, MovesKept DEF Db0Written

LEMMA KeepsWriteDb0 ==
    ASSUME TypeInv, Kept, WriteDb0
    PROVE  Kept'
  <1>1. Db0Written
    BY WritesDb0
  <1>2. GNext(G1, G2, G3, registered, Interlock) /\ G1[1] = "Write0"
        /\ G1[2][1] \in {Cmes, {"qm"}, {"sib"}}
    BY <1>1, HeadForms DEF Db0Written, Kept, GNext
  <1>3. CASE G1[2][1] = {"sib"}
    BY <1>1, <1>3, WriteDb0Sibling
  <1>4. CASE G1[2][1] # {"sib"}
    <2>1. "qm" \in G1[2][1]
      BY <1>2, <1>4 DEF Cmes
    <2>2. /\ ~Due /\ ~AckDue /\ ~Db0Due /\ ~RegHead /\ ~Db3Due
          /\ registered => type4 = "none" /\ ~HasReg
          /\ RegDue /\ "ENABLED" \in flags["qm"] => Msg0 \in RegMsgs
          /\ Q1[1] = "RegisterDb0" => RegDue
          /\ \A m : ~HalfM(m)'
      BY <1>1, <2>1, WriteDb0Before
    <2>3. /\ HasReg' <=> HasReg
          /\ RegDue' <=> RegDue
          /\ AckDue' <=> AckDue
          /\ Interlock' <=> Interlock
          /\ Q1' = Q1 /\ RQ' = RQ /\ Msg0' = G1[2][2].msg /\ db3' = db3
          /\ UNCHANGED <<flags, alive, type4, registered, mode>>
          /\ alive /\ G1' = G2 /\ G2' = G3
      BY <1>1, <2>1, MovesViews DEF Db0Written, PgpeMoves, GPops
    <2>4. /\ \A b \in {"DB3", "HB"} : /\ b \in eisr'["qm"] <=> b \in eisr["qm"]
                                      /\ b \in eisr'["sib"] <=> b \in eisr["sib"]
      BY <1>1 DEF Bits, Db0Written
    <2>5. ~AckDue' /\ ~Db3Due'
      BY <2>2, <2>3, <2>4 DEF Db3Due
    <2>6. CASE ~registered
      <3>1. /\ G1[2][1] = Cmes /\ Msg0' = "GLB" /\ G1' = End
            /\ mode = (IF Interlock THEN "active" ELSE "stopped")
            /\ \A c \in Cmes : eisr[c] \intersect {"DB3", "HB"} = {}
            /\ HasReg \/ RegDue
            /\ "ENABLED" \notin flags["qm"] /\ Interlock
        BY <1>1, <2>3, <2>6 DEF Kept, Exchange, E5, Db0Written
      <3>2. ~Db0Due' /\ ~RegHead'
        BY <2>3, <3>1 DEF Db0Due, RegHead, RegMsgs
      <3>3. E1'
        BY <2>5, <3>2 DEF E1, Due
      <3>4. \A c \in Cmes : eisr'[c] \intersect {"DB3", "HB"} = {}
        BY <2>4, <3>1 DEF Cmes
      <3>5. E5'
        BY <2>3, <2>6, <3>1, <3>4 DEF E5
      <3>6. E11' /\ E13'
        BY <2>3, <3>1 DEF E11, E13
      <3> QED BY <1>1, <2>1, <3>3, <3>5, <3>6, WriteDb0Qm
    <2>7. CASE registered /\ G1[2][2].msg = "PAYLOAD"
      <3>1. /\ G1'[1] = "Write3" /\ G1'[2][1] = "qm" /\ G1'[2][2] # "SUSPEND"
        BY <1>2, <2>1, <2>3, <2>7 DEF GNext
      <3>2. "DB0" \in eisr'["qm"] => "DB0" \in eisr["qm"]
        BY <1>1, <2>7 DEF Db0Written
      <3>3. "PAYLOAD" \notin RegMsgs
        BY DEF RegMsgs
      <3>4. ~Db0Due' /\ ~RegHead'
        BY <2>2, <2>3, <2>7, <3>2, <3>3 DEF Db0Due, RegHead
      <3>5. E1' /\ E5'
        BY <2>3, <2>5, <2>7, <3>4 DEF E1, Due, E5
      <3>6. E11'
        BY <2>5, <3>1 DEF E11, WriteNext
      <3>7. E13'
        BY <2>3, <2>7, <3>3 DEF E13
      <3> QED BY <1>1, <2>1, <3>5, <3>6, <3>7, WriteDb0Qm
    <2>8. CASE registered /\ G1[2][2].msg # "PAYLOAD"
      <3>1. G1'[1] = "AwaitAck"
        BY <1>2, <2>1, <2>3, <2>8 DEF GNext
      <3>2. Awaiting'
        BY <2>2, <2>3, <2>8, <3>1 DEF Awaiting
      <3>3. E1' /\ E5' /\ E11'
        BY <2>3, <2>5, <2>8, <3>2 DEF E1, E5, E11
      <3>4. ~(Q1[1] = "RegisterDb0" /\ "ENABLED" \in flags["qm"])
        BY <2>2 DEF RegHead
      <3>5. E13'
        BY <2>3, <3>4 DEF E13
      <3> QED BY <1>1, <2>1, <3>3, <3>5, WriteDb0Qm
    <2> QED BY <2>6, <2>7, <2>8
  <1> QED BY <1>3, <1>4

(* Doorbell 3, m to c.                                                     *)
Db3Posted(c, m) ==
    /\ PgpeMoves /\ GPops /\ Writes3(G1, c, m)
    /\ GNext(G1, G2, G3, registered, Interlock)
    /\ GForm(todo["pgpe"], registered, Interlock)'
    /\ registered /\ type4 = "none" /\ ~HasReg
    /\ db0' = db0 /\ ("DB0" \in eisr'["qm"] <=> "DB0" \in eisr["qm"])
    /\ c = "qm" => /\ db3'["qm"] = m /\ "DB3" \in eisr'["qm"]
                   /\ db3'["sib"] = db3["sib"]
                   /\ "DB3" \in eisr'["sib"] <=> "DB3" \in eisr["sib"]
    /\ c = "sib" => /\ db3'["sib"] = m /\ "DB3" \in eisr'["sib"]
                    /\ db3'["qm"] = db3["qm"]
                    /\ "DB3" \in eisr'["qm"] <=> "DB3" \in eisr["qm"]

LEMMA WritesDb3 ==
    ASSUME TypeInv, Kept, WriteDb3
    PROVE  \E c \in Cmes, m \in Db3Messages : Db3Posted(c, m)
  <1>1. /\ At("pgpe", "Write3") /\ Continue("pgpe") /\ alive
        /\ UNCHANGED <<ticks, icrr, skipLock, flags, alive, type4, registered, mode, db0>>
    BY DEF WriteDb3, PgpeAt, Running, cmeVars, sysVars, pgpeVars
  <1>2. /\ GPops /\ QSame /\ SSame
        /\ GForm(todo'["pgpe"], registered, Interlock)
        /\ G1 \in Steps /\ G1[1] = "Write3" /\ G1[2] = Argument("pgpe") /\ G1 # End
    BY <1>1, GContinues, NoEnd DEF Kept
  <1>3. PICK c \in Cmes, m \in Db3Messages : c = G1[2][1] /\ m = G1[2][2]
    BY <1>2, Arguments
  <1>4. db3' = [db3 EXCEPT ![c] = m] /\ eisr' = Raising(c, "DB3", eisr)
    BY <1>2, <1>3 DEF WriteDb3
  <1>5. "qm" \in Cmes /\ "sib" \in Cmes /\ "qm" # "sib" /\ (c = "qm" \/ c = "sib")
    BY DEF Cmes
  <1>6. db3 \in [Cmes -> Db3Messages \union {"NONE"}] /\ eisr \in [Cmes -> SUBSET Bits]
    BY DEF TypeInv, DoorbellType, IrqType
  <1>7. /\ eisr'["qm"] = IF c = "qm" THEN eisr["qm"] \union {"DB3"} ELSE eisr["qm"]
        /\ eisr'["sib"] = IF c = "sib" THEN eisr["sib"] \union {"DB3"} ELSE eisr["sib"]
    BY <1>4, <1>5, <1>6 DEF Raising
  <1>8. /\ db3'["qm"] = IF c = "qm" THEN m ELSE db3["qm"]
        /\ db3'["sib"] = IF c = "sib" THEN m ELSE db3["sib"]
    BY <1>4, <1>5, <1>6
  <1>9. PgpeMoves
    <2>1. "DB3" \notin Signals \union {"ACK", "RECVD"}
      BY DEF Signals
    <2>2. SameInterCme
      BY <1>7, <2>1 DEF SameInterCme
    <2> QED BY <1>1, <1>2, <1>7, <2>2 DEF PgpeMoves
  <1>10. GForm(todo["pgpe"], registered, Interlock)'
    BY <1>1, <1>2 DEF Interlock
  <1>11. GNext(G1, G2, G3, registered, Interlock)
    BY <1>2, HeadForms DEF Kept
  <1>12. registered /\ type4 = "none" /\ ~HasReg
    BY <1>2 DEF Kept, Exchange, E5, E2, E2a, E6
  <1>13. "DB0" \in eisr'["qm"] <=> "DB0" \in eisr["qm"]
    BY <1>7
  <1>14. Writes3(G1, c, m)
    BY <1>2, <1>3 DEF Writes3
  <1>15. c = "qm" => /\ db3'["qm"] = m /\ "DB3" \in eisr'["qm"]
                     /\ db3'["sib"] = db3["sib"]
                     /\ "DB3" \in eisr'["sib"] <=> "DB3" \in eisr["sib"]
    BY <1>5, <1>7, <1>8
  <1>16. c = "sib" => /\ db3'["sib"] = m /\ "DB3" \in eisr'["sib"]
                      /\ db3'["qm"] = db3["qm"]
                      /\ "DB3" \in eisr'["qm"] <=> "DB3" \in eisr["qm"]
    BY <1>5, <1>7, <1>8
  <1>17. Db3Posted(c, m)
    BY <1>1, <1>2, <1>9, <1>10, <1>11, <1>12, <1>13, <1>14, <1>15, <1>16 DEF Db3Posted
  <1> QED BY <1>17

LEMMA Db3Frame ==
    ASSUME TypeInv, Kept, NEW c, NEW m, Db3Posted(c, m), E1', E4', E11', Pairing'
    PROVE  Kept'
  <1>1. /\ HasReg' <=> HasReg
        /\ RegDue' <=> RegDue
        /\ AckDue' <=> AckDue
        /\ In2Due' <=> In2Due
        /\ Interlock' <=> Interlock
        /\ Q1' = Q1 /\ RQ' = RQ /\ Msg0' = Msg0
        /\ UNCHANGED <<flags, alive, type4, registered, mode>>
        /\ alive /\ registered /\ type4 = "none" /\ ~HasReg
        /\ "DB0" \in eisr'["qm"] <=> "DB0" \in eisr["qm"]
        /\ "HB" \in eisr'["qm"] <=> "HB" \in eisr["qm"]
        /\ "HB" \in eisr'["sib"] <=> "HB" \in eisr["sib"]
    BY MovesViews DEF Db3Posted, PgpeMoves, Msg0
  <1>2. E2' /\ E2a' /\ E5' /\ E6'
    BY <1>1 DEF E2, E2a, E5, E6
  <1>3. E3' /\ E8' /\ E9'
    BY <1>1 DEF Kept, Exchange, E3, E8, E9
  <1>4. E12' /\ E13' /\ E14' /\ HB1'
    BY <1>1 DEF Kept, Exchange, E12, E13, E14, HB1
  <1>5. Exchange'
    BY <1>2, <1>3, <1>4 DEF Exchange
  <1> QED BY <1>5, MovesKept DEF Db3Posted

LEMMA Db3Views ==
    ASSUME NEW c, NEW m, Db3Posted(c, m)
    PROVE  /\ AckDue' <=> AckDue
           /\ Db0Due' <=> Db0Due
           /\ RegHead' <=> RegHead
           /\ RegDue' <=> RegDue
           /\ UNCHANGED <<flags, alive, type4, registered, mode>>
           /\ Msg0' = Msg0 /\ G1' = G2 /\ G2' = G3
           /\ \A k : (QOpen(k)' <=> QOpen(k)) /\ (SOpen(k)' <=> SOpen(k))
           /\ QClipMid' <=> QClipMid
           /\ QHbMid' <=> QHbMid
           /\ SClipMid' <=> SClipMid
           /\ SHbMid' <=> SHbMid
           /\ SPend("hb")' <=> SPend("hb")
           /\ QPend("hb")' <=> QPend("hb")
           /\ ~Awaiting
  <1>1. /\ HasReg' <=> HasReg
        /\ RegDue' <=> RegDue
        /\ AckDue' <=> AckDue
        /\ Q1' = Q1 /\ Msg0' = Msg0
        /\ UNCHANGED <<flags, alive, type4, registered, mode>>
        /\ "DB0" \in eisr'["qm"] <=> "DB0" \in eisr["qm"]
        /\ "HB" \in eisr'["qm"] <=> "HB" \in eisr["qm"]
        /\ "HB" \in eisr'["sib"] <=> "HB" \in eisr["sib"]
        /\ G1' = G2 /\ G2' = G3 /\ G1[1] = "Write3"
    BY MovesViews DEF Db3Posted, PgpeMoves, Msg0, GPops, Writes3
  <1>2. (Db0Due' <=> Db0Due) /\ (RegHead' <=> RegHead)
    BY <1>1 DEF Db0Due, RegHead
  <1>3. (SPend("hb")' <=> SPend("hb")) /\ (QPend("hb")' <=> QPend("hb"))
    BY <1>1 DEF SPend, QPend
  <1>4. ~Awaiting
    BY <1>1 DEF Awaiting
  <1> QED BY <1>1, <1>2, <1>3, <1>4, MovesViews DEF Db3Posted

(* SUSPEND starts no exchange.                                             *)
LEMMA PostsSuspend ==
    ASSUME TypeInv, Kept, NEW c \in Cmes, Db3Posted(c, "SUSPEND")
    PROVE  Kept'
  <1>1. /\ AckDue' <=> AckDue
        /\ Db0Due' <=> Db0Due
        /\ RegHead' <=> RegHead
        /\ RegDue' <=> RegDue
        /\ UNCHANGED <<flags, alive, type4, registered, mode>>
        /\ Msg0' = Msg0 /\ G1' = G2 /\ G2' = G3
        /\ \A k : (QOpen(k)' <=> QOpen(k)) /\ (SOpen(k)' <=> SOpen(k))
        /\ QClipMid' <=> QClipMid
        /\ QHbMid' <=> QHbMid
        /\ SClipMid' <=> SClipMid
        /\ SHbMid' <=> SHbMid
        /\ SPend("hb")' <=> SPend("hb")
        /\ QPend("hb")' <=> QPend("hb")
        /\ ~Awaiting
    BY Db3Views
  <1>2. c = "qm" \/ c = "sib"
    BY DEF Cmes
  <1>3. G1[1] = "Write3" /\ G1[2][1] = c /\ G1[2][2] = "SUSPEND"
        /\ GNext(G1, G2, G3, registered, Interlock)
    BY DEF Db3Posted, Writes3
  <1>4. ~Half /\ ~WriteNext
    BY <1>3 DEF Half, HalfM, Writes3, WriteNext
  <1>5. ~Due /\ (RegDue /\ "ENABLED" \in flags["qm"] => Msg0 \in RegMsgs)
    BY <1>1, <1>4 DEF Kept, Exchange, E1, E11
  <1>6. ~AckDue /\ ~Db0Due /\ ~RegHead /\ ~Db3Due
    BY <1>5 DEF Due
  <1>7. ~Db3Due'
    BY <1>2, <1>6 DEF Db3Due, Db3Posted
  <1>8. E1' /\ E4' /\ E11'
    BY <1>1, <1>5, <1>6, <1>7 DEF E1, E4, E11, Due
  <1>9. \A m : ~HalfM(m)'
    <2>1. ASSUME NEW m, m # "SUSPEND" PROVE ~Writes3(G2, "sib", m)
      BY <1>3, <2>1 DEF GNext, Writes3
    <2>2. ~(G2[1] = "Write0" /\ G2[2][1] = {"sib"})
      BY <1>3 DEF GNext
    <2> QED BY <1>1, <2>1, <2>2 DEF HalfM
  <1>10. \A k \in Ks \ {"hb"} : ~QPend(k)
    BY <1>6 DEF QPend, Db3Due, Ks, Reason
  <1>11. \A k \in Ks : SPend(k)' => SPend(k)
    BY <1>1, <1>2 DEF Reason, SPend, Ks, Db3Posted
  <1>12. \A k \in Ks : QPend(k) => QPend(k)'
    BY <1>1, <1>10
  <1>13. Pairing'
    <2>1. C1' /\ C2' /\ C4' /\ C5'
      BY <1>1, <1>11, <1>12 DEF Kept, Pairing, C1, C2, C4, C5
    <2>2. C3'
      BY <1>9 DEF C3
    <2> QED BY <2>1, <2>2 DEF Pairing
  <1> QED BY <1>8, <1>13, Db3Frame

(* The quad manager first: nothing is under way.                           *)
LEMMA PostsFirst ==
    ASSUME TypeInv, Kept, NEW m \in Db3Messages, m # "SUSPEND", Db3Posted("qm", m)
    PROVE  Kept'
  <1>1. /\ AckDue' <=> AckDue
        /\ Db0Due' <=> Db0Due
        /\ RegHead' <=> RegHead
        /\ RegDue' <=> RegDue
        /\ UNCHANGED <<flags, alive, type4, registered, mode>>
        /\ Msg0' = Msg0 /\ G1' = G2 /\ G2' = G3
        /\ \A k : (QOpen(k)' <=> QOpen(k)) /\ (SOpen(k)' <=> SOpen(k))
        /\ SClipMid' <=> SClipMid
        /\ SHbMid' <=> SHbMid
        /\ ~Awaiting
    BY Db3Views
  <1>2. /\ G1[1] = "Write3" /\ G1[2][1] = "qm" /\ G1[2][2] = m
        /\ GNext(G1, G2, G3, registered, Interlock)
        /\ registered /\ type4 = "none" /\ alive
        /\ db3'["qm"] = m /\ "DB3" \in eisr'["qm"] /\ db3'["sib"] = db3["sib"]
        /\ "DB3" \in eisr'["sib"] <=> "DB3" \in eisr["sib"]
        /\ "HB" \in eisr'["sib"] <=> "HB" \in eisr["sib"]
    BY DEF Db3Posted, Writes3, PgpeMoves
  <1>3. ~Half
    BY <1>2 DEF Half, HalfM, Writes3
  <1>4. ~AckDue /\ ~Db0Due /\ ~RegHead /\ ~Db3Due
    BY <1>1, <1>3 DEF Kept, Exchange, E1, Due
  <1>5. ~In2Due /\ "HB" \notin eisr["qm"]
    BY <1>2, <1>4 DEF Kept, Exchange, E9, HB1
  <1>6. (\A k \in Ks : ~QPend(k) /\ ~QOpen(k)) /\ ~QClipMid /\ ~QHbMid
    BY <1>4, <1>5, NoMeeting DEF Kept
  <1>7. (\A k \in Ks : ~SPend(k) /\ ~SOpen(k)) /\ ~SClipMid /\ ~SHbMid
    <2>1. \A k \in Ks : ~SPend(k) /\ ~SOpen(k)
      BY <1>6 DEF Kept, Pairing, C1
    <2>2. "last" \in Ks
      BY DEF Ks
    <2> QED BY <1>6, <2>1, <2>2 DEF Kept, Pairing, C2
  <1>8. /\ HalfM(m)'
        /\ \A n : HalfM(n)' => n = m
    <2>1. \/ Writes3(G2, "sib", m)
          \/ G2[1] = "Write0" /\ G2[2][1] = {"sib"} /\ Writes3(G3, "sib", m)
      BY <1>2 DEF GNext
    <2>2. CASE Writes3(G2, "sib", m)
      BY <2>2, <1>1, <1>2 DEF Writes3, HalfM
    <2>3. CASE G2[1] = "Write0" /\ G2[2][1] = {"sib"} /\ Writes3(G3, "sib", m)
      BY <1>1, <1>2, <2>3 DEF HalfM, Writes3
    <2> QED BY <2>1, <2>2, <2>3
  <1>9. Half'
    BY <1>8 DEF Ms, Db3Messages, Half
  <1>10. E1' /\ E4' /\ E11'
    BY <1>1, <1>2, <1>4, <1>9 DEF E1, E4, E11
  <1>11. \A k \in Ks : ~SPend(k)' /\ ~SOpen(k)'
    BY <1>1, <1>2, <1>7 DEF SPend
  <1>12. Pairing'
    <2>1. C1' /\ C2' /\ C4' /\ C5'
      BY <1>1, <1>7, <1>11 DEF C1, C2, C4, C5
    <2>2. C3'
      BY <1>1, <1>2, <1>7, <1>8, <1>11 DEF C3
    <2> QED BY <2>1, <2>2 DEF Pairing
  <1> QED BY <1>10, <1>12, Db3Frame

(* Then its sibling.                                                       *)
LEMMA PostsSecond ==
    ASSUME TypeInv, Kept, NEW m \in Db3Messages, m # "SUSPEND", Db3Posted("sib", m)
    PROVE  Kept'
  <1>1. /\ AckDue' <=> AckDue
        /\ Db0Due' <=> Db0Due
        /\ RegHead' <=> RegHead
        /\ RegDue' <=> RegDue
        /\ UNCHANGED <<flags, alive, type4, registered, mode>>
        /\ Msg0' = Msg0 /\ G1' = G2 /\ G2' = G3
        /\ \A k : (QOpen(k)' <=> QOpen(k)) /\ (SOpen(k)' <=> SOpen(k))
        /\ SClipMid' <=> SClipMid
        /\ SHbMid' <=> SHbMid
        /\ SPend("hb")' <=> SPend("hb")
        /\ ~Awaiting
    BY Db3Views
  <1>2. /\ G1[1] = "Write3" /\ G1[2][1] = "sib" /\ G1[2][2] = m /\ Writes3(G1, "sib", m)
        /\ GNext(G1, G2, G3, registered, Interlock)
        /\ registered /\ type4 = "none" /\ alive
        /\ db3'["sib"] = m /\ "DB3" \in eisr'["sib"] /\ db3'["qm"] = db3["qm"]
        /\ "DB3" \in eisr'["qm"] <=> "DB3" \in eisr["qm"]
        /\ "HB" \in eisr'["sib"] <=> "HB" \in eisr["sib"]
    BY DEF Db3Posted, Writes3, PgpeMoves
  <1>3. m \in Ms /\ HalfM(m)
    BY <1>2 DEF HalfM, Ms, Db3Messages
  <1>4. /\ ("DB3" \in eisr["qm"] /\ db3["qm"] = m) \/ QOpen(Reason[m])
        /\ ~SClipMid /\ ~SHbMid
        /\ \A k \in Ks : ~SPend(k) /\ ~SOpen(k)
    BY <1>3 DEF Kept, Pairing, C3
  <1>5. G2[1] = "AwaitAck" /\ Awaiting'
    BY <1>1, <1>2 DEF GNext, Awaiting
  <1>6. Db3Due' <=> Db3Due
    BY <1>2 DEF Db3Due
  <1>7. E1' /\ E4' /\ E11'
    <2>1. E4'
      BY <1>1, <1>6 DEF Kept, Exchange, E4
    <2>2. E1' /\ E11'
      BY <1>1, <1>2, <1>5 DEF Kept, Exchange, E11, E1
    <2> QED BY <2>1, <2>2
  <1>8. \A n : ~HalfM(n)'
    BY <1>1, <1>5 DEF HalfM, Writes3
  <1>9. Reason[m] \in Ks \ {"hb"}
    BY DEF Reason, Ks, Db3Messages
  <1>10. \A k \in Ks : SPend(k)' <=> k = Reason[m]
    <2>1. ~SPend("hb")'
      BY <1>1, <1>4 DEF Ks
    <2>2. \A k \in Ks \ {"hb"} : SPend(k)' <=> k = Reason[m]
      BY <1>2 DEF SPend
    <2> QED BY <1>9, <2>1, <2>2
  <1>11. QPend(Reason[m])' \/ QOpen(Reason[m])'
    BY <1>1, <1>2, <1>4, <1>9 DEF QPend
  <1>12. Pairing'
    <2>1. \A k \in Ks : ~SOpen(k)'
      BY <1>1, <1>4
    <2>2. C1'
      BY <1>10, <1>11, <2>1 DEF C1
    <2>3. C2' /\ C4' /\ C5'
      BY <1>1, <1>4, <1>10, <2>1 DEF C2, C4, C5
    <2>4. C3'
      BY <1>8 DEF C3
    <2> QED BY <2>2, <2>3, <2>4 DEF Pairing
  <1> QED BY <1>7, <1>12, Db3Frame

LEMMA KeepsWriteDb3 ==
    ASSUME TypeInv, Kept, WriteDb3
    PROVE  Kept'
  <1>1. PICK c \in Cmes, m \in Db3Messages : Db3Posted(c, m)
    BY WritesDb3
  <1>2. CASE m = "SUSPEND"
    BY <1>1, <1>2, PostsSuspend
  <1>3. CASE m # "SUSPEND" /\ c = "qm"
    BY <1>1, <1>3, PostsFirst
  <1>4. CASE m # "SUSPEND" /\ c = "sib"
    BY <1>1, <1>4, PostsSecond
  <1> QED BY <1>2, <1>3, <1>4 DEF Cmes

-----------------------------------------------------------------------------
(* The boot of the two CMEs.                                               *)
LEMMA BootSteps ==
    /\ \A k \in {"Register", "Ready", "PowerOn"} : <<k, "">> \in Steps
    /\ \A k \in {"Raise", "AwaitAnswerOrRetry", "AwaitSignal", "Answer"} :
           <<k, "IN1">> \in Steps
    /\ \A k \in {"Send", "AwaitMsgAck", "Receive"} : \A m \in {"INIT", "SYNC"} :
           <<k, m>> \in Steps
  <1>1. \A k \in PlainKinds : <<k, "">> \in Steps
    BY DEF Steps
  <1>2. \A k \in SignalKinds : \A i \in Signals : <<k, i>> \in Steps
    BY DEF Steps
  <1>3. \A k \in MsgKinds : \A m \in MsgTypes : <<k, m>> \in Steps
    BY DEF Steps
  <1>4. /\ {"Register", "Ready", "PowerOn"} \subseteq PlainKinds
        /\ {"Raise", "AwaitAnswerOrRetry", "AwaitSignal", "Answer"} \subseteq SignalKinds
        /\ "IN1" \in Signals
        /\ {"Send", "AwaitMsgAck", "Receive"} \subseteq MsgKinds
        /\ {"INIT", "SYNC"} \subseteq MsgTypes
    BY DEF PlainKinds, SignalKinds, Signals, MsgKinds, MsgTypes
  <1> QED BY <1>1, <1>2, <1>3, <1>4

(* t is s with x = <<k, a>> before it.                                     *)
Before(x, k, a, s, t) ==
    /\ x = <<k, a>> /\ x \in Steps /\ x[1] = k /\ x[2] = a
    /\ t \in Seq(Steps) /\ t = Cons(x, s)
    /\ Item(t, 1) = x /\ Item(t, 2) = Item(s, 1)
    /\ StepsOf(t) = {x} \union StepsOf(s)

LEMMA QBefore ==
    ASSUME NEW k, NEW a, <<k, a>> \in Steps, NEW s \in Seq(Steps), QForm(s),
           \A x : x[1] = k /\ x[2] = a => QNext(x, Item(s, 1), Item(s, 2)),
           \A x : x[1] = k /\ x[2] = a => \A y \in StepsOf(s) : QAfter(x, y)
    PROVE  \E x, t : Before(x, k, a, s, t) /\ QForm(t)
  <1>1. PICK x \in Steps : x = <<k, a>> /\ x[1] = k /\ x[2] = a
    OBVIOUS
  <1>2. QNext(x, Item(s, 1), Item(s, 2)) /\ \A y \in StepsOf(s) : QAfter(x, y)
    BY <1>1
  <1> QED BY <1>1, <1>2, QCons DEF Before

LEMMA SBefore ==
    ASSUME NEW k, NEW a, <<k, a>> \in Steps, NEW s \in Seq(Steps), SForm(s),
           \A x : x[1] = k /\ x[2] = a => SNext(x, Item(s, 1)),
           \A x : x[1] = k /\ x[2] = a => \A y \in StepsOf(s) : SAfter(x, y)
    PROVE  \E x, t : Before(x, k, a, s, t) /\ SForm(t)
  <1>1. PICK x \in Steps : x = <<k, a>> /\ x[1] = k /\ x[2] = a
    OBVIOUS
  <1>2. SNext(x, Item(s, 1)) /\ \A y \in StepsOf(s) : SAfter(x, y)
    BY <1>1
  <1>3. PICK t \in Seq(Steps) :
            /\ t = <<x>> \o s /\ SForm(t)
            /\ Item(t, 1) = x /\ Item(t, 2) = Item(s, 1)
            /\ StepsOf(t) = {x} \union StepsOf(s)
    BY <1>2, SCons
  <1> QED BY <1>1, <1>3 DEF Before, Cons

LEMMA BootQmForm ==
    \E t \in Seq(Steps) :
        /\ t = BootQuadManager /\ QForm(t) /\ Is(Item(t, 1), "Raise", "IN1")
        /\ \A x \in StepsOf(t) :
              x[1] \in {"Raise", "AwaitAnswerOrRetry", "Send", "AwaitMsgAck",
                        "Register", "Ready"} /\ x[2] # "LOCK" /\ x[2] # "IN2"
        /\ <<"Register", "">> \in StepsOf(t)
        /\ <<"Send", "INIT">> \in StepsOf(t) /\ <<"Send", "SYNC">> \in StepsOf(t)
  <1>0. PICK e \in Seq(Steps) : /\ e = <<>> /\ QForm(e) /\ StepsOf(e) = {}
                                /\ Item(e, 1) = End /\ Item(e, 2) = End
    BY QEmpty
  <1>1. PICK x8, s8 : Before(x8, "Ready", "", e, s8) /\ QForm(s8)
    <2>1. <<"Ready", "">> \in Steps
      BY BootSteps
    <2>2. \A x : x[1] = "Ready" /\ x[2] = "" => QNext(x, Item(e, 1), Item(e, 2))
      BY <1>0, NoEnd DEF QNext, QThen, QWhence, QClip, In2, QmKinds, AnswerKinds
    <2> QED BY <1>0, <2>1, <2>2, QBefore
  <1>2. PICK x7, s7 : Before(x7, "AwaitMsgAck", "SYNC", s8, s7) /\ QForm(s7)
    <2>1. <<"AwaitMsgAck", "SYNC">> \in Steps
      BY BootSteps
    <2>2. /\ s8 \in Seq(Steps) /\ Item(s8, 1)[1] = "Ready" /\ Item(s8, 2) = End
          /\ \A y \in StepsOf(s8) : y[1] = "Ready"
      BY <1>0, <1>1 DEF Before
    <2>3. \A x : x[1] = "AwaitMsgAck" /\ x[2] = "SYNC" => QNext(x, Item(s8, 1), Item(s8, 2))
      BY <2>2, NoEnd DEF QNext, QThen, QWhence, QClip, In2, QmKinds, AnswerKinds
    <2>4. \A x : x[1] = "AwaitMsgAck" /\ x[2] = "SYNC" => \A y \in StepsOf(s8) : QAfter(x, y)
      BY <2>2 DEF QAfter, In2, Is, AckKinds
    <2> QED BY <1>1, <2>1, <2>2, <2>3, <2>4, QBefore
  <1>3. PICK x6, s6 : Before(x6, "Send", "SYNC", s7, s6) /\ QForm(s6)
    <2>1. <<"Send", "SYNC">> \in Steps
      BY BootSteps
    <2>2. /\ s7 \in Seq(Steps) /\ Item(s7, 1)[1] = "AwaitMsgAck" /\ Item(s7, 1)[2] = "SYNC"
          /\ Item(s7, 2)[1] = "Ready"
          /\ \A y \in StepsOf(s7) : y[1] \in {"Ready", "AwaitMsgAck"}
      BY <1>0, <1>1, <1>2 DEF Before
    <2>3. \A x : x[1] = "Send" /\ x[2] = "SYNC" => QNext(x, Item(s7, 1), Item(s7, 2))
      BY <2>2 DEF QNext, QThen, QWhence, QClip, In2, QmKinds, AnswerKinds
    <2>4. \A x : x[1] = "Send" /\ x[2] = "SYNC" => \A y \in StepsOf(s7) : QAfter(x, y)
      BY <2>2 DEF QAfter, In2, Is, AckKinds
    <2> QED BY <1>2, <2>1, <2>2, <2>3, <2>4, QBefore
  <1>4. PICK x5, s5 : Before(x5, "Register", "", s6, s5) /\ QForm(s5)
    <2>1. <<"Register", "">> \in Steps
      BY BootSteps
    <2>2. /\ s6 \in Seq(Steps) /\ Item(s6, 1)[1] = "Send" /\ Item(s6, 1)[2] = "SYNC"
          /\ Item(s6, 2)[1] = "AwaitMsgAck"
          /\ \A y \in StepsOf(s6) :
                y[1] = "Ready" \/ (y[1] \in {"Send", "AwaitMsgAck"} /\ y[2] = "SYNC")
      BY <1>0, <1>1, <1>2, <1>3 DEF Before
    <2>3. \A x : x[1] = "Register" /\ x[2] = "" => QNext(x, Item(s6, 1), Item(s6, 2))
      BY <2>2 DEF QNext, QThen, QWhence, QClip, In2, QmKinds, AnswerKinds
    <2>4. \A x : x[1] = "Register" /\ x[2] = "" => \A y \in StepsOf(s6) : QAfter(x, y)
      BY <2>2 DEF QAfter, In2, Is, AckKinds, Finale
    <2> QED BY <1>3, <2>1, <2>2, <2>3, <2>4, QBefore
  <1>5. /\ s5 \in Seq(Steps) /\ Item(s5, 1)[1] = "Register"
        /\ Item(s5, 2)[1] = "Send"
        /\ \A y \in StepsOf(s5) :
              y[1] \in {"Ready", "Register"} \/ (y[1] \in {"Send", "AwaitMsgAck"} /\ y[2] = "SYNC")
    BY <1>0, <1>1, <1>2, <1>3, <1>4, ZenonT(60) DEF Before
  <1>6. PICK x4, s4 : Before(x4, "AwaitMsgAck", "INIT", s5, s4) /\ QForm(s4)
    <2>1. <<"AwaitMsgAck", "INIT">> \in Steps
      BY BootSteps
    <2>3. \A x : x[1] = "AwaitMsgAck" /\ x[2] = "INIT" => QNext(x, Item(s5, 1), Item(s5, 2))
      BY <1>5 DEF QNext, QThen, QWhence, QClip, In2, QmKinds, AnswerKinds
    <2>4. \A x : x[1] = "AwaitMsgAck" /\ x[2] = "INIT" => \A y \in StepsOf(s5) : QAfter(x, y)
      BY <1>5 DEF QAfter, In2, Is, AckKinds, Prelude
    <2> QED BY <1>4, <1>5, <2>1, <2>3, <2>4, QBefore
  <1>7. /\ s4 \in Seq(Steps) /\ Item(s4, 1)[1] = "AwaitMsgAck" /\ Item(s4, 1)[2] = "INIT"
        /\ Item(s4, 2)[1] = "Register"
        /\ \A y \in StepsOf(s4) :
              \/ y[1] \in {"Ready", "Register"}
              \/ y[1] = "Send" /\ y[2] = "SYNC"
              \/ y[1] = "AwaitMsgAck" /\ y[2] \in {"INIT", "SYNC"}
    BY <1>5, <1>6 DEF Before
  <1>8. PICK x3, s3 : Before(x3, "Send", "INIT", s4, s3) /\ QForm(s3)
    <2>1. <<"Send", "INIT">> \in Steps
      BY BootSteps
    <2>3. \A x : x[1] = "Send" /\ x[2] = "INIT" => QNext(x, Item(s4, 1), Item(s4, 2))
      BY <1>7 DEF QNext, QThen, QWhence, QClip, In2, QmKinds, AnswerKinds
    <2>4. \A x : x[1] = "Send" /\ x[2] = "INIT" => \A y \in StepsOf(s4) : QAfter(x, y)
      BY <1>7 DEF QAfter, In2, Is, AckKinds, Prelude
    <2> QED BY <1>6, <1>7, <2>1, <2>3, <2>4, QBefore
  <1>9. /\ s3 \in Seq(Steps) /\ Item(s3, 1)[1] = "Send" /\ Item(s3, 1)[2] = "INIT"
        /\ Item(s3, 2)[1] = "AwaitMsgAck" /\ Item(s3, 2)[2] = "INIT"
        /\ \A y \in StepsOf(s3) :
              \/ y[1] \in {"Ready", "Register"}
              \/ y[1] \in {"Send", "AwaitMsgAck"} /\ y[2] \in {"INIT", "SYNC"}
    BY <1>7, <1>8 DEF Before
  <1>10. PICK x2, s2 : Before(x2, "AwaitAnswerOrRetry", "IN1", s3, s2) /\ QForm(s2)
    <2>1. <<"AwaitAnswerOrRetry", "IN1">> \in Steps
      BY BootSteps
    <2>3. \A x : x[1] = "AwaitAnswerOrRetry" /\ x[2] = "IN1" => QNext(x, Item(s3, 1), Item(s3, 2))
      BY <1>9 DEF QNext, QThen, QWhence, QClip, In2, QmKinds, AnswerKinds
    <2>4. \A x : x[1] = "AwaitAnswerOrRetry" /\ x[2] = "IN1" => \A y \in StepsOf(s3) : QAfter(x, y)
      BY <1>9 DEF QAfter, In2, Is, AckKinds, Prelude
    <2> QED BY <1>8, <1>9, <2>1, <2>3, <2>4, QBefore
  <1>11. /\ s2 \in Seq(Steps) /\ Item(s2, 1)[1] = "AwaitAnswerOrRetry" /\ Item(s2, 1)[2] = "IN1"
         /\ Item(s2, 2)[1] = "Send" /\ Item(s2, 2)[2] = "INIT"
         /\ \A y \in StepsOf(s2) :
              \/ y[1] \in {"Ready", "Register"}
              \/ y[1] \in {"Send", "AwaitMsgAck"} /\ y[2] \in {"INIT", "SYNC"}
              \/ y[1] = "AwaitAnswerOrRetry" /\ y[2] = "IN1"
    BY <1>9, <1>10 DEF Before
  <1>12. PICK x1, s1 : Before(x1, "Raise", "IN1", s2, s1) /\ QForm(s1)
    <2>1. <<"Raise", "IN1">> \in Steps
      BY BootSteps
    <2>3. \A x : x[1] = "Raise" /\ x[2] = "IN1" => QNext(x, Item(s2, 1), Item(s2, 2))
      BY <1>11 DEF QNext, QThen, QWhence, QClip, In2, QmKinds, AnswerKinds
    <2>4. \A x : x[1] = "Raise" /\ x[2] = "IN1" => \A y \in StepsOf(s2) : QAfter(x, y)
      BY <1>11 DEF QAfter, In2, Is, AckKinds, Prelude
    <2> QED BY <1>10, <1>11, <2>1, <2>3, <2>4, QBefore
  <1>13. s1 = BootQuadManager
    <2>1. PICK b, c, d, f, g \in Seq(Steps) :
              /\ b = <<<<"Raise", "IN1">>, <<"AwaitAnswerOrRetry", "IN1">>>>
              /\ c = MsgSend("INIT") /\ d = Step("Register") /\ f = MsgSend("SYNC")
              /\ g = Step("Ready")
      <3>1. MsgSend("INIT") \in Seq(Steps) /\ MsgSend("SYNC") \in Seq(Steps)
        BY PlainSteps DEF MsgTypes
      <3>2. Step("Register") \in Seq(Steps) /\ Step("Ready") \in Seq(Steps)
        BY PlainSteps DEF PlainKinds
      <3>3. <<"Raise", "IN1">> \in Steps /\ <<"AwaitAnswerOrRetry", "IN1">> \in Steps
        BY BootSteps
      <3> QED BY <3>1, <3>2, <3>3, TwoSteps
    <2>2. BootQuadManager = Join(Join(Join(Join(b, c), d), f), g)
      BY <2>1 DEF BootQuadManager, Join
    <2>3. BootQuadManager = Join(b, Join(c, Join(d, Join(f, g))))
      BY <2>2, Join5
    <2>4. g = s8
      <3>1. s8 = Cons(<<"Ready", "">>, <<>>)
        BY <1>0, <1>1 DEF Before
      <3>2. Cons(<<"Ready", "">>, <<>>) = <<<<"Ready", "">>>>
        <4>1. <<<<"Ready", "">>>> \in Seq(Steps)
          BY BootSteps, OneStep
        <4> QED BY <1>0, <4>1, Concat DEF Cons
      <3> QED BY <2>1, <3>1, <3>2 DEF Step
    <2>5. Join(f, s8) = s6
      <3>1. MsgSend("SYNC") \o s8 = Cons(<<"Send", "SYNC">>, Cons(<<"AwaitMsgAck", "SYNC">>, s8))
        BY <1>1, ScriptChains DEF Before, MsgTypes
      <3> QED BY <1>2, <1>3, <2>1, <3>1 DEF Before, Join
    <2>6. Join(d, s6) = s5
      <3>1. Step("Register") \o s6 = Cons(<<"Register", "">>, s6)
        BY <1>3, ScriptChains DEF Before, PlainKinds
      <3> QED BY <1>4, <2>1, <3>1 DEF Before, Join
    <2>7. Join(c, s5) = s3
      <3>1. MsgSend("INIT") \o s5 = Cons(<<"Send", "INIT">>, Cons(<<"AwaitMsgAck", "INIT">>, s5))
        BY <1>4, ScriptChains DEF Before, MsgTypes
      <3> QED BY <1>6, <1>8, <2>1, <3>1 DEF Before, Join
    <2>8. Join(b, s3) = s1
      <3>1. b \o s3 = Cons(<<"Raise", "IN1">>, Cons(<<"AwaitAnswerOrRetry", "IN1">>, s3))
        <4>1. <<"Raise", "IN1">> \in Steps /\ <<"AwaitAnswerOrRetry", "IN1">> \in Steps
          BY BootSteps
        <4> QED BY <1>9, <2>1, <4>1, TwoCons, ZenonT(120)
      <3> QED BY <1>10, <1>12, <3>1 DEF Before, Join
    <2> QED BY <2>3, <2>4, <2>5, <2>6, <2>7, <2>8
  <1>14. StepsOf(s1) = {x1} \union StepsOf(s2) /\ Item(s1, 1) = x1 /\ s1 \in Seq(Steps)
         /\ x1[1] = "Raise" /\ x1[2] = "IN1"
    BY <1>12 DEF Before
  <1>15. <<"Register", "">> \in StepsOf(s5) /\ <<"Send", "SYNC">> \in StepsOf(s6)
         /\ <<"Send", "INIT">> \in StepsOf(s3)
    BY <1>3, <1>4, <1>8 DEF Before
  <1>16. /\ StepsOf(s6) \subseteq StepsOf(s5) /\ StepsOf(s5) \subseteq StepsOf(s4)
         /\ StepsOf(s4) \subseteq StepsOf(s3) /\ StepsOf(s3) \subseteq StepsOf(s2)
         /\ StepsOf(s2) \subseteq StepsOf(s1)
    BY <1>4, <1>6, <1>8, <1>10, <1>12 DEF Before
  <1>17. \A x \in StepsOf(s1) :
              x[1] \in {"Raise", "AwaitAnswerOrRetry", "Send", "AwaitMsgAck",
                        "Register", "Ready"}
    BY <1>11, <1>14
  <1>18. \A x \in StepsOf(s1) : x[2] # "LOCK" /\ x[2] # "IN2"
    <2>1. x8[2] = "" /\ x7[2] = "SYNC" /\ x6[2] = "SYNC" /\ x5[2] = "" /\ x4[2] = "INIT"
          /\ x3[2] = "INIT" /\ x2[2] = "IN1" /\ x1[2] = "IN1"
      BY <1>1, <1>2, <1>3, <1>4, <1>6, <1>8, <1>10, <1>12 DEF Before
    <2>2. StepsOf(s5) = {x5, x6, x7, x8}
      BY <1>0, <1>1, <1>2, <1>3, <1>4 DEF Before
    <2>3. StepsOf(s1) = {x1, x2, x3, x4} \union StepsOf(s5)
      BY <1>6, <1>8, <1>10, <1>12 DEF Before
    <2> QED BY <2>1, <2>2, <2>3
  <1>19. <<"Register", "">> \in StepsOf(s1) /\ <<"Send", "INIT">> \in StepsOf(s1)
         /\ <<"Send", "SYNC">> \in StepsOf(s1)
    BY <1>15, <1>16
  <1> QED BY <1>12, <1>13, <1>14, <1>17, <1>18, <1>19 DEF Is

LEMMA BootSibForm ==
    \E t \in Seq(Steps) :
        /\ t = BootSibling /\ SForm(t) /\ Item(t, 1)[1] = "PowerOn"
        /\ \A x \in StepsOf(t) : x[2] # "LOCK"
        /\ <<"Register", "">> \in StepsOf(t)
        /\ <<"Receive", "INIT">> \in StepsOf(t) /\ <<"Receive", "SYNC">> \in StepsOf(t)
  <1>0. PICK e \in Seq(Steps) : /\ e = <<>> /\ SForm(e) /\ StepsOf(e) = {}
                                /\ Item(e, 1) = End
    BY SEmpty
  <1>1. PICK x7, s7 : Before(x7, "Ready", "", e, s7) /\ SForm(s7)
    <2>1. <<"Ready", "">> \in Steps
      BY BootSteps
    <2>2. \A x : x[1] = "Ready" /\ x[2] = "" => SNext(x, Item(e, 1))
      BY <1>0, NoEnd DEF SNext, SibKinds
    <2> QED BY <1>0, <2>1, <2>2, SBefore
  <1>2. /\ s7 \in Seq(Steps) /\ Item(s7, 1)[1] = "Ready"
        /\ \A y \in StepsOf(s7) : y[1] = "Ready"
    BY <1>0, <1>1 DEF Before
  <1>3. PICK x6, s6 : Before(x6, "Receive", "SYNC", s7, s6) /\ SForm(s6)
    <2>1. <<"Receive", "SYNC">> \in Steps
      BY BootSteps
    <2>2. \A x : x[1] = "Receive" /\ x[2] = "SYNC" => SNext(x, Item(s7, 1))
      BY <1>2 DEF SNext, SibKinds
    <2>3. \A x : x[1] = "Receive" /\ x[2] = "SYNC" => \A y \in StepsOf(s7) : SAfter(x, y)
      BY <1>2 DEF SAfter
    <2> QED BY <1>1, <1>2, <2>1, <2>2, <2>3, SBefore
  <1>4. /\ s6 \in Seq(Steps) /\ Item(s6, 1)[1] = "Receive" /\ Item(s6, 1)[2] = "SYNC"
        /\ \A y \in StepsOf(s6) : y[1] = "Ready" \/ (y[1] = "Receive" /\ y[2] = "SYNC")
    BY <1>2, <1>3 DEF Before
  <1>5. PICK x5, s5 : Before(x5, "Register", "", s6, s5) /\ SForm(s5)
    <2>1. <<"Register", "">> \in Steps
      BY BootSteps
    <2>2. \A x : x[1] = "Register" /\ x[2] = "" => SNext(x, Item(s6, 1))
      BY <1>4 DEF SNext, SibKinds
    <2>3. \A x : x[1] = "Register" /\ x[2] = "" => \A y \in StepsOf(s6) : SAfter(x, y)
      BY <1>4 DEF SAfter
    <2> QED BY <1>3, <1>4, <2>1, <2>2, <2>3, SBefore
  <1>6. /\ s5 \in Seq(Steps) /\ Item(s5, 1)[1] = "Register"
        /\ \A y \in StepsOf(s5) :
              y[1] \in {"Ready", "Register"} \/ (y[1] = "Receive" /\ y[2] = "SYNC")
    BY <1>4, <1>5 DEF Before
  <1>7. PICK x4, s4 : Before(x4, "Receive", "INIT", s5, s4) /\ SForm(s4)
    <2>1. <<"Receive", "INIT">> \in Steps
      BY BootSteps
    <2>2. \A x : x[1] = "Receive" /\ x[2] = "INIT" => SNext(x, Item(s5, 1))
      BY <1>6 DEF SNext, SibKinds
    <2>3. \A x : x[1] = "Receive" /\ x[2] = "INIT" => \A y \in StepsOf(s5) : SAfter(x, y)
      BY <1>6 DEF SAfter
    <2> QED BY <1>5, <1>6, <2>1, <2>2, <2>3, SBefore
  <1>8. /\ s4 \in Seq(Steps) /\ Item(s4, 1)[1] = "Receive"
        /\ \A y \in StepsOf(s4) : y[1] \in {"Ready", "Register", "Receive"}
    BY <1>6, <1>7 DEF Before
  <1>9. PICK x3, s3 : Before(x3, "Answer", "IN1", s4, s3) /\ SForm(s3)
    <2>1. <<"Answer", "IN1">> \in Steps
      BY BootSteps
    <2>2. \A x : x[1] = "Answer" /\ x[2] = "IN1" => SNext(x, Item(s4, 1))
      BY <1>8 DEF SNext, SibKinds
    <2>3. \A x : x[1] = "Answer" /\ x[2] = "IN1" => \A y \in StepsOf(s4) : SAfter(x, y)
      BY <1>8 DEF SAfter
    <2> QED BY <1>7, <1>8, <2>1, <2>2, <2>3, SBefore
  <1>10. /\ s3 \in Seq(Steps) /\ Item(s3, 1)[1] = "Answer" /\ Item(s3, 1)[2] = "IN1"
         /\ \A y \in StepsOf(s3) : y[1] \in {"Ready", "Register", "Receive", "Answer"}
    BY <1>8, <1>9 DEF Before
  <1>11. PICK x2, s2 : Before(x2, "AwaitSignal", "IN1", s3, s2) /\ SForm(s2)
    <2>1. <<"AwaitSignal", "IN1">> \in Steps
      BY BootSteps
    <2>2. \A x : x[1] = "AwaitSignal" /\ x[2] = "IN1" => SNext(x, Item(s3, 1))
      BY <1>10 DEF SNext, SibKinds
    <2>3. \A x : x[1] = "AwaitSignal" /\ x[2] = "IN1" => \A y \in StepsOf(s3) : SAfter(x, y)
      BY <1>10 DEF SAfter
    <2> QED BY <1>9, <1>10, <2>1, <2>2, <2>3, SBefore
  <1>12. /\ s2 \in Seq(Steps) /\ Item(s2, 1)[1] = "AwaitSignal" /\ Item(s2, 1)[2] = "IN1"
         /\ \A y \in StepsOf(s2) :
               y[1] \in {"Ready", "Register", "Receive", "Answer", "AwaitSignal"}
    BY <1>10, <1>11 DEF Before
  <1>13. PICK x1, s1 : Before(x1, "PowerOn", "", s2, s1) /\ SForm(s1)
    <2>1. <<"PowerOn", "">> \in Steps
      BY BootSteps
    <2>2. \A x : x[1] = "PowerOn" /\ x[2] = "" => SNext(x, Item(s2, 1))
      BY <1>12 DEF SNext, SibKinds
    <2>3. \A x : x[1] = "PowerOn" /\ x[2] = "" => \A y \in StepsOf(s2) : SAfter(x, y)
      BY <1>12 DEF SAfter
    <2> QED BY <1>11, <1>12, <2>1, <2>2, <2>3, SBefore
  <1>14. s1 = BootSibling
    <2>1. PICK a, b, c, d, f, g \in Seq(Steps) :
              /\ a = Step("PowerOn") /\ b = Serve("IN1") /\ c = MsgRecv("INIT")
              /\ d = Step("Register") /\ f = MsgRecv("SYNC") /\ g = Step("Ready")
      <3>1. MsgRecv("INIT") \in Seq(Steps) /\ MsgRecv("SYNC") \in Seq(Steps)
        BY PlainSteps DEF MsgTypes
      <3>2. /\ Step("Register") \in Seq(Steps) /\ Step("Ready") \in Seq(Steps)
            /\ Step("PowerOn") \in Seq(Steps)
        BY PlainSteps DEF PlainKinds
      <3>3. Serve("IN1") \in Seq(Steps)
        BY PlainSteps DEF Signals
      <3> QED BY <3>1, <3>2, <3>3
    <2>2. BootSibling = Join(Join(Join(Join(Join(a, b), c), d), f), g)
      BY <2>1 DEF BootSibling, Join
    <2>3. BootSibling = Join(a, Join(b, Join(c, Join(d, Join(f, g)))))
      BY <2>2, Join6
    <2>4. g = s7
      <3>1. s7 = Cons(<<"Ready", "">>, <<>>)
        BY <1>0, <1>1 DEF Before
      <3>2. Cons(<<"Ready", "">>, <<>>) = <<<<"Ready", "">>>>
        <4>1. <<<<"Ready", "">>>> \in Seq(Steps)
          BY BootSteps, OneStep
        <4> QED BY <1>0, <4>1, Concat DEF Cons
      <3> QED BY <2>1, <3>1, <3>2 DEF Step
    <2>5. Join(f, s7) = s6
      BY <1>3, <2>1 DEF Before, Join, MsgRecv, Cons
    <2>6. Join(d, s6) = s5
      BY <1>5, <2>1 DEF Before, Join, Step, Cons
    <2>7. Join(c, s5) = s4
      BY <1>7, <2>1 DEF Before, Join, MsgRecv, Cons
    <2>8. Join(b, s4) = s2
      <3>1. b \o s4 = Cons(<<"AwaitSignal", "IN1">>, Cons(<<"Answer", "IN1">>, s4))
        <4>1. <<"AwaitSignal", "IN1">> \in Steps /\ <<"Answer", "IN1">> \in Steps
          BY BootSteps
        <4> QED BY <1>8, <2>1, <4>1, TwoCons DEF Serve
      <3> QED BY <1>9, <1>11, <3>1 DEF Before, Join
    <2>9. Join(a, s2) = s1
      BY <1>13, <2>1 DEF Before, Join, Step, Cons
    <2> QED BY <2>3, <2>4, <2>5, <2>6, <2>7, <2>8, <2>9
  <1>15. s1 \in Seq(Steps) /\ Item(s1, 1)[1] = "PowerOn"
    BY <1>13 DEF Before
  <1>16. /\ StepsOf(s1) = {x1, x2, x3, x4, x5, x6, x7}
         /\ x1[2] = "" /\ x2[2] = "IN1" /\ x3[2] = "IN1" /\ x4[2] = "INIT" /\ x5[2] = ""
         /\ x6[2] = "SYNC" /\ x7[2] = ""
    <2>1. StepsOf(s5) = {x5, x6, x7}
      BY <1>0, <1>1, <1>3, <1>5 DEF Before
    <2>2. StepsOf(s1) = {x1, x2, x3, x4} \union StepsOf(s5)
      BY <1>7, <1>9, <1>11, <1>13 DEF Before
    <2>3. /\ x1[2] = "" /\ x2[2] = "IN1" /\ x3[2] = "IN1" /\ x4[2] = "INIT" /\ x5[2] = ""
          /\ x6[2] = "SYNC" /\ x7[2] = ""
      BY <1>1, <1>3, <1>5, <1>7, <1>9, <1>11, <1>13 DEF Before
    <2> QED BY <2>1, <2>2, <2>3
  <1>17. \A x \in StepsOf(s1) : x[2] # "LOCK"
    BY <1>16
  <1>18. x4 = <<"Receive", "INIT">> /\ x5 = <<"Register", "">> /\ x6 = <<"Receive", "SYNC">>
    BY <1>3, <1>5, <1>7 DEF Before
  <1>19. /\ <<"Register", "">> \in StepsOf(s1) /\ <<"Receive", "INIT">> \in StepsOf(s1)
         /\ <<"Receive", "SYNC">> \in StepsOf(s1)
    BY <1>16, <1>18
  <1> QED BY <1>13, <1>14, <1>15, <1>17, <1>19

LEMMA BootViews ==
    ASSUME Init
    PROVE  /\ Q1[1] = "Raise" /\ Q1[2] = "IN1" /\ S1[1] = "PowerOn" /\ G1 = End
           /\ \A x \in RQ : x[1] \in {"Raise", "AwaitAnswerOrRetry", "Send", "AwaitMsgAck",
                                      "Register", "Ready"}
           /\ \A x \in RQ : x[2] # "LOCK" /\ x[2] # "IN2"
           /\ \A x \in RS : x[2] # "LOCK"
           /\ HasReg /\ <<"Send", "INIT">> \in RQ /\ <<"Send", "SYNC">> \in RQ
           /\ <<"Register", "">> \in RS /\ <<"Receive", "INIT">> \in RS
           /\ <<"Receive", "SYNC">> \in RS
           /\ Forms
  <1>1. /\ todo["qm"] = BootQuadManager /\ todo["sib"] = BootSibling /\ todo["pgpe"] = <<>>
    BY DEF Init
  <1>2. /\ Is(Q1, "Raise", "IN1") /\ QForm(todo["qm"])
        /\ \A x \in RQ : x[1] \in {"Raise", "AwaitAnswerOrRetry", "Send", "AwaitMsgAck",
                                   "Register", "Ready"} /\ x[2] # "LOCK" /\ x[2] # "IN2"
        /\ HasReg /\ <<"Send", "INIT">> \in RQ /\ <<"Send", "SYNC">> \in RQ
    BY <1>1, BootQmForm DEF Q1, RQ, HasReg
  <1>3. /\ S1[1] = "PowerOn" /\ SForm(todo["sib"])
        /\ \A x \in RS : x[2] # "LOCK"
        /\ <<"Register", "">> \in RS /\ <<"Receive", "INIT">> \in RS
        /\ <<"Receive", "SYNC">> \in RS
    BY <1>1, BootSibForm DEF S1, RS
  <1>4. G1 = End
    BY <1>1, EmptyItems DEF G1
  <1>5. GForm(todo["pgpe"], registered, Interlock)
    <2>1. Len(<<>>) = 0 /\ 1 .. Len(<<>>) = {}
      OBVIOUS
    <2>2. \A r, l : GForm(<<>>, r, l)
      BY <2>1, Zenon DEF GForm, Form
    <2> QED BY <1>1, <2>2
  <1> QED BY <1>2, <1>3, <1>4, <1>5 DEF Forms, Is

(* The PGPE has told this quad nothing yet, and no interrupt is pending.   *)
LEMMA InitKept == TypeInv /\ Init => Kept
  <1> SUFFICES ASSUME TypeInv, Init PROVE Kept
    OBVIOUS
  <1>1. /\ Q1[1] = "Raise" /\ Q1[2] = "IN1" /\ S1[1] = "PowerOn" /\ G1 = End
        /\ \A x \in RQ : x[1] \in {"Raise", "AwaitAnswerOrRetry", "Send", "AwaitMsgAck",
                                   "Register", "Ready"}
        /\ \A x \in RQ : x[2] # "LOCK" /\ x[2] # "IN2"
        /\ \A x \in RS : x[2] # "LOCK"
        /\ HasReg /\ <<"Send", "INIT">> \in RQ /\ <<"Send", "SYNC">> \in RQ
        /\ <<"Register", "">> \in RS /\ <<"Receive", "INIT">> \in RS
        /\ <<"Receive", "SYNC">> \in RS
        /\ Forms
    BY BootViews
  <1>2. eisr["qm"] = {} /\ eisr["sib"] = {}
    BY DEF Init, Cmes
  <1>3. /\ type4 = "none" /\ ~registered /\ alive /\ skipLock = {}
        /\ ticks["DB0"] = 0 /\ ticks["RECVD"] = 0 /\ ticks["IN0"] = 0
    BY DEF Init
  <1>4. Msg0 = "NONE"
    BY DEF Init, Cmes, Msg0, NoMessage, Message
  <1>5. /\ Interlock <=> mode = "active"
        /\ Interlock <=> "INTERLOCK" \in flags["sib"]
        /\ "ENABLED" \notin flags["qm"]
        /\ mode = (IF Interlock THEN "active" ELSE "stopped")
    <2>1. \A c \in Cmes : flags[c] = IF mode = "active" THEN {"INTERLOCK"} ELSE {}
      BY DEF Init
    <2>2. mode \in {"stopped", "active"}
      BY DEF Init
    <2> QED BY <2>1, <2>2 DEF Cmes, Interlock
  <1>6. /\ ~RegDue /\ ~AckDue /\ ~In2Due
        /\ \A n \in 1 .. 3 : ~RegLeft(n)
    <2>1. \A n \in 1 .. 3 : ~RegLeft(n)
      BY <1>1 DEF RegLeft
    <2> QED BY <1>1, <2>1 DEF RegDue, AckDue, AckKinds, In2Due, In2
  <1>7. /\ \A x : ~Unanswered(x)
        /\ \A m : ~Unacked(m)
    BY <1>1 DEF Unanswered, Awaits, AnswerKinds, Unacked, Is
  <1>8. Lines
    BY <1>1, <1>2 DEF Lines, W1, W2, W3, W4, W5
  <1>9. Exchange
    <2>1. ~Db0Due /\ ~RegHead /\ ~Db3Due /\ ~Due
      BY <1>1, <1>2, <1>6 DEF Db0Due, RegHead, Db3Due, Due
    <2>2. E1 /\ E2 /\ E2a /\ E3 /\ E4
      BY <1>2, <1>3, <2>1 DEF E1, E2, E2a, E3, E4
    <2>3. E5
      BY <1>1, <1>2, <1>3, <1>4, <1>5 DEF E5, Cmes
    <2>4. E6 /\ E9 /\ E14 /\ HB1
      BY <1>1, <1>2, <1>3, <1>6 DEF E6, E9, E14, HB1
    <2>5. E8
      BY <1>4, <1>5, <1>6 DEF E8
    <2>6. E11 /\ E12 /\ E13
      BY <1>1, <1>6 DEF E11, E12, E13
    <2> QED BY <2>2, <2>3, <2>4, <2>5, <2>6 DEF Exchange
  <1>10. Ticks
    BY <1>3 DEF Ticks, T1, T2, T3
  <1>11. Boot
    <2>1. SendDue("SYNC") /\ SendDue("INIT") /\ ~SendDue("LOCK")
      <3>1. <<"Send", "LOCK">> \notin RQ
        BY <1>1
      <3> QED BY <1>1, <1>7, <3>1 DEF SendDue
    <2>2. LocksDue = LocksLeft
      <3>1. PICK l \in {0, 3} : l = IF Interlock THEN 3 ELSE 0
        OBVIOUS
      <3>2. RegistrationsLeft = l /\ LocksLeft = l
        BY <1>1, <3>1 DEF RegistrationsLeft, LocksLeft
      <3>3. LocksDue = l + 0
        BY <2>1, <3>2 DEF LocksDue
      <3> QED BY <3>2, <3>3
    <2> QED BY <1>1, <1>6, <2>1, <2>2 DEF Boot, B1, B2, B3, B4, B5
  <1>12. Pairing
    <2>1. \A k \in Ks : ~SOpen(k) /\ ~SPend(k)
      BY <1>1, <1>2 DEF SOpen, SPend, Is
    <2>2. ~SClipMid /\ ~SHbMid
      BY <1>1 DEF SClipMid, SHbMid, Is
    <2>3. \A m \in Ms : ~HalfM(m)
      BY <1>1, NoEnd DEF HalfM, Writes3
    <2> QED BY <2>1, <2>2, <2>3 DEF Pairing, C1, C2, C3, C4, C5
  <1>13. Standstill
    BY <1>1, <1>2, <1>3, <1>7 DEF Standstill, L1, L2, L3, L4, L5, K1, Is, Answered2, QHbMid
  <1> QED BY <1>1, <1>8, <1>9, <1>10, <1>11, <1>12, <1>13 DEF Kept

-----------------------------------------------------------------------------
(* Every step keeps it.                                                    *)

(* The regime: the quad manager does not repeat its boot signal just when  *)
(* the sibling answers it, a CME does not act between the PGPE's writes of *)
(* doorbell 0 to the one and to the other, Pstates do not stop while the   *)
(* quad boots, and the PGPE does not die while it waits for the quad.      *)
QuadRegime ==
    /\ ~LateRetry /\ ~WritesApart
    /\ WhileBooting \subseteq {"freq"}
    /\ HeartbeatLoss \subseteq {"active", "stopped"}

LEMMA StutterKept ==
    ASSUME TypeInv, Kept, UNCHANGED vars
    PROVE  Kept'
  <1>1. UNCHANGED <<todo, eisr, ticks, icrr, db0, db3, type4, registered, alive, mode,
                    skipLock, flags>>
    BY DEF vars, irqVars, doorbellVars, cmeVars, sysVars, pgpeVars
  <1>2. QSame /\ SSame /\ GSame /\ SameSignals /\ SameFlags
    BY <1>1 DEF QSame, SSame, GSame, SameSignals, SameFlags
  <1>3. Ticks'
    BY <1>1, <1>2, SameTicks DEF Kept
  <1> QED BY <1>1, <1>2, <1>3, StaysKept

LEMMA HandleQmKept ==
    ASSUME TypeInv, Kept, Handle("qm")
    PROVE  Kept'
  <1>1. \A k : At("qm", k) => k \in QmKinds
    BY Separate DEF Kept
  <1>2. ~AwaitSignal("qm") /\ ~Answer("qm") /\ ~ClearBit("qm")
    BY <1>1 DEF AwaitSignal, Answer, ClearBit, Running, QmKinds
  <1> QED BY <1>2, KeepsRaise, KeepsAwaitAnswer, KeepsStoreField, KeepsUpdatePmsr,
             KeepsSuspended, KeepsReady, KeepsRegister, KeepsEndDb3, KeepsToFsafe
          DEF Handle

LEMMA HandleSibKept ==
    ASSUME TypeInv, Kept, Handle("sib")
    PROVE  Kept'
  <1>1. \A k : At("sib", k) => k \in SibKinds
    BY Separate DEF Kept
  <1>2. ~RaiseSignal("sib") /\ ~AwaitAnswer("sib")
    BY <1>1 DEF RaiseSignal, AwaitAnswer, Running, SibKinds
  <1> QED BY <1>2, KeepsAwaitSignal, KeepsAnswer, KeepsClearBit, KeepsSibFlags,
             KeepsMidDone, KeepsSibRegister
          DEF Handle

LEMMA ManageKept ==
    ASSUME TypeInv, Kept, Manage
    PROVE  Kept'
  BY KeepsSend, KeepsAwaitMsgAck, KeepsClearDb0, KeepsReadDb0, KeepsUpdateAnalog,
     KeepsNotifySibling, KeepsDb0Started, KeepsAckUpdate, KeepsDb0Stop, KeepsSendAck,
     KeepsAwaitDb0, KeepsRegisterDb0, KeepsRegistered, KeepsEndDb0
  DEF Manage

LEMMA NextKept == QuadRegime /\ TypeInv /\ Kept /\ [Next]_vars => Kept'
  <1> SUFFICES ASSUME QuadRegime, TypeInv, Kept, [Next]_vars PROVE Kept'
    OBVIOUS
  <1>0. ~LateRetry /\ ~WritesApart
    BY DEF QuadRegime
  <1>1. CASE UNCHANGED vars
    BY <1>1, StutterKept
  <1>2. ASSUME NEW c \in Cmes, Handle(c) PROVE Kept'
    BY <1>2, HandleQmKept, HandleSibKept DEF Cmes
  <1>3. ASSUME NEW c \in Cmes, FitTick(c) \/ BeginStop(c) \/ EndStop(c) PROVE Kept'
    BY <1>3, KeepsFitTick, KeepsStop
  <1>4. CASE Manage
    BY <1>4, ManageKept
  <1>5. CASE Follow
    BY <1>5, KeepsPowerOn, KeepsReceive, KeepsSpin, KeepsSiblingDb0 DEF Follow
  <1>6. CASE Interrupts
    <2>1. ASSUME NEW c \in Cmes, TakeDb3(c) \/ TakeHeartbeatLoss(c) PROVE Kept'
      BY <2>1, KeepsTakeDb3, KeepsTakeLoss, KeepsSibDb3, KeepsSibLoss DEF Cmes
    <2> QED BY <1>6, <2>1, KeepsTakeDb0, KeepsTakeIn0, KeepsTakeMsg DEF Interrupts
  <1>7. CASE Retry
    BY <1>0, <1>7, KeepsRetry
  <1>8. CASE Pgpe
    BY <1>0, <1>8, KeepsRegistration, KeepsWriteDb0, KeepsWriteDb3, KeepsAwaitAck,
       KeepsBecome DEF Pgpe
  <1>9. ASSUME NEW op \in Operations, Operate(op) PROVE Kept'
    BY <1>0, <1>9, CmeAssumption, KeepsOperate
  <1>10. ASSUME NEW op \in WhileBooting, OperateElsewhere(op) PROVE Kept'
    BY <1>10, KeepsElsewhere DEF QuadRegime
  <1>11. ASSUME NEW when \in HeartbeatLoss, PgpeDies(when) PROVE Kept'
    BY <1>11, KeepsDeath DEF QuadRegime
  <1> QED BY <1>1, <1>2, <1>3, <1>4, <1>5, <1>6, <1>7, <1>8, <1>9, <1>10, <1>11 DEF Next

LEMMA KeptHolds == QuadRegime => (Spec => []Kept)
  <1> SUFFICES ASSUME QuadRegime PROVE Spec => []Kept
    OBVIOUS
  <1>1. Init => Kept
    BY TypesInit, InitKept
  <1>2. TypeInv /\ Kept /\ [Next]_vars => Kept'
    BY NextKept
  <1> QED BY <1>1, <1>2, TypesHold, PTL DEF Spec

-----------------------------------------------------------------------------
(* Messages go from the quad manager to its sibling, acknowledgements back.*)
Sides == "RECVD" \notin eisr["qm"] /\ "ACK" \notin eisr["sib"]

LEMMA SidesCleared ==
    ASSUME Sides, TypeInv,
           eisr' = eisr \/ \E c \in Cmes : \E bits : eisr' = Clearing(c, bits, eisr)
    PROVE  Sides'
  BY DEF Sides, Clearing, TypeInv, IrqType, Cmes

LEMMA SidesRaised ==
    ASSUME Sides, TypeInv, NEW c \in Cmes, NEW b, eisr' = Raising(c, b, eisr),
           b = "RECVD" => c = "sib", b = "ACK" => c = "qm"
    PROVE  Sides'
  BY DEF Sides, Raising, TypeInv, IrqType, Cmes

LEMMA SidesNext == TypeInv /\ Sides /\ [Next]_vars => Sides'
  <1> SUFFICES ASSUME TypeInv, Sides, [Next]_vars PROVE Sides'
    OBVIOUS
  <1> USE CmesAre
  <1>0. TodoType /\ \A c \in Cmes : Other(c) \in Cmes
    BY Others DEF TypeInv
  <1>1. CASE UNCHANGED vars
    BY <1>1, SidesCleared DEF vars, irqVars
  <1>2. ASSUME NEW c \in Cmes,
               Handle(c) \/ FitTick(c) \/ BeginStop(c) \/ EndStop(c)
        PROVE  Sides'
    <2>1. CASE RaiseSignal(c) \/ Answer(c)
      <3>1. Argument(c) \in Signals
        BY <1>0, <2>1, CurrentStep, Arguments DEF RaiseSignal, Answer, Running, SignalKinds
      <3>2. eisr' = Raising(Other(c), Argument(c), eisr)
        BY <2>1 DEF RaiseSignal, Answer
      <3>3. Argument(c) # "RECVD" /\ Argument(c) # "ACK"
        BY <3>1 DEF Signals
      <3> QED BY <1>0, <3>2, <3>3, SidesRaised
    <2>2. CASE AwaitAnswer(c) \/ ClearBit(c)
      BY <2>2, SidesCleared DEF AwaitAnswer, ClearBit
    <2>3. CASE AwaitSignal(c) \/ StoreField(c) \/ UpdatePmsr(c) \/ SuspendPstates(c)
               \/ Ready(c) \/ FinishDb3(c) \/ ToFsafe(c)
      BY <2>3, SidesCleared DEF AwaitSignal, StoreField, UpdatePmsr, SuspendPstates,
         Ready, FinishDb3, ToFsafe, irqVars
    <2>4. CASE FitTick(c) \/ BeginStop(c) \/ EndStop(c)
      BY <2>4, SidesCleared DEF FitTick, BeginStop, EndStop
    <2>5. CASE Register(c)
      BY <2>5, SidesCleared DEF Register
    <2> QED BY <1>2, <2>1, <2>2, <2>3, <2>4, <2>5 DEF Handle
  <1>3. CASE Manage
    <2>1. CASE Send
      BY <2>1, SidesRaised DEF Send
    <2>2. CASE ~Send
      BY <1>3, <2>2, SidesCleared DEF Manage, AwaitMsgAck, ClearDb0, ReadDb0, UpdateAnalog,
         NotifySibling, Db0Started, AckUpdate, Db0StopFlags, SendAckToPgpe, AwaitDb0,
         RegisterDb0, Registered, FinishDb0, irqVars
    <2> QED BY <2>1, <2>2
  <1>4. CASE Follow
    <2>1. CASE Receive
      BY <2>1, SidesCleared, SidesRaised DEF Receive
    <2>2. CASE PowerOn
      BY <2>2 DEF PowerOn, Sides, TypeInv, IrqType, Cmes
    <2>3. CASE Spin \/ CheckIn0
      BY <2>3, SidesCleared DEF Spin, CheckIn0, irqVars
    <2>4. CASE SiblingDb0
      BY <2>4, SidesCleared DEF SiblingDb0
    <2> QED BY <1>4, <2>1, <2>2, <2>3, <2>4 DEF Follow
  <1>5. CASE Interrupts
    <2>1. ASSUME NEW c \in Cmes, TakeDb3(c) \/ TakeHeartbeatLoss(c) PROVE Sides'
      BY <2>1, SidesCleared DEF TakeDb3, TakeHeartbeatLoss
    <2>2. CASE TakeDb0 \/ TakeIn0 \/ TakeMsg
      BY <2>2, SidesCleared DEF TakeDb0, TakeIn0, TakeMsg
    <2> QED BY <1>5, <2>1, <2>2 DEF Interrupts
  <1>6. CASE Retry
    BY <1>6, SidesRaised DEF Retry
  <1>7. CASE Pgpe
    <2>1. CASE WriteDb0
      BY <2>1 DEF WriteDb0, Sides
    <2>2. CASE WriteDb3
      <3>1. Argument("pgpe")[1] \in Cmes
        <4>1. At("pgpe", "Write3")
          BY <2>2 DEF WriteDb3, PgpeAt, Running
        <4>2. Argument("pgpe") \in Cmes \X Db3Messages
          BY <1>0, <4>1, CurrentStep, Arguments
        <4> QED BY <4>2
      <3> QED BY <2>2, <3>1, SidesRaised DEF WriteDb3
    <2>3. CASE ProcessRegistration \/ AwaitAck \/ PollDroop \/ Become
      BY <2>3, SidesCleared DEF ProcessRegistration, AwaitAck, PollDroop, Become, irqVars
    <2> QED BY <1>7, <2>1, <2>2, <2>3 DEF Pgpe
  <1>8. ASSUME NEW op, Operate(op) \/ OperateElsewhere(op) PROVE Sides'
    BY <1>8, SidesCleared DEF Operate, OperateElsewhere, irqVars
  <1>9. ASSUME NEW when, PgpeDies(when) PROVE Sides'
    BY <1>9 DEF PgpeDies, Sides
  <1> QED BY <1>1, <1>2, <1>3, <1>4, <1>5, <1>6, <1>7, <1>8, <1>9 DEF Next

LEMMA SidesHold == Spec => []Sides
  <1>1. Init => Sides
    BY DEF Init, Sides, Cmes
  <1> QED BY <1>1, SidesNext, TypesHold, PTL DEF Spec

-----------------------------------------------------------------------------
(* What is promised.                                                       *)
LEMMA AtHeads ==
    ASSUME TypeInv
    PROVE  /\ \A k : k # "none" /\ S1[1] = k => At("sib", k)
           /\ \A k : k # "none" /\ S2[1] = k => todo["sib"][2][1] = k
           /\ \A k : k # "none" /\ G1[1] = k => At("pgpe", k)
  <1>1. ASSUME NEW p \in Processes, NEW k, k # "none", Item(todo[p], 1)[1] = k
        PROVE  At(p, k)
    <2>1. todo[p] \in Seq(Steps) /\ Item(todo[p], 1) # End
      BY <1>1, NoEnd DEF TypeInv, TodoType
    <2>2. todo[p] # <<>> /\ Item(todo[p], 1) = todo[p][1]
      BY <2>1, ItemsOf
    <2> QED BY <1>1, <2>2 DEF At
  <1>2. ASSUME NEW k, k # "none", S2[1] = k PROVE todo["sib"][2][1] = k
    BY <1>2, NoEnd DEF S2, Item
  <1> QED BY <1>1, <1>2 DEF S1, G1, Processes

LEMMA KeptLocked == TypeInv /\ Kept => LockedDuringAnalog
  <1> SUFFICES ASSUME TypeInv, Kept PROVE LockedDuringAnalog
    OBVIOUS
  <1>1. ASSUME At("qm", "UpdateAnalog") PROVE Locked
    <2>1. Held
      BY <1>1, HeadsAt DEF Kept, Standstill, L2
    <2>2. S1[1] = "Spin" => At("sib", "Spin")
      BY AtHeads
    <2>3. S1[1] = "ClearBit" /\ S2[1] = "Spin" => AboutTo("sib", "Spin")
      BY AtHeads DEF AboutTo
    <2> QED BY <2>1, <2>2, <2>3 DEF Held, Locked
  <1>2. ASSUME At("qm", "ToFsafe")
        PROVE  \/ At("sib", "ToFsafe") \/ AboutTo("sib", "ToFsafe")
               \/ At("sib", "AwaitSignal") /\ "IN2" \notin eisr["sib"]
    <2>1. SHbMid \/ (Is(S1, "AwaitSignal", "IN2") /\ "IN2" \notin eisr["sib"])
      BY <1>2, HeadsAt DEF Kept, Standstill, L5, QHbMid
    <2>2. S1[1] = "ToFsafe" => At("sib", "ToFsafe")
      BY AtHeads
    <2>3. S1[1] = "ClearBit" /\ S2[1] = "ToFsafe" => AboutTo("sib", "ToFsafe")
      BY AtHeads DEF AboutTo
    <2>4. S1[1] = "AwaitSignal" => At("sib", "AwaitSignal")
      BY AtHeads
    <2> QED BY <2>1, <2>2, <2>3, <2>4 DEF SHbMid, Is
  <1> QED BY <1>1, <1>2 DEF LockedDuringAnalog

LEMMA KeptNothingLeft == TypeInv /\ Kept /\ Sides => NothingLeftOver
  <1> SUFFICES ASSUME TypeInv, Kept, Sides PROVE NothingLeftOver
    OBVIOUS
  <1>1. ASSUME type4 \notin {"none", "available"} PROVE At("pgpe", "AwaitAck")
    BY <1>1, AtHeads DEF Kept, Exchange, E2
  <1>2. ASSUME \A p \in {"pgpe", "qm", "sib"} : Idle(p)
        PROVE  /\ \A c \in Cmes : eisr[c] \intersect (Signals \union {"ACK", "RECVD"}) = {}
               /\ "DB0" \notin eisr["qm"]
               /\ \A i \in DOMAIN ticks : ticks[i] = 0
               /\ type4 = "none" \/ ~registered
    <2>1. /\ Q1 = End /\ RQ = {} /\ S1 = End /\ G1 = End
          /\ Q1[1] = "none" /\ S1[1] = "none" /\ G1[1] = "none"
      BY <1>2, IdleViews, NoEnd
    <2>2. /\ \A x : ~Awaits(x) /\ ~Unanswered(x)
          /\ \A m : ~Unacked(m)
      BY <2>1 DEF Awaits, Unanswered, Unacked, AnswerKinds, Is
    <2>3. \A x \in Signals : x \notin eisr["qm"] /\ x \notin eisr["sib"]
      BY <2>1, <2>2 DEF Kept, Lines, W1, W2, Is
    <2>4. "ACK" \notin eisr["qm"] /\ "RECVD" \notin eisr["sib"]
      BY <2>1, <2>2 DEF Kept, Lines, W3, W4, Is
    <2>5. \A c \in Cmes : eisr[c] \intersect (Signals \union {"ACK", "RECVD"}) = {}
      BY <2>3, <2>4 DEF Sides, Cmes
    <2>6. "DB0" \notin eisr["qm"]
      <3>1. ~Awaiting /\ ~Half
        BY <2>1, NoEnd DEF Awaiting, Half, HalfM, Writes3
      <3>2. ~HasReg /\ ~RegDue
        BY <2>1 DEF HasReg, RegDue, RegLeft
      <3> QED BY <3>1, <3>2 DEF Kept, Exchange, E1, Due, Db0Due
    <2>7. \A i \in DOMAIN ticks : ticks[i] = 0
      <3>1. DOMAIN ticks = {"DB0", "RECVD", "IN0"}
            /\ \A i \in {"DB0", "RECVD", "IN0"} : ticks[i] \in Nat
        BY DEF TypeInv, IrqType
      <3>2. ~(ticks["DB0"] > 0) /\ ~(ticks["RECVD"] > 0) /\ ~(ticks["IN0"] > 0)
        BY <2>3, <2>4, <2>6 DEF Kept, Ticks, T1, T2, T3, Signals
      <3> QED BY <3>1, <3>2
    <2>8. type4 = "none" \/ ~registered
      BY <2>1 DEF Kept, Exchange, E2, E2a
    <2> QED BY <2>5, <2>6, <2>7, <2>8
  <1> QED BY <1>1, <1>2 DEF NothingLeftOver

(* Whatever the PGPE asks of the quad, in whatever order the CMEs take     *)
(* their doorbells, signals and messages, and whatever STOP requests and   *)
(* FIT ticks come: the quad manager moves the clock of the quad only while *)
(* its sibling is caught in a loop that nothing has ended yet              *)
(* (p9_cme_pstate_update, p9_cme_pstate_update_analog and the handlers of  *)
(* doorbell 3 and of the loss of the heartbeat on both sides).             *)
THEOREM ClockMovesLocked == QuadRegime => (Spec => []LockedDuringAnalog)
  <1> SUFFICES ASSUME QuadRegime PROVE Spec => []LockedDuringAnalog
    OBVIOUS
  <1>1. Spec => []Kept
    BY KeptHolds
  <1>2. TypeInv /\ Kept => LockedDuringAnalog
    BY KeptLocked
  <1> QED BY <1>1, <1>2, TypesHold, PTL

(* The quad manager answers in OPIT4 only while the PGPE waits in          *)
(* p9_pgpe_wait_cme_db_ack, so no answer is taken for that of a later      *)
(* exchange; and when all are idle no inter-CME signal, message or         *)
(* doorbell 0 is pending and no starvation counter of iota_uih runs that   *)
(* would start a handler with nothing to do.                               *)
THEOREM ExchangesEndClean == QuadRegime => (Spec => []NothingLeftOver)
  <1> SUFFICES ASSUME QuadRegime PROVE Spec => []NothingLeftOver
    OBVIOUS
  <1>1. Spec => []Kept
    BY KeptHolds
  <1>2. TypeInv /\ Kept /\ Sides => NothingLeftOver
    BY KeptNothingLeft
  <1> QED BY <1>1, <1>2, TypesHold, SidesHold, PTL
=============================================================================
