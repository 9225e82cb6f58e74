---------------------------- MODULE IspSyncProofs ---------------------------
(***************************************************************************)
(* Theorems about what the frame's interrupt synchronises.  The sensor's   *)
(* configurations (IspSyncCfg), for rings and delays of any length.  And   *)
(* the tasks of other modules (IspSyncTask), for any nodes and callers.    *)
(***************************************************************************)
EXTENDS IspSyncCfg, IspSyncTask, FiniteSetTheorems, WellFoundedInduction, TLAPS

LEMMA Consts ==
  /\ BufNum \in Nat /\ BufNum > 2
  /\ MaxDelay \in Nat /\ DlyLimit \in Nat /\ MaxDelay < DlyLimit
  /\ SyncIndex \in Nat /\ SyncIndex <= DlyLimit
  /\ None \notin Value
  /\ Delays \subseteq Due
BY ConstAssumption DEF None, Due

-----------------------------------------------------------------------------
(* The ring.                                                               *)

\* How many slots lie from one slot of the ring to another.
Dist(a, b) == (b + BufNum - a) % BufNum

\* The indices without their remainder.
LEMMA RingIndex ==
  ASSUME NEW a \in Slot, NEW b \in Slot
  PROVE  /\ Succ(a) = IF a = BufNum - 1 THEN 0 ELSE a + 1
         /\ Pred(a) = IF a = 0 THEN BufNum - 1 ELSE a - 1
         /\ Dist(a, b) = IF b >= a THEN b - a ELSE b - a + BufNum
BY Consts DEF Slot, Succ, Pred, Dist

LEMMA RingNext ==
  ASSUME NEW a \in Slot
  PROVE  /\ Succ(a) \in Slot /\ Pred(a) \in Slot
         /\ Pred(Succ(a)) = a /\ Succ(Pred(a)) = a
         /\ Succ(a) # a /\ a # Null
<1>1. Succ(a) \in Slot /\ Pred(a) \in Slot
  BY RingIndex, Consts DEF Slot
<1>2. Pred(Succ(a)) = a /\ Succ(Pred(a)) = a
  BY <1>1, RingIndex, Consts DEF Slot
<1> QED
  BY <1>1, <1>2, RingIndex, Consts DEF Slot, Null

LEMMA RingDist ==
  ASSUME NEW a \in Slot, NEW b \in Slot
  PROVE  /\ Dist(a, b) \in 0..(BufNum - 1)
         /\ Dist(a, b) = 0 <=> a = b
         /\ Dist(a, b) = 1 <=> Succ(a) = b
         /\ Dist(a, b) = BufNum - 1 <=> Succ(b) = a
         /\ Succ(b) # a => Dist(a, Succ(b)) = Dist(a, b) + 1
         /\ a # b => Dist(a, Pred(b)) = Dist(a, b) - 1
<1>1. Succ(a) \in Slot /\ Succ(b) \in Slot /\ Pred(b) \in Slot
  BY RingNext
<1>2. /\ Succ(a) = IF a = BufNum - 1 THEN 0 ELSE a + 1
      /\ Succ(b) = IF b = BufNum - 1 THEN 0 ELSE b + 1
      /\ Pred(b) = IF b = 0 THEN BufNum - 1 ELSE b - 1
      /\ Dist(a, b) = IF b >= a THEN b - a ELSE b - a + BufNum
      /\ Dist(a, Succ(b)) = IF Succ(b) >= a THEN Succ(b) - a
                                            ELSE Succ(b) - a + BufNum
      /\ Dist(a, Pred(b)) = IF Pred(b) >= a THEN Pred(b) - a
                                            ELSE Pred(b) - a + BufNum
  BY <1>1, RingIndex
<1> QED
  BY <1>1, <1>2, Consts DEF Slot

LEMMA RingOne ==
  ASSUME NEW a \in Slot, NEW b \in Slot, NEW c \in Slot, Dist(a, b) = Dist(a, c)
  PROVE  b = c
<1>1. /\ Dist(a, b) = IF b >= a THEN b - a ELSE b - a + BufNum
      /\ Dist(a, c) = IF c >= a THEN c - a ELSE c - a + BufNum
  BY RingIndex
<1>2. (IF b >= a THEN b - a ELSE b - a + BufNum)
        = (IF c >= a THEN c - a ELSE c - a + BufNum)
  BY <1>1
<1>3. BufNum \in Nat
  BY Consts
<1> QED
  BY <1>2, <1>3 DEF Slot

\* Distances add up as long as they do not go round the ring.
LEMMA RingAdd ==
  ASSUME NEW x \in Slot, NEW r \in Slot, NEW w \in Slot
  PROVE  /\ Dist(x, Pred(r)) + Dist(r, w) < BufNum
              => Dist(x, Pred(w)) = Dist(x, Pred(r)) + Dist(r, w)
         /\ x = w => Dist(x, Pred(r)) + Dist(r, w) = BufNum - 1
<1>1. Pred(r) \in Slot /\ Pred(w) \in Slot
  BY RingNext
<1>2. /\ Pred(r) = IF r = 0 THEN BufNum - 1 ELSE r - 1
      /\ Pred(w) = IF w = 0 THEN BufNum - 1 ELSE w - 1
      /\ Dist(r, w) = IF w >= r THEN w - r ELSE w - r + BufNum
      /\ Dist(x, Pred(r)) = IF Pred(r) >= x THEN Pred(r) - x
                                            ELSE Pred(r) - x + BufNum
      /\ Dist(x, Pred(w)) = IF Pred(w) >= x THEN Pred(w) - x
                                            ELSE Pred(w) - x + BufNum
  BY <1>1, RingIndex
<1> QED
  BY <1>1, <1>2, Consts DEF Slot

\* The number of pending configurations.
PendingCount == Dist(rd, wr)

LEMMA Counts ==
  ASSUME wr \in Slot, rd \in Slot
  PROVE  /\ PendingCount \in 0..(BufNum - 1)
         /\ IsEmpty <=> PendingCount = 0
         /\ IsFull <=> PendingCount = BufNum - 1
         /\ IsErr <=> PendingCount > 1
         /\ \A s \in Slot : Pending(s) <=> Dist(rd, s) < PendingCount
         /\ PendingCount > 0 => Pending(Pred(wr))
         /\ ~Pending(wr)
<1>1. /\ PendingCount \in 0..(BufNum - 1)
      /\ IsEmpty <=> PendingCount = 0
      /\ IsFull <=> PendingCount = BufNum - 1
      /\ Succ(rd) = wr <=> PendingCount = 1
  BY RingDist DEF PendingCount, IsEmpty, IsFull
<1>2. IsErr <=> PendingCount > 1
  BY <1>1 DEF IsErr
<1>3. \A s \in Slot : Pending(s) <=> Dist(rd, s) < PendingCount
  BY DEF Pending, PendingCount, Dist
<1>4. PendingCount > 0 => Pending(Pred(wr))
  <2> SUFFICES ASSUME PendingCount > 0 PROVE Pending(Pred(wr))
    OBVIOUS
  <2>1. rd # wr /\ Pred(wr) \in Slot
    BY <1>1, RingNext DEF IsEmpty
  <2>2. Dist(rd, Pred(wr)) = PendingCount - 1
    BY <2>1, RingDist DEF PendingCount
  <2> QED
    BY <1>1, <1>3, <2>1, <2>2, Consts
<1>5. ~Pending(wr)
  BY <1>1, <1>3 DEF PendingCount
<1> QED
  BY <1>1, <1>2, <1>3, <1>4, <1>5

-----------------------------------------------------------------------------
(* Types.                                                                  *)

\* The ring and the line after they were cleared.
LEMMA Cleared ==
  /\ 0 \in Slot
  /\ [s \in Slot |-> Zero] \in [Slot -> Cfg]
  /\ [k \in Line |-> Null] \in [Line -> Slot \cup {Null}]
  /\ [k \in Due |-> None] \in [Due -> Value \cup {None}]
<1>1. 0 \in Slot
  BY Consts DEF Slot
<1>2. Zero \in Cfg
  BY DEF Zero, Cfg
<1> QED
  BY <1>1, <1>2

LEMMA TypeInit == Init => TypeOK
<1> SUFFICES ASSUME Init PROVE TypeOK
  OBVIOUS
<1>1. PICK v \in Value : /\ sns = [last |-> v, bConfig |-> FALSE]
                         /\ reg = v /\ due = [k \in Due |-> None]
  BY DEF Init
<1> QED
  BY <1>1, Cleared DEF Init, TypeOK

\* The delay of the register, and the next one, are indices of the line.
LEMMA DelayIndex ==
  ASSUME TypeOK
  PROVE  mode.delay \in Due /\ mode.delay \in Line /\ mode.delay + 1 \in Line
<1>1. mode.delay \in Delays
  BY DEF TypeOK
<1>2. mode.delay \in 0..MaxDelay
  BY <1>1, Consts DEF Due
<1> QED
  BY <1>2, Consts DEF Due, Line

LEMMA SnsRegsType ==
  ASSUME TypeOK, NEW v \in Value PROVE SnsRegs(v) \in Cfg
BY DEF TypeOK, SnsRegs, Cfg

LEMMA SnsRegType ==
  ASSUME TypeOK, NEW P, RegConfigSensor(P) PROVE reg' \in Value
<1> DEFINE s == SnsRegConfigNode
<1>1. mode.delay \in Line /\ mode.delay + 1 \in Line
  BY DelayIndex
<1>2. s \in Slot \cup {Null}
  BY <1>1 DEF SnsRegConfigNode, TypeOK
<1>3. s # Null /\ buf[s].val # None => buf[s].val \in Value
  BY <1>2 DEF TypeOK, Cfg
<1> HIDE DEF s
<1> QED
  BY <1>3 DEF RegConfigSensor, TypeOK, s

LEMMA BeforeType == \A k \in Line : Before(k) \in Line
BY Consts DEF Before, Line

LEMMA TypeStep == TypeOK /\ [Next]_vars => TypeOK'
<1> SUFFICES ASSUME TypeOK, [Next]_vars PROVE TypeOK'
  OBVIOUS
<1> USE DEF ringVars, lineVars, histVars
<1>1. CASE FrameStart
  <2>1. reg' \in Value
    BY <1>1, SnsRegType DEF FrameStart, TypeOK
  <2> QED
    BY <1>1, <2>1 DEF FrameStart, TypeOK
<1>2. CASE ShiftNodes
  <2>1. apstNode' \in [Line -> Slot \cup {Null}]
    BY <1>2, BeforeType DEF ShiftNodes, TypeOK
  <2>2. bErr' \in BOOLEAN
    BY <1>2 DEF ShiftNodes, IsErr, IsEmpty
  <2> QED
    BY <1>2, <2>1, <2>2 DEF ShiftNodes, TypeOK
<1>3. CASE ReadNewest
  <2> DEFINE s == Pred(wr)
  <2>1. s \in Slot
    BY RingNext DEF TypeOK
  <2>2. buf[s] \in Cfg
    BY <2>1 DEF TypeOK
  <2>3. \A v \in Value \cup {None} : DueNext(v) \in [Due -> Value \cup {None}]
    BY Consts DEF TypeOK, DueNext, Due
  <2>4. due[0] \in Value \cup {None}
    BY Consts DEF TypeOK, Due
  <2>5. due' \in [Due -> Value \cup {None}]
    BY <1>3, <2>2, <2>3, <2>4 DEF ReadNewest, Cfg
  <2>6. buf' \in [Slot -> Cfg]
    <3>1. CASE IsEmpty
      BY <1>3, <3>1 DEF ReadNewest, TypeOK
    <3>2. CASE ~IsEmpty
      <4> DEFINE u == buf[s].upd \/ (bErr /\ buf[s].val # None)
      <4>1. buf' = [buf EXCEPT ![s].upd = u]
        BY <1>3, <3>2 DEF ReadNewest
      <4>2. u \in BOOLEAN
        BY <2>2 DEF Cfg
      <4> HIDE DEF s, u
      <4> QED
        BY <4>1, <4>2, <2>1, <2>2 DEF TypeOK, Cfg
    <3> QED
      BY <3>1, <3>2
  <2>7. apstNode' \in [Line -> Slot \cup {Null}] /\ rd' \in Slot
    BY <1>3, <2>1 DEF ReadNewest, TypeOK
  <2> QED
    BY <1>3, <2>5, <2>6, <2>7 DEF ReadNewest, TypeOK
<1>4. CASE WriteRegs
  <2>1. reg' \in Value
    BY <1>4, SnsRegType DEF WriteRegs
  <2>2. bEdge' \in BOOLEAN /\ shifted' \in BOOLEAN
    BY <1>4 DEF WriteRegs, TypeOK
  <2> QED
    BY <1>4, <2>1, <2>2 DEF WriteRegs, TypeOK
<1>5. CASE SecondInt
  <2>1. reg' \in Value
    BY <1>5, SnsRegType DEF SecondInt, TypeOK
  <2> QED
    BY <1>5, <2>1 DEF SecondInt, TypeOK
<1>6. CASE WaitEdge
  BY <1>6 DEF WaitEdge, TypeOK
<1>7. CASE Publish
  BY <1>7 DEF Publish, TypeOK
<1>8. CASE SyncCfgSetPick
  <2>1. PICK v \in Value :
          /\ sns' = [last |-> v, bConfig |-> FALSE]
          /\ IF IsFull
             THEN fw' = "wait" /\ UNCHANGED <<buf, dirty>>
             ELSE /\ fw' = "copy"
                  /\ buf' = [buf EXCEPT ![wr] = SnsRegs(v)]
                  /\ dirty' = dirty \cup {k \in 0..SyncIndex : apstNode[k] = wr}
    BY <1>8 DEF SyncCfgSetPick
  <2>2. buf' \in [Slot -> Cfg] /\ dirty' \subseteq 0..SyncIndex
    BY <2>1, SnsRegsType DEF TypeOK
  <2> QED
    BY <1>8, <2>1, <2>2 DEF SyncCfgSetPick, TypeOK
<1>9. CASE SyncCfgSetAdvance
  <2>1. wr' \in Slot
    BY <1>9, RingNext DEF SyncCfgSetAdvance, TypeOK
  <2> QED
    BY <1>9, <2>1 DEF SyncCfgSetAdvance, TypeOK
<1>10. CASE BeginSwitch
  BY <1>10 DEF BeginSwitch, TypeOK
<1>11. CASE SwitchCfg
  <2>1. {s \in Slot : Pending(s)} \subseteq Slot
    OBVIOUS
  <2>2. /\ wr' \in Slot /\ rd' \in Slot /\ buf' \in [Slot -> Cfg]
        /\ apstNode' \in [Line -> Slot \cup {Null}]
        /\ dirty' \subseteq 0..SyncIndex /\ stale' \subseteq Slot
        /\ cleared' \in BOOLEAN
    BY <1>11, <2>1, Cleared DEF SwitchCfg, TypeOK
  <2>3. mode' \in [delay : Delays, intPos : Positions, linear : BOOLEAN]
    BY <1>11 DEF SwitchCfg, TypeOK
  <2> QED
    BY <1>11, <2>2, <2>3, Cleared DEF SwitchCfg, TypeOK
<1>12. CASE SensorSwitch
  BY <1>12 DEF SensorSwitch, TypeOK
<1>13. CASE UNCHANGED vars
  BY <1>13 DEF vars, TypeOK
<1> QED
  BY <1>1, <1>2, <1>3, <1>4, <1>5, <1>6, <1>7, <1>8, <1>9, <1>10, <1>11,
     <1>12, <1>13 DEF Next, Handler, Firmware

\* Type correctness of the ring, the delay line and its users (isp.c,
\* mpi_isp.c).
THEOREM TypeCorrect == Spec => []TypeOK
BY TypeInit, TypeStep, PTL DEF Spec

-----------------------------------------------------------------------------
(* How many configurations can be pending.                                 *)

\* On one processor the firmware does not run between the parts of the handler.
LEMMA FirmwareWaits ==
  ~Smp /\ Firmware => isr \in {"idle", "between"} /\ isr' = isr
BY DEF Firmware, WaitEdge, Publish, SyncCfgSetPick, SyncCfgSetAdvance,
       BeginSwitch, SwitchCfg, SensorSwitch, MayLock, MayRun

\* The second interrupt belongs to one mode; the configuration is read by a
\* handler that has a node; and it is the firmware of the same frame that is
\* found late.
HandlerInv ==
  /\ second => ReadsInSecond /\ isr \in {"shift", "read", "write"}
  /\ isr \in {"shift", "read", "write"} /\ ~second => useNode
  /\ isr = "read" => bErr = IsErr
  /\ isr \in {"shift", "read"} /\ ~ReadsInSecond => ~shifted

LEMMA HandlerStep ==
  TypeOK /\ HandlerInv /\ ~Smp /\ [Next]_vars => HandlerInv'
<1> SUFFICES ASSUME TypeOK, HandlerInv, ~Smp, [Next]_vars PROVE HandlerInv'
  OBVIOUS
<1> USE DEF ringVars, lineVars, histVars, HandlerInv
<1>1. CASE FrameStart
  BY <1>1 DEF FrameStart, ReadsInSecond
<1>2. CASE ShiftNodes
  BY <1>2 DEF ShiftNodes, ReadsInSecond, IsErr, IsEmpty
<1>3. CASE ReadNewest
  BY <1>3 DEF ReadNewest, ReadsInSecond
<1>4. CASE WriteRegs
  BY <1>4 DEF WriteRegs
<1>5. CASE SecondInt
  BY <1>5 DEF SecondInt, ReadsInSecond
<1>6. CASE Firmware
  <2>1. isr \in {"idle", "between"} /\ isr' = isr
    BY <1>6, FirmwareWaits
  <2>2. second' = second
    BY <1>6 DEF Firmware, WaitEdge, Publish, SyncCfgSetPick, SyncCfgSetAdvance,
                BeginSwitch, SwitchCfg, SensorSwitch
  <2> QED
    BY <2>1, <2>2
<1>7. CASE UNCHANGED vars
  BY <1>7 DEF vars, ReadsInSecond, IsErr, IsEmpty
<1> QED
  BY <1>1, <1>2, <1>3, <1>4, <1>5, <1>6, <1>7 DEF Next, Handler

\* The runs that may still submit a configuration before the ring is read: the
\* one under way, and the one that an edge and a node have been given for.
Busy  == IF fw \in {"run", "sync", "copy"} THEN 1 ELSE 0
Woken == IF useNode /\ bEdge /\ fw \notin {"run", "switch"} THEN 1 ELSE 0
Load  == PendingCount + Busy + Woken

\* Only the node of the next frame, which the handler takes at its start, lets
\* a third configuration into the ring, and the handler reads it in this frame.
CountInv ==
  /\ Load <= 3
  /\ isr = "idle" \/ (isr = "between" /\ ~ReadsInSecond) => Load <= 2
  /\ isr = "write" => PendingCount = 0

\* The ring is as long as the firmware needs, three configurations and a free
\* slot, and as long as the delays in use need: the registers' (u8DelayFrmNum)
\* and that of the ISP's own gains.  The driver has five slots
\* (ISP_SYNC_BUF_NODE_NUM), the sensors delays up to 2, the gains index 3: five
\* are just enough.
RingFits ==
  /\ BufNum >= 4
  /\ BufNum >= MaxDelay + 3
  /\ BufNum >= SyncIndex + 2

\* The numbers of the driver and of the sensors it comes with fit.
LEMMA DriverRing ==
  BufNum = 5 /\ MaxDelay = 2 /\ SyncIndex = 3 => RingFits
BY DEF RingFits

\* The part of the line that is less than a round of the ring long.  What the
\* line has behind it (CFG2VLD_DLY_LIMIT is 5) may be written again at any time.
InRound == {k \in Line : k + 2 <= BufNum}

LEMMA RingIndices ==
  RingFits => /\ \A k \in 0..SyncIndex : k \in InRound
              /\ \A k \in Due : k \in InRound /\ k # BufNum - 2
              /\ BufNum - 2 \notin Due
              /\ \A k \in InRound : k \in Line /\ k \in Nat
BY Consts DEF RingFits, InRound, Line, Due

\* What the firmware does never adds to what is pending or may become so: a
\* configuration is counted from the edge on, and a change of mode forgets it.
LEMMA FirmwareLoad ==
  ASSUME TypeOK, CountInv, RingFits, Firmware
  PROVE  \/ Load' = 0
         \/ Load' <= Load /\ mode' = mode
<1> USE DEF ringVars, lineVars, histVars, Busy, Woken
<1>1. PendingCount \in 0..(BufNum - 1) /\ BufNum \in Nat /\ BufNum >= 4
  BY Counts, Consts DEF TypeOK, RingFits
<1>2. wr' = wr /\ rd' = rd => PendingCount' = PendingCount
  BY DEF PendingCount
<1>3. CASE WaitEdge
  BY <1>1, <1>2, <1>3 DEF WaitEdge, TypeOK, Load
<1>4. CASE Publish
  BY <1>1, <1>2, <1>4 DEF Publish, Load
<1>5. CASE SyncCfgSetPick
  BY <1>1, <1>2, <1>5 DEF SyncCfgSetPick, Load
<1>6. CASE SyncCfgSetAdvance
  <2>1. PendingCount <= 2
    BY <1>1, <1>6 DEF SyncCfgSetAdvance, CountInv, Load
  <2>2. PendingCount' = PendingCount + 1
    BY <1>1, <1>6, <2>1, RingDist DEF SyncCfgSetAdvance, PendingCount, TypeOK
  <2> QED
    BY <1>1, <1>6, <2>2 DEF SyncCfgSetAdvance, Load
<1>7. CASE BeginSwitch
  BY <1>1, <1>2, <1>7 DEF BeginSwitch, Load
<1>8. CASE SwitchCfg
  <2>1. wr' = 0 /\ rd' = 0 => PendingCount' = 0
    BY RingDist, Cleared DEF PendingCount
  <2> QED
    BY <1>1, <1>2, <1>8, <2>1 DEF SwitchCfg, Load
<1>9. CASE SensorSwitch
  BY <1>1, <1>2, <1>9 DEF SensorSwitch, Load
<1> QED
  BY <1>3, <1>4, <1>5, <1>6, <1>7, <1>8, <1>9 DEF Firmware

LEMMA CountStep ==
  ASSUME TypeOK, TypeOK', HandlerInv, CountInv, ~Smp, RingFits, [Next]_vars
  PROVE  CountInv'
<1> USE DEF ringVars, lineVars, histVars, Busy, Woken
<1>1. /\ PendingCount \in 0..(BufNum - 1) /\ PendingCount' \in 0..(BufNum - 1)
      /\ BufNum \in Nat /\ BufNum >= 4
  BY Counts, RingDist, Consts DEF TypeOK, PendingCount, RingFits
<1>2. wr' = wr /\ rd' = rd => PendingCount' = PendingCount
  BY DEF PendingCount
<1>3. wr' = rd' => PendingCount' = 0
  BY RingDist DEF TypeOK, PendingCount
<1>4. CASE FrameStart
  <2>1. PendingCount' = PendingCount /\ fw' = fw /\ isr = "idle"
    BY <1>2, <1>4 DEF FrameStart
  <2>2. mode' = mode /\ isr' \in {"shift", "between"}
    BY <1>4 DEF FrameStart
  <2>3. ~ReadsInSecond /\ isr' = "between" => UNCHANGED <<useNode, bEdge>>
    BY <1>4 DEF FrameStart
  <2>4. ReadsInSecond' = ReadsInSecond
    BY <2>2 DEF ReadsInSecond
  <2> QED
    BY <1>1, <2>1, <2>2, <2>3, <2>4 DEF CountInv, Load
<1>5. CASE ShiftNodes
  BY <1>1, <1>2, <1>5 DEF ShiftNodes, CountInv, Load
<1>6. CASE ReadNewest
  <2>1. PendingCount' = 0
    BY <1>3, <1>6 DEF ReadNewest, IsEmpty
  <2> QED
    BY <1>1, <1>6, <2>1 DEF ReadNewest, CountInv, Load
<1>7. CASE WriteRegs
  <2>1. PendingCount' = 0
    BY <1>2, <1>7 DEF WriteRegs, CountInv, Load
  <2> QED
    BY <1>1, <1>7, <2>1 DEF WriteRegs, CountInv, Load
<1>8. CASE SecondInt
  <2>1. PendingCount' = PendingCount /\ UNCHANGED <<fw, useNode, bEdge>> /\ isr = "between"
    BY <1>2, <1>8 DEF SecondInt
  <2>2. isr' = IF ReadsInSecond THEN "shift" ELSE "idle"
    BY <1>8 DEF SecondInt
  <2> QED
    BY <1>1, <2>1, <2>2 DEF CountInv, Load
<1>9. CASE Firmware
  <2>1. isr \in {"idle", "between"} /\ isr' = isr
    BY <1>9, FirmwareWaits
  <2>2. Load' = 0 \/ (Load' <= Load /\ mode' = mode)
    BY <1>9, FirmwareLoad
  <2>3. mode' = mode => (ReadsInSecond' <=> ReadsInSecond)
    BY DEF ReadsInSecond
  <2>4. Load \in Int /\ Load' \in Int
    BY <1>1 DEF Load
  <2> HIDE DEF Busy, Woken
  <2> QED
    BY <2>1, <2>2, <2>3, <2>4 DEF CountInv
<1>10. CASE UNCHANGED vars
  BY <1>2, <1>10 DEF vars, CountInv, ReadsInSecond, Load
<1> QED
  BY <1>4, <1>5, <1>6, <1>7, <1>8, <1>9, <1>10 DEF Next, Handler

-----------------------------------------------------------------------------
(* How old the configurations of the line are.                             *)

\* The configurations read after the one the line has at index k.
Age(k) == Dist(apstNode[k], Pred(rd))

\* A run that is woken at the latest when the handler has written the registers.
Awaited ==
  CASE isr \in {"shift", "read"} -> 0
    [] isr = "write" -> IF fw = "run" THEN 0 ELSE 1
    [] OTHER -> Woken
Coming == PendingCount + Busy + Awaited

\* In k frames at most k + 1 configurations were read, and with what is pending
\* and may become so before the next one it is one more: that is why the ring
\* is once round at the end of InRound and not before.
AgeInv ==
  /\ apstNode[0] \in {Null, Pred(rd)}
  /\ \A k \in InRound : apstNode[k] # Null =>
       /\ Age(k) <= k + 1
       /\ Age(k) + Coming <= k + (IF isr = "read" /\ k > 0 THEN 1 ELSE 2)
  /\ dirty \subseteq {BufNum - 2}
  /\ isr \in {"read", "write"} => dirty = {}

LEMMA Sums ==
  \A a, b, c, x, y, z \in Int :
    a <= x /\ b <= y /\ c <= z => a + b + c <= x + y + z
OBVIOUS

LEMMA SumsBelow ==
  \A a, x, y, m \in Int : a + x <= m /\ y <= x => a + y <= m
OBVIOUS

LEMMA AgeType ==
  ASSUME TypeOK, NEW k \in Line, apstNode[k] # Null
  PROVE  apstNode[k] \in Slot /\ Age(k) \in Nat
BY RingNext, RingDist, Consts DEF TypeOK, Age

\* The slot the firmware takes for a configuration is in that part of the line
\* at its end only.
LEMMA NotRewritten ==
  ASSUME TypeOK, AgeInv, RingFits, isr \in {"idle", "between"},
         fw = "sync", NEW k \in InRound, apstNode[k] = wr
  PROVE  k = BufNum - 2
<1>0. k \in Line /\ k \in Nat /\ k <= BufNum - 2 /\ BufNum \in Nat
  BY Consts DEF InRound, Line
<1>1. wr \in Slot /\ rd \in Slot /\ apstNode[k] # Null /\ wr # Null
  BY RingNext DEF TypeOK
<1>2. Age(k) + PendingCount = BufNum - 1
  BY <1>1, RingAdd DEF Age, PendingCount
<1>3. Age(k) \in Nat /\ PendingCount \in Nat /\ Woken \in 0..1 /\ Busy = 1
  BY <1>0, <1>1, AgeType, Counts, Consts DEF Woken, Busy
<1>4. Awaited = Woken
  BY DEF Awaited
<1>5. Age(k) + PendingCount + 1 + Woken <= k + 2
  BY <1>1, <1>3, <1>4 DEF AgeInv, Coming
<1> QED
  BY <1>0, <1>2, <1>3, <1>5

LEMMA AgeStep ==
  ASSUME TypeOK, TypeOK', HandlerInv, CountInv, ~Smp, RingFits, [Next]_vars,
         ~ReadsInSecond => AgeInv, ~ReadsInSecond'
  PROVE  AgeInv'
<1> USE DEF ringVars, lineVars, histVars
<1>1. /\ PendingCount \in Nat /\ Busy \in 0..1 /\ Woken \in 0..1
      /\ PendingCount' \in Nat /\ Busy' \in 0..1 /\ Woken' \in 0..1
      /\ Awaited \in 0..1 /\ Awaited' \in 0..1
      /\ Coming \in Int /\ Coming' \in Int
  BY Counts, RingDist, Consts DEF TypeOK, PendingCount, Busy, Woken, Awaited, Coming
<1>2. ASSUME mode' = mode PROVE AgeInv /\ ~ReadsInSecond
  BY <1>2 DEF ReadsInSecond
<1>3. ASSUME UNCHANGED <<rd, wr, apstNode>>
      PROVE  PendingCount' = PendingCount /\ \A k \in Line : Age(k)' = Age(k)
  BY <1>3 DEF PendingCount, Age
<1>4. \A k \in InRound : /\ k \in Line /\ k \in Nat
                         /\ apstNode[k] # Null => Age(k) \in Nat
  BY AgeType, RingIndices
\* Steps that move nothing and add nothing.
<1>5. ASSUME UNCHANGED <<rd, wr, apstNode, dirty, mode>>, isr # "read",
             isr' \notin {"read", "write"} \/ isr' = isr,
             Busy' <= Busy, Awaited' <= Awaited
      PROVE  AgeInv'
  <2>1. AgeInv
    BY <1>2, <1>5
  <2>2. ASSUME NEW k \in InRound, apstNode'[k] # Null
        PROVE  /\ Age(k)' <= k + 1
               /\ Age(k)' + Coming' <= k + (IF isr' = "read" /\ k > 0 THEN 1 ELSE 2)
    <3>1. /\ Age(k) <= k + 1
          /\ Age(k) + Coming <= k + 2
      BY <1>5, <2>1, <2>2 DEF AgeInv
    <3>2. Age(k) \in Nat /\ Age(k)' = Age(k) /\ PendingCount' = PendingCount /\ k \in Nat
      BY <1>3, <1>4, <1>5, <2>2
    <3>3. Coming' <= Coming
      <4>1. /\ PendingCount \in Int /\ Busy \in Int /\ Awaited \in Int
            /\ PendingCount' \in Int /\ Busy' \in Int /\ Awaited' \in Int
        BY <1>1
      <4>2. PendingCount' <= PendingCount
        BY <3>2, <4>1
      <4> QED
        BY <1>5, <4>1, <4>2, Sums DEF Coming
    <3> QED
      BY <1>1, <1>5, <3>1, <3>2, <3>3, SumsBelow
  <2>3. dirty' \subseteq {BufNum - 2} /\ (isr' \in {"read", "write"} => dirty' = {})
    BY <1>5, <2>1 DEF AgeInv
  <2>4. apstNode'[0] \in {Null, Pred(rd)'}
    BY <1>5, <2>1 DEF AgeInv, Pred
  <2> QED
    BY <2>2, <2>3, <2>4 DEF AgeInv
<1>6. CASE FrameStart
  <2>1. /\ UNCHANGED <<rd, wr, apstNode, dirty, mode, fw>>
        /\ isr = "idle" /\ isr' \in {"shift", "between"}
    BY <1>6 DEF FrameStart
  <2>2. isr' = "between" => UNCHANGED <<useNode, bEdge>>
    BY <1>2, <1>6, <2>1 DEF FrameStart
  <2>3. Busy' = Busy /\ Awaited' <= Awaited
    BY <2>1, <2>2 DEF Busy, Awaited, Woken
  <2> QED
    BY <1>1, <1>5, <2>1, <2>3
<1>7. CASE SecondInt
  <2>1. /\ UNCHANGED <<rd, wr, apstNode, dirty, mode, fw, useNode, bEdge>>
        /\ isr = "between" /\ isr' = "idle"
    BY <1>2, <1>7 DEF SecondInt
  <2>2. Busy' = Busy /\ Awaited' = Awaited
    BY <2>1 DEF Busy, Awaited, Woken
  <2> QED
    BY <1>1, <1>5, <2>1, <2>2
<1>8. CASE WriteRegs
  <2>1. /\ UNCHANGED <<rd, wr, apstNode, dirty, mode, fw, useNode>>
        /\ isr = "write"
    BY <1>8 DEF WriteRegs
  <2>2. ~second
    BY <1>2, <2>1 DEF HandlerInv
  <2>3. isr' = "between"
    BY <1>8, <2>2 DEF WriteRegs
  <2>4. Busy' = Busy /\ Awaited' <= Awaited
    BY <2>1, <2>3 DEF Busy, Awaited, Woken
  <2> QED
    BY <1>1, <1>5, <2>1, <2>3, <2>4
<1>9. CASE UNCHANGED vars
  <2>1. Busy' = Busy /\ Awaited' = Awaited
    BY <1>9 DEF Busy, Awaited, Woken, vars
  <2>2. CASE isr # "read"
    BY <1>1, <1>5, <1>9, <2>1, <2>2 DEF vars
  <2>3. CASE isr = "read"
    BY <1>2, <1>9 DEF vars, AgeInv, Age, PendingCount, Pred, Awaited, Woken, Busy,
                      Coming
  <2> QED
    BY <2>2, <2>3
<1>10. CASE ShiftNodes
  <2>1. /\ AgeInv /\ UNCHANGED <<rd, wr, fw>>
        /\ isr = "shift" /\ isr' = "read"
        /\ apstNode' = [k \in Line |-> apstNode[Before(k)]]
        /\ dirty' = {k \in 0..SyncIndex : Before(k) \in dirty}
    BY <1>2, <1>10 DEF ShiftNodes
  <2>2. PendingCount' = PendingCount /\ Busy' = Busy /\ Awaited' = 0 /\ Awaited = 0
    BY <2>1 DEF PendingCount, Busy, Awaited
  <2>3. ASSUME NEW k \in InRound, apstNode'[k] # Null
        PROVE  /\ Age(k)' <= k + 1
               /\ Age(k)' + Coming' <= k + (IF isr' = "read" /\ k > 0 THEN 1 ELSE 2)
    <3> DEFINE b == Before(k)
    <3>1. b \in InRound /\ b = IF k = 0 THEN 0 ELSE k - 1
      BY <1>4, Consts DEF Before, InRound, Line
    <3> HIDE DEF b
    <3>2. apstNode'[k] = apstNode[b]
      BY <1>4, <2>1 DEF b
    <3>3. Age(k)' = Age(b) /\ apstNode[b] # Null
      BY <2>1, <2>3, <3>2 DEF Age, Pred
    <3>4. Age(b) <= b + 1 /\ Age(b) + Coming <= b + 2
      BY <2>1, <3>1, <3>3 DEF AgeInv
    <3>5. Age(b) \in Nat /\ b \in Nat /\ k \in Nat
      BY <1>4, <3>1, <3>3
    <3> QED
      BY <1>1, <2>1, <2>2, <3>1, <3>3, <3>4, <3>5 DEF Coming
  <2>4. dirty' = {}
    <3>1. ASSUME NEW k \in 0..SyncIndex, Before(k) = BufNum - 2 PROVE FALSE
      BY <3>1, Consts DEF Before, RingFits
    <3> QED
      BY <2>1, <3>1 DEF AgeInv
  <2>5. apstNode'[0] \in {Null, Pred(rd)'}
    BY <2>1, Consts DEF AgeInv, Pred, Before, Line
  <2> QED
    BY <2>3, <2>4, <2>5 DEF AgeInv
<1>11. CASE ReadNewest
  <2>1. /\ AgeInv /\ ~ReadsInSecond /\ UNCHANGED <<fw, wr>>
        /\ isr = "read" /\ isr' = "write"
    BY <1>2, <1>11 DEF ReadNewest
  <2>2. useNode /\ PendingCount' = 0 /\ rd' = wr
    <3>1. rd' = wr
      BY <1>11 DEF ReadNewest, IsEmpty
    <3> QED
      BY <2>1, <3>1, RingDist DEF PendingCount, HandlerInv, TypeOK
  <2>3. Busy' = Busy /\ Awaited' = (IF fw = "run" THEN 0 ELSE 1)
    BY <2>1 DEF Busy, Awaited
  <2>4. Awaited = 0 /\ rd \in Slot /\ wr \in Slot
    BY <2>1 DEF Awaited, TypeOK
  <2>5. apstNode' = IF IsEmpty THEN apstNode
                    ELSE [apstNode EXCEPT ![0] = Pred(wr)]
    BY <1>11 DEF ReadNewest
  <2>6. 0 \in Line /\ apstNode \in [Line -> Slot \cup {Null}]
    BY Consts DEF Line, TypeOK
  <2>7. apstNode'[0] \in {Null, Pred(rd)'}
    <3>1. Pred(rd)' = Pred(wr)
      BY <2>2 DEF Pred
    <3> QED
      BY <2>1, <2>5, <2>6, <3>1 DEF AgeInv, IsEmpty
  <2>8. dirty' = {}
    BY <1>11, <2>1 DEF AgeInv, ReadNewest
  <2>9. ASSUME NEW k \in InRound, apstNode'[k] # Null
        PROVE  /\ Age(k)' <= k + 1
               /\ Age(k)' + Coming' <= k + 2
    <3>1. CASE k = 0
      <4>1. apstNode'[0] = Pred(rd)'
        BY <2>7, <2>9, <3>1
      <4>2. Pred(rd)' \in Slot
        BY <2>2, <2>4, RingNext DEF Pred
      <4>3. Age(k)' = 0
        BY <3>1, <4>1, <4>2, RingDist DEF Age, Dist
      <4> QED
        BY <1>1, <2>2, <3>1, <4>3 DEF Coming
    <3>2. CASE k # 0
      <4>1. apstNode'[k] = apstNode[k] /\ apstNode[k] # Null
        BY <2>5, <2>6, <2>9, <3>2
      <4>2. apstNode[k] \in Slot /\ Age(k) \in Nat /\ k \in Nat /\ k > 0
        BY <1>4, <3>2, <4>1, AgeType
      <4>3. Age(k) <= k + 1 /\ Age(k) + PendingCount + Busy <= k + 1
        BY <1>1, <2>1, <2>4, <4>1, <4>2 DEF AgeInv, Coming
      <4>4. Age(k) + PendingCount < BufNum
        BY <1>1, <4>2, <4>3, Consts DEF InRound
      <4>5. Age(k)' = Age(k) + PendingCount
        <5>1. Age(k)' = Dist(apstNode[k], Pred(wr))
          BY <2>2, <4>1 DEF Age, Dist, Pred
        <5> QED
          BY <2>4, <4>2, <4>4, <5>1, RingAdd DEF Age, PendingCount
      <4>6. Awaited' <= 1
        BY <1>1
      <4> QED
        BY <1>1, <2>2, <2>3, <4>2, <4>3, <4>5, <4>6 DEF Coming
    <3> QED
      BY <3>1, <3>2
  <2> QED
    BY <2>1, <2>7, <2>8, <2>9 DEF AgeInv
<1>12. CASE Firmware
  <2>1. isr \in {"idle", "between"} /\ isr' = isr
    BY <1>12, FirmwareWaits
  <2>2. Awaited = Woken /\ Awaited' = Woken'
    BY <2>1 DEF Awaited
  <2>3. CASE SwitchCfg /\ mode' # mode
    <3>1. apstNode' = [k \in Line |-> Null] /\ dirty' = {}
      BY <2>3 DEF SwitchCfg
    <3>2. 0 \in Line
      BY Consts DEF Line
    <3> QED
      BY <1>4, <2>1, <3>1, <3>2 DEF AgeInv
  <2>4. CASE SwitchCfg /\ mode' = mode
    <3>1. CASE apstNode' = [k \in Line |-> Null] /\ dirty' = {}
      BY <1>4, <2>1, <3>1, Consts DEF AgeInv, Line
    <3>2. CASE UNCHANGED <<wr, rd, apstNode, dirty>>
      <4>1. Busy' = 0 /\ Awaited' = 0
        BY <2>2, <2>4 DEF SwitchCfg, Busy, Woken
      <4> QED
        BY <1>1, <1>5, <2>1, <2>4, <3>2, <4>1
    <3> QED
      BY <2>4, <3>1, <3>2 DEF SwitchCfg
  <2>5. CASE ~SwitchCfg
    <3>1. UNCHANGED <<rd, apstNode, mode>>
      BY <1>12, <2>5 DEF Firmware, WaitEdge, Publish, SyncCfgSetPick,
                         SyncCfgSetAdvance, BeginSwitch, SensorSwitch
    <3>2. AgeInv
      BY <1>2, <3>1
    <3>3. \A k \in Line : Age(k)' = Age(k)
      BY <3>1 DEF Age, Pred
    <3>4. Coming' <= Coming
      <4>1. Coming' = Load' /\ Coming = Load
        BY <2>2 DEF Load, Coming
      <4>2. Coming >= 0
        BY <1>1 DEF Coming
      <4> QED
        BY <1>12, <4>1, <4>2, FirmwareLoad
    <3>5. dirty' \subseteq {BufNum - 2}
      <4>1. CASE SyncCfgSetPick
        <5>1. \A k \in 0..SyncIndex : k \in InRound
          BY RingIndices
        <5>2. \A k \in 0..SyncIndex : apstNode[k] = wr => k = BufNum - 2
          BY <2>1, <3>2, <4>1, <5>1, NotRewritten DEF SyncCfgSetPick
        <5> QED
          BY <3>2, <4>1, <5>2 DEF SyncCfgSetPick, AgeInv
      <4>2. CASE ~SyncCfgSetPick
        <5>1. dirty' = dirty
          BY <1>12, <2>5, <4>2 DEF Firmware, WaitEdge, Publish,
                         SyncCfgSetAdvance, BeginSwitch, SensorSwitch
        <5> QED
          BY <3>2, <5>1 DEF AgeInv
      <4> QED
        BY <4>1, <4>2
    <3>6. ASSUME NEW k \in InRound, apstNode'[k] # Null
          PROVE  /\ Age(k)' <= k + 1
                 /\ Age(k)' + Coming' <= k + 2
      <4>1. apstNode[k] # Null /\ Age(k)' = Age(k)
        BY <1>4, <3>1, <3>3, <3>6
      <4>2. Age(k) <= k + 1 /\ Age(k) + Coming <= k + 2
        BY <2>1, <3>2, <4>1 DEF AgeInv
      <4>3. Age(k) \in Nat /\ k \in Nat
        BY <1>4, <4>1
      <4> QED
        BY <1>1, <3>4, <4>1, <4>2, <4>3, SumsBelow
    <3>7. apstNode'[0] \in {Null, Pred(rd)'}
      BY <3>1, <3>2 DEF AgeInv, Pred
    <3> QED
      BY <2>1, <3>5, <3>6, <3>7 DEF AgeInv
  <2> QED
    BY <2>3, <2>4, <2>5
<1> QED
  BY <1>6, <1>7, <1>8, <1>9, <1>10, <1>11, <1>12 DEF Next, Handler

-----------------------------------------------------------------------------
(* The configurations that are pending.                                    *)

\* What was submitted last, in this mode, has value v.
NewestIs(v) ==
  IF IsEmpty THEN due[0] = v
             ELSE Pred(wr) \notin stale /\ buf[Pred(wr)].val = v

\* A report that does not mark its registers as changed repeats what was
\* submitted before it; what was submitted in an old mode is known as such.
PendInv ==
  /\ \A s \in Slot : Pending(s) => buf[s].val \in Value
  /\ \A s \in stale : Pending(s)
  /\ stale # {} \/ fw = "sensor" => \A k \in Due : due[k] = None
  /\ fw = "sensor" => \A s \in Slot : Pending(s) => s \in stale
  /\ cleared => stale = {}
  /\ PendingCount = 1 /\ rd \notin stale /\ ~buf[rd].upd => due[0] = buf[rd].val
  /\ fw = "copy" => buf[wr].val = sns.last
  /\ sns.bConfig /\ fw # "sensor" => NewestIs(sns.last)
  /\ fw = "copy" /\ ~buf[wr].upd => NewestIs(sns.last)

\* A submitted configuration is the newest one.
LEMMA PendAdvance ==
  ASSUME TypeOK, TypeOK', CountInv, RingFits, PendInv, SyncCfgSetAdvance
  PROVE  PendInv'
<1> USE DEF ringVars, lineVars, histVars
<1>1. /\ wr \in Slot /\ rd \in Slot /\ stale \subseteq Slot
      /\ sns.last \in Value
  BY DEF TypeOK
<1>2. PendingCount \in Nat /\ PendingCount <= 2
  BY Counts, Consts, <1>1 DEF SyncCfgSetAdvance, CountInv, Load, Busy, Woken
<1>3. /\ wr' = Succ(wr) /\ UNCHANGED <<rd, buf, stale, due, cleared>>
      /\ fw = "copy" /\ fw' = "wait"
      /\ sns'.last = sns.last
  BY DEF SyncCfgSetAdvance, TypeOK
<1>4. PendingCount' = PendingCount + 1
  BY <1>1, <1>2, <1>3, RingDist, Consts DEF PendingCount, RingFits
<1>5. \A s \in Slot : Pending(s)' <=> Dist(rd, s) < PendingCount + 1
  BY <1>3, <1>4 DEF Pending, PendingCount, Dist
<1>6. \A s \in Slot : Pending(s) <=> Dist(rd, s) < PendingCount
  BY <1>1, Counts
<1>7. \A s \in Slot : Dist(rd, s) = PendingCount => s = wr
  BY <1>1, RingOne DEF PendingCount
<1>8. \A s \in Slot : Dist(rd, s) \in Nat
  BY <1>1, RingDist, Consts
<1>9. \A s \in Slot : Pending(s)' => Pending(s) \/ s = wr
  BY <1>2, <1>5, <1>6, <1>7, <1>8
<1>10. \A s \in Slot : Pending(s) => Pending(s)'
  BY <1>2, <1>5, <1>6, <1>8
<1>11. wr \notin stale
  BY <1>1, Counts DEF PendInv
<1>12. NewestIs(sns.last)'
  <2>1. Pred(wr)' = wr
    BY <1>1, <1>3, RingNext DEF Pred
  <2>2. ~IsEmpty'
    BY <1>2, <1>3, <1>4, RingDist DEF IsEmpty, PendingCount, TypeOK
  <2> QED
    BY <1>3, <1>11, <2>1, <2>2 DEF NewestIs, PendInv
<1>13. PendingCount' = 1 /\ ~buf[rd].upd => due[0] = buf[rd].val
  <2>1. PendingCount' = 1 => IsEmpty
    BY <1>1, <1>2, <1>4, Counts
  <2> QED
    BY <1>3, <2>1 DEF PendInv, NewestIs, IsEmpty
<1> QED
  BY <1>1, <1>3, <1>9, <1>10, <1>12, <1>13 DEF PendInv

LEMMA PendStep ==
  ASSUME TypeOK, TypeOK', HandlerInv, CountInv, ~Smp, RingFits, [Next]_vars,
         ~ReadsInSecond => PendInv, ~ReadsInSecond'
  PROVE  PendInv'
<1> USE DEF ringVars, lineVars, histVars
<1>1. ASSUME mode' = mode PROVE PendInv /\ ~ReadsInSecond
  BY <1>1 DEF ReadsInSecond
<1>2. ASSUME UNCHANGED <<wr, rd, buf, stale, cleared, due, mode>>,
             fw' \notin {"sensor", "copy"},
             (sns' = sns /\ fw # "sensor") \/ ~sns'.bConfig
      PROVE  PendInv'
  <2>1. PendInv
    BY <1>1, <1>2
  <2>2. /\ PendingCount' = PendingCount /\ (IsEmpty' <=> IsEmpty) /\ Pred(wr)' = Pred(wr)
        /\ \A s \in Slot : Pending(s)' <=> Pending(s)
    BY <1>2 DEF PendingCount, IsEmpty, Pred, Pending
  <2>3. stale' # {} => \A k \in Due : due'[k] = None
    BY <1>2, <2>1 DEF PendInv
  <2>4. sns'.bConfig => NewestIs(sns.last)'
    BY <1>2, <2>1, <2>2 DEF PendInv, NewestIs
  <2> QED
    BY <1>2, <2>1, <2>2, <2>3, <2>4 DEF PendInv, TypeOK
<1>3. ASSUME UNCHANGED <<wr, rd, buf, stale, cleared, due, sns, fw, mode>>
      PROVE  PendInv'
  <2>1. PendInv
    BY <1>1, <1>3
  <2>2. /\ PendingCount' = PendingCount /\ (IsEmpty' <=> IsEmpty) /\ Pred(wr)' = Pred(wr)
        /\ \A s \in Slot : Pending(s)' <=> Pending(s)
    BY <1>3 DEF PendingCount, IsEmpty, Pred, Pending
  <2>3. NewestIs(sns.last)' <=> NewestIs(sns.last)
    BY <1>3, <2>2 DEF NewestIs
  <2> QED
    BY <1>3, <2>1, <2>2, <2>3 DEF PendInv, TypeOK
<1>4. CASE FrameStart
  BY <1>3, <1>4 DEF FrameStart
<1>5. CASE ShiftNodes
  BY <1>3, <1>5 DEF ShiftNodes
<1>6. CASE WriteRegs
  BY <1>3, <1>6 DEF WriteRegs
<1>7. CASE SecondInt
  BY <1>3, <1>7 DEF SecondInt
<1>8. CASE UNCHANGED vars
  BY <1>3, <1>8 DEF vars
<1>9. CASE WaitEdge
  BY <1>2, <1>9 DEF WaitEdge
<1>10. CASE Publish
  BY <1>2, <1>10 DEF Publish
<1>11. CASE BeginSwitch
  BY <1>2, <1>11 DEF BeginSwitch
<1>12. CASE SensorSwitch
  BY <1>2, <1>12 DEF SensorSwitch
<1>13. CASE SyncCfgSetAdvance
  BY <1>1, <1>13, PendAdvance DEF SyncCfgSetAdvance
<1>14. CASE SyncCfgSetPick
  <2>1. PendInv /\ fw = "sync" /\ UNCHANGED <<wr, rd, stale, cleared, due, mode>>
    BY <1>1, <1>14 DEF SyncCfgSetPick
  <2>2. PICK v \in Value :
          /\ sns' = [last |-> v, bConfig |-> FALSE]
          /\ IF IsFull
             THEN fw' = "wait" /\ UNCHANGED buf
             ELSE fw' = "copy" /\ buf' = [buf EXCEPT ![wr] = SnsRegs(v)]
    BY <1>14 DEF SyncCfgSetPick
  <2>3. CASE IsFull
    BY <1>2, <2>1, <2>2, <2>3
  <2>4. CASE ~IsFull
    <3>1. wr \in Slot /\ rd \in Slot /\ buf \in [Slot -> Cfg] /\ Pred(wr) \in Slot
          /\ Pred(wr) # wr
      BY RingNext DEF TypeOK
    <3>2. ~Pending(wr)
      BY <3>1, Counts
    <3>3. /\ buf'[wr] = SnsRegs(v)
          /\ \A s \in Slot : s # wr => buf'[s] = buf[s]
          /\ fw' = "copy"
      BY <2>2, <2>4, <3>1
    <3>4. /\ PendingCount' = PendingCount /\ (IsEmpty' <=> IsEmpty) /\ Pred(wr)' = Pred(wr)
          /\ \A s \in Slot : Pending(s)' <=> Pending(s)
      BY <2>1 DEF PendingCount, IsEmpty, Pred, Pending
    <3>5. \A s \in Slot : Pending(s)' => buf'[s].val \in Value
      BY <2>1, <3>2, <3>3, <3>4 DEF PendInv
    <3>6. PendingCount' = 1 => rd # wr
      BY <3>1, <3>4, Counts DEF IsEmpty
    <3>7. PendingCount' = 1 /\ rd \notin stale /\ ~buf'[rd].upd => due[0] = buf'[rd].val
      BY <2>1, <3>1, <3>3, <3>4, <3>6 DEF PendInv
    <3>8. buf'[wr].val = sns'.last /\ sns'.last = v /\ ~sns'.bConfig
      BY <2>2, <3>3 DEF SnsRegs
    <3>9. ASSUME ~buf'[wr].upd PROVE NewestIs(sns.last)'
      <4>1. sns.bConfig /\ sns.last = v
        <5>1. SnsRegs(v).upd = (~sns.bConfig \/ v # sns.last)
          BY DEF SnsRegs
        <5> QED
          BY <3>3, <3>9, <5>1
      <4>2. NewestIs(v)
        BY <2>1, <4>1 DEF PendInv
      <4> QED
        BY <2>1, <3>1, <3>3, <3>4, <3>8, <4>2 DEF NewestIs
    <3>10. stale' # {} => \A k \in Due : due'[k] = None
      BY <2>1 DEF PendInv
    <3>11. (\A s \in stale' : Pending(s)') /\ (cleared' => stale' = {})
      BY <2>1, <3>4 DEF PendInv, TypeOK
    <3> QED
      BY <2>1, <3>3, <3>5, <3>7, <3>8, <3>9, <3>10, <3>11 DEF PendInv
  <2> QED
    BY <2>3, <2>4
<1>15. CASE ReadNewest
  <2> DEFINE s == Pred(wr)
  <2>1. /\ PendInv /\ isr = "read"
        /\ UNCHANGED <<wr, sns, fw, cleared, mode>>
        /\ stale' = {}
    BY <1>1, <1>15 DEF ReadNewest
  <2>2. rd' = wr /\ wr \in Slot /\ rd \in Slot /\ s \in Slot /\ s # wr
    BY <1>15, RingNext DEF ReadNewest, IsEmpty, TypeOK
  <2>3. IsEmpty' /\ PendingCount' = 0
    BY <2>1, <2>2, RingDist DEF IsEmpty, PendingCount
  <2>4. \A x \in Slot : ~Pending(x)'
    <3>1. \A x \in Slot : Dist(wr, x) >= 0
      BY <2>2, RingDist, Consts
    <3>2. \A x \in Slot : Pending(x)' <=> Dist(wr, x) < PendingCount'
      BY <2>1, <2>2 DEF Pending, Dist, PendingCount
    <3> QED
      BY <2>2, <2>3, <3>1, <3>2, RingDist, Consts
  <2>5. buf'[wr] = buf[wr]
    BY <1>15, <2>2 DEF ReadNewest, TypeOK
  <2>6. due' = DueNext(IF IsEmpty THEN due[0]
                       ELSE IF s \in stale THEN None ELSE buf[s].val)
    BY <1>15 DEF ReadNewest
  <2>7. \A v : DueNext(v)[0] = v
    BY Consts DEF DueNext, Due
  <2>8. \A v : NewestIs(v) => NewestIs(v)'
    <3>1. ASSUME NEW v, NewestIs(v) PROVE due'[0] = v
      BY <2>6, <2>7, <3>1 DEF NewestIs
    <3> QED
      BY <2>3, <3>1 DEF NewestIs
  <2>9. ASSUME fw = "sensor", NEW k \in Due PROVE due'[k] = None
    <3>1. \A i \in Due : due[i] = None
      BY <2>1, <2>9 DEF PendInv
    <3>2. ~IsEmpty => s \in stale
      BY <2>1, <2>2, <2>9, Counts, Consts DEF PendInv
    <3>3. due' = DueNext(None)
      BY <2>6, <3>1, <3>2, Consts DEF Due
    <3>4. k # 0 => k - 1 \in Due
      BY Consts DEF Due
    <3> QED
      BY <3>1, <3>3, <3>4 DEF DueNext
  <2> HIDE DEF s
  <2> QED
    BY <2>1, <2>2, <2>3, <2>4, <2>5, <2>8, <2>9 DEF PendInv
<1>16. CASE SwitchCfg
  <2>1. /\ due' = [k \in Due |-> None] /\ fw' = "sensor" /\ sns' = sns
    BY <1>16 DEF SwitchCfg
  <2>2. CASE wr' = 0 /\ rd' = 0 /\ stale' = {}
    <3>1. PendingCount' = 0
      BY <2>2, RingDist, Cleared DEF PendingCount
    <3>2. \A x \in Slot : Dist(0, x) >= 0
      BY RingDist, Cleared, Consts
    <3>3. \A x \in Slot : Pending(x)' <=> Dist(0, x) < PendingCount'
      BY <2>2 DEF Pending, Dist, PendingCount
    <3>4. \A x \in Slot : ~Pending(x)'
      BY <3>1, <3>2, <3>3, RingDist, Cleared, Consts
    <3> QED
      BY <2>1, <2>2, <3>1, <3>4 DEF PendInv
  <2>3. CASE /\ UNCHANGED <<wr, rd, buf, mode>> /\ ~cleared'
             /\ stale' = {x \in Slot : Pending(x)}
    <3>1. PendInv
      BY <1>1, <2>3
    <3>2. PendingCount' = PendingCount /\ \A x \in Slot : Pending(x)' <=> Pending(x)
      BY <2>3 DEF PendingCount, Pending
    <3>3. PendingCount = 1 => rd \in stale'
      <4>1. rd \in Slot /\ wr \in Slot /\ Dist(rd, rd) = 0
        BY RingDist DEF TypeOK
      <4> QED
        BY <2>3, <4>1, Counts
    <3> QED
      BY <2>1, <2>3, <3>1, <3>2, <3>3 DEF PendInv
  <2> QED
    BY <1>16, <2>2, <2>3 DEF SwitchCfg
<1> QED
  BY <1>4, <1>5, <1>6, <1>7, <1>8, <1>9, <1>10, <1>11, <1>12, <1>13, <1>14,
     <1>15, <1>16 DEF Next, Handler, Firmware

-----------------------------------------------------------------------------
(* What the line points to.                                                *)

\* The entry of the line for what was the newest k frames ago; between the
\* parts of the handler the line has moved on already.
Src(k) == IF isr = "read" THEN apstNode[k + 1] ELSE apstNode[k]

\* The line has what was due, and an entry that repeats the one behind it, or
\* that is not marked as changed, brings no other value.
ValueInv ==
  /\ \A k \in Due : due[k] # None =>
       Src(k) # Null /\ buf[Src(k)].val = due[k] /\ due[0] # None
  /\ \A k \in Due : k < MaxDelay /\ due[k] # None =>
       /\ ~buf[Src(k)].upd => due[k + 1] = due[k]
       /\ Src(k) = Src(k + 1) => due[k + 1] = due[k]
  /\ isr = "read" => apstNode[0] = apstNode[1]
  /\ cleared => \A k \in Due : Src(k) # Null => due[k] # None

LEMMA DueIndex ==
  /\ 0 \in Due /\ 0 \in Line /\ 1 \in Line
  /\ \A k \in Due : /\ k \in Nat /\ k \in Line /\ k + 1 \in Line
                    /\ k < MaxDelay => k + 1 \in Due
                    /\ k # 0 => k - 1 \in Due /\ k - 1 < MaxDelay
                               /\ (k - 1) + 1 = k
BY Consts DEF Due, Line

LEMMA SrcType ==
  ASSUME TypeOK, NEW k \in Due
  PROVE  Src(k) \in Slot \cup {Null}
BY DueIndex DEF TypeOK, Src

\* The read of the newest configuration, with nothing read before in the frame.
LEMMA ReadStep ==
  ASSUME TypeOK, HandlerInv, ~ReadsInSecond, AgeInv, ValueInv, PendInv,
         ReadNewest
  PROVE  /\ \A x \in Slot : buf'[x].val = buf[x].val
         /\ \A x \in Slot : buf[x].upd => buf'[x].upd
         /\ \A k \in Due : k # 0 => /\ due'[k] = due[k - 1]
                                    /\ Src(k)' = Src(k - 1)
         /\ \A k \in Due : apstNode'[k + 1] = Src(k)
         /\ IsEmpty => due'[0] = due[0] /\ Src(0)' = Src(0)
         /\ ~IsEmpty => /\ Src(0)' = Pred(wr) /\ Pred(wr) \in Slot
                        /\ Src(0) # Pred(wr)
                        /\ due'[0] = IF Pred(wr) \in stale THEN None
                                     ELSE buf[Pred(wr)].val
                        /\ buf[Pred(wr)].val \in Value
                        /\ buf'[Pred(wr)].upd <=> buf[Pred(wr)].upd \/ IsErr
<1> DEFINE s == Pred(wr)
<1>1. /\ isr = "read" /\ isr' = "write" /\ ~shifted /\ bErr = IsErr
      /\ apstNode[0] = apstNode[1]
  BY DEF ReadNewest, HandlerInv, ValueInv
<1>2. /\ wr \in Slot /\ rd \in Slot /\ s \in Slot /\ buf \in [Slot -> Cfg]
      /\ apstNode \in [Line -> Slot \cup {Null}]
  BY RingNext DEF TypeOK
<1>3. due' = DueNext(IF IsEmpty THEN due[0]
                     ELSE IF s \in stale THEN None ELSE buf[s].val)
  BY DEF ReadNewest
<1>4. \A v : \A k \in Due : DueNext(v)[k] = IF k = 0 THEN v ELSE due[k - 1]
  BY <1>1 DEF DueNext
<1>5. \A k \in Due : k # 0 => due'[k] = due[k - 1]
  BY <1>3, <1>4
<1>6. due'[0] = IF IsEmpty THEN due[0]
                ELSE IF s \in stale THEN None ELSE buf[s].val
  BY <1>3, <1>4, DueIndex
<1>7. apstNode' = IF IsEmpty THEN apstNode ELSE [apstNode EXCEPT ![0] = s]
  BY DEF ReadNewest
<1>8. \A k \in Line : k # 0 => apstNode'[k] = apstNode[k]
  BY <1>2, <1>7
<1>9. \A k \in Due : apstNode'[k + 1] = Src(k)
  <2>1. \A k \in Due : k + 1 # 0 /\ k + 1 \in Line
    BY DueIndex, Consts DEF Due
  <2> QED
    BY <1>1, <1>8, <2>1 DEF Src
<1>10. \A k \in Due : k # 0 => Src(k)' = Src(k - 1)
  <2>1. ASSUME NEW k \in Due, k # 0 PROVE Src(k)' = Src(k - 1)
    <3>1. Src(k)' = apstNode'[k]
      BY <1>1 DEF Src
    <3>2. Src(k - 1) = apstNode[k]
      BY <1>1, <2>1, DueIndex DEF Src
    <3> QED
      BY <1>8, <2>1, <3>1, <3>2, DueIndex
  <2> QED
    BY <2>1
<1>11. Src(0) = apstNode[0] /\ Src(0)' = apstNode'[0]
  BY <1>1 DEF Src
<1>12. IsEmpty => due'[0] = due[0] /\ Src(0)' = Src(0)
  BY <1>6, <1>7, <1>11
<1>13. CASE IsEmpty
  BY <1>5, <1>9, <1>10, <1>12, <1>13 DEF ReadNewest
<1>14. CASE ~IsEmpty
  <2>1. Src(0)' = s
    BY <1>2, <1>7, <1>11, <1>14, DueIndex
  <2>2. Src(0) # s
    <3>1. Pred(rd) # s /\ s # Null
      BY <1>2, <1>14, RingNext DEF IsEmpty
    <3> QED
      BY <1>11, <3>1 DEF AgeInv
  <2>3. buf[s].val \in Value
    BY <1>2, <1>14, Counts, Consts DEF PendInv
  <2>4. buf' = [buf EXCEPT ![s].upd = buf[s].upd \/ (bErr /\ buf[s].val # None)]
    BY <1>14 DEF ReadNewest
  <2>5. buf[s].val # None
    BY <2>3, Consts
  <2>6. buf'[s].upd <=> buf[s].upd \/ IsErr
    <3>1. buf'[s].upd = (buf[s].upd \/ (bErr /\ buf[s].val # None))
      BY <1>2, <2>4 DEF Cfg
    <3> QED
      BY <1>1, <2>5, <3>1
  <2>7. \A x \in Slot : buf'[x].val = buf[x].val
    BY <1>2, <2>4 DEF Cfg
  <2>8. \A x \in Slot : x # s => buf'[x] = buf[x]
    BY <1>2, <2>4
  <2>9. \A x \in Slot : buf[x].upd => buf'[x].upd
    BY <2>6, <2>8
  <2> HIDE DEF s
  <2>10. due'[0] = IF s \in stale THEN None ELSE buf[s].val
    BY <1>6, <1>14
  <2> QED
    BY <1>2, <1>5, <1>9, <1>10, <1>14, <2>1, <2>2, <2>3, <2>6, <2>7, <2>9, <2>10
       DEF s
<1> QED
  BY <1>13, <1>14

\* When the entry that becomes due is not marked, or not new, what is due does
\* not change.
LEMMA ReadLink ==
  ASSUME TypeOK, HandlerInv, ~ReadsInSecond, AgeInv, ValueInv, PendInv,
         ReadNewest, NEW k \in Due, due'[k] # None,
         ~buf'[Src(k)'].upd \/ Src(k)' = apstNode'[k + 1]
  PROVE  due[k] = due'[k]
<1>1. CASE k # 0
  <2>1. /\ due'[k] = due[k - 1] /\ Src(k)' = Src(k - 1) /\ apstNode'[k + 1] = Src(k)
        /\ k - 1 \in Due /\ k - 1 < MaxDelay /\ (k - 1) + 1 = k
    BY <1>1, ReadStep, DueIndex
  <2>2. Src(k - 1) \in Slot
    BY <2>1, SrcType DEF ValueInv
  <2>3. ~buf[Src(k - 1)].upd \/ Src(k - 1) = Src(k)
    BY <2>1, <2>2, ReadStep
  <2> QED
    BY <2>1, <2>3 DEF ValueInv
<1>2. CASE k = 0
  <2>1. CASE IsEmpty
    BY <1>2, <2>1, ReadStep
  <2>2. CASE ~IsEmpty
    <3>1. /\ Src(0)' = Pred(wr) /\ apstNode'[k + 1] # Pred(wr)
          /\ Pred(wr) \notin stale /\ due'[0] = buf[Pred(wr)].val
      BY <1>2, <2>2, ReadStep
    <3>2. ~buf'[Pred(wr)].upd
      BY <1>2, <3>1
    <3>3. ~buf[Pred(wr)].upd /\ ~IsErr
      BY <2>2, <3>2, ReadStep
    <3>4. wr \in Slot /\ rd \in Slot
      BY DEF TypeOK
    <3>5. Succ(rd) = wr
      BY <2>2, <3>3 DEF IsErr
    <3>6. Pred(wr) = rd /\ PendingCount = 1
      BY <3>4, <3>5, RingNext, RingDist DEF PendingCount
    <3> QED
      BY <1>2, <3>1, <3>3, <3>6 DEF PendInv
  <2> QED
    BY <2>1, <2>2
<1> QED
  BY <1>1, <1>2

LEMMA ValueStep ==
  ASSUME TypeOK, TypeOK', HandlerInv, CountInv, ~Smp, RingFits, [Next]_vars,
         ~ReadsInSecond => AgeInv /\ PendInv /\ ValueInv, ~ReadsInSecond'
  PROVE  ValueInv'
<1> USE DEF ringVars, lineVars, histVars
<1>1. ASSUME mode' = mode PROVE ~ReadsInSecond /\ AgeInv /\ PendInv /\ ValueInv
  BY <1>1 DEF ReadsInSecond
<1>2. ASSUME UNCHANGED <<apstNode, due, mode>>, cleared' = cleared,
             isr' = isr \/ (isr # "read" /\ isr' # "read"),
             \A k \in Due : Src(k) \in Slot => buf'[Src(k)] = buf[Src(k)]
      PROVE  ValueInv'
  <2>1. ValueInv
    BY <1>1, <1>2
  <2>2. \A k \in Int : Src(k)' = Src(k)
    BY <1>2 DEF Src
  <2>3. \A k \in Due : k \in Int /\ k + 1 \in Int
    BY Consts DEF Due
  <2>4. \A k \in Due : Src(k) # Null => Src(k) \in Slot
    BY SrcType
  <2>5. \A k \in Due : due[k] # None => buf'[Src(k)] = buf[Src(k)]
    BY <1>2, <2>1, <2>4 DEF ValueInv
  <2>6. \A k \in Due : due'[k] # None =>
         Src(k)' # Null /\ buf'[Src(k)'].val = due'[k] /\ due'[0] # None
    BY <1>2, <2>1, <2>2, <2>3, <2>5 DEF ValueInv
  <2>7. \A k \in Due : k < MaxDelay /\ due'[k] # None =>
         /\ ~buf'[Src(k)'].upd => due'[k + 1] = due'[k]
         /\ Src(k)' = Src(k + 1)' => due'[k + 1] = due'[k]
    BY <1>2, <2>1, <2>2, <2>3, <2>5 DEF ValueInv
  <2>8. cleared' => \A k \in Due : Src(k)' # Null => due'[k] # None
    BY <1>2, <2>1, <2>2, <2>3 DEF ValueInv
  <2>9. isr' = "read" => apstNode'[0] = apstNode'[1]
    BY <1>2, <2>1 DEF ValueInv
  <2> QED
    BY <2>6, <2>7, <2>8, <2>9 DEF ValueInv
<1>3. CASE FrameStart
  BY <1>2, <1>3 DEF FrameStart
<1>4. CASE WriteRegs
  BY <1>2, <1>4 DEF WriteRegs
<1>5. CASE SecondInt
  BY <1>2, <1>5 DEF SecondInt
<1>6. CASE UNCHANGED vars
  BY <1>2, <1>6 DEF vars
<1>7. CASE ShiftNodes
  <2>1. /\ ValueInv /\ isr = "shift" /\ isr' = "read"
        /\ UNCHANGED <<due, buf, cleared>>
        /\ apstNode' = [k \in Line |-> apstNode[Before(k)]]
    BY <1>1, <1>7 DEF ShiftNodes
  <2>2. ASSUME NEW k \in Int, k + 1 \in Line, k >= 0 PROVE Src(k)' = Src(k)
    <3>1. Before(k + 1) = k
      BY <2>2 DEF Before
    <3> QED
      BY <2>1, <2>2, <3>1 DEF Src
  <2>3. \A k \in Due : Src(k)' = Src(k)
    BY <2>2, DueIndex, Consts DEF Due
  <2>4. \A k \in Due : k < MaxDelay => Src(k + 1)' = Src(k + 1)
    BY <2>3, DueIndex
  <2>5. apstNode'[0] = apstNode'[1]
    BY <2>1, DueIndex DEF Before
  <2> QED
    BY <2>1, <2>3, <2>4, <2>5 DEF ValueInv
<1>8. CASE ReadNewest
  <2>1. /\ ~ReadsInSecond /\ AgeInv /\ PendInv /\ ValueInv
        /\ cleared' = cleared /\ isr' = "write"
    BY <1>1, <1>8 DEF ReadNewest
  <2>2. ASSUME NEW k \in Due, due'[k] # None
        PROVE  Src(k)' # Null /\ buf'[Src(k)'].val = due'[k] /\ due'[0] # None
    <3>1. CASE IsEmpty /\ k = 0
      <4>1. Src(0)' = Src(0) /\ due[0] # None /\ due'[0] = due[0]
        BY <1>8, <2>1, <2>2, <3>1, ReadStep
      <4>2. Src(0) \in Slot /\ buf[Src(0)].val = due[0]
        BY <2>1, <4>1, SrcType, DueIndex DEF ValueInv
      <4> QED
        BY <1>8, <2>1, <3>1, <4>1, <4>2, ReadStep DEF ValueInv
    <3>2. CASE ~IsEmpty /\ k = 0
      <4>1. /\ Src(0)' = Pred(wr) /\ Pred(wr) \in Slot
            /\ due'[0] = IF Pred(wr) \in stale THEN None ELSE buf[Pred(wr)].val
            /\ buf'[Pred(wr)].val = buf[Pred(wr)].val
        BY <1>8, <2>1, <3>2, ReadStep
      <4>2. Pred(wr) # Null
        BY <4>1, RingNext
      <4> QED
        BY <2>2, <3>2, <4>1, <4>2
    <3>3. CASE k # 0
      <4>1. /\ Src(k)' = Src(k - 1) /\ due'[k] = due[k - 1] /\ k - 1 \in Due
        BY <1>8, <2>1, <3>3, ReadStep, DueIndex
      <4>2. Src(k - 1) \in Slot /\ buf[Src(k - 1)].val = due[k - 1] /\ due[0] # None
        BY <2>1, <2>2, <4>1, SrcType DEF ValueInv
      <4>3. buf'[Src(k - 1)].val = buf[Src(k - 1)].val
        BY <1>8, <2>1, <4>2, ReadStep
      <4>4. due'[0] # None
        <5>1. CASE IsEmpty
          BY <1>8, <2>1, <4>2, <5>1, ReadStep
        <5>2. CASE ~IsEmpty
          <6>1. stale = {}
            BY <2>1, <4>2, DueIndex DEF PendInv
          <6>2. due'[0] \in Value
            BY <1>8, <2>1, <5>2, <6>1, ReadStep
          <6> QED
            BY <6>2, Consts
        <5> QED
          BY <5>1, <5>2
      <4>5. Src(k - 1) # Null
        BY <4>2, RingNext
      <4> QED
        BY <4>1, <4>2, <4>3, <4>4, <4>5
    <3> QED
      BY <3>1, <3>2, <3>3
  <2>3. ASSUME NEW k \in Due, k < MaxDelay, due'[k] # None,
               ~buf'[Src(k)'].upd \/ Src(k)' = Src(k + 1)'
        PROVE  due'[k + 1] = due'[k]
    <3>1. k + 1 \in Due /\ k + 1 # 0 /\ (k + 1) - 1 = k
      BY <2>3, DueIndex, Consts DEF Due
    <3>2. due'[k + 1] = due[k]
      <4>1. due'[k + 1] = due[(k + 1) - 1]
        BY <1>8, <2>1, <3>1, ReadStep
      <4> QED
        BY <3>1, <4>1
    <3>3. Src(k + 1)' = apstNode'[k + 1]
      BY <2>1 DEF Src
    <3> QED
      BY <1>8, <2>1, <2>3, <3>2, <3>3, ReadLink
  <2>4. ASSUME cleared, NEW k \in Due, Src(k)' # Null PROVE due'[k] # None
    <3>1. CASE k # 0
      <4>1. /\ Src(k)' = Src(k - 1) /\ due'[k] = due[k - 1] /\ k - 1 \in Due
        BY <1>8, <2>1, <3>1, ReadStep, DueIndex
      <4> QED
        BY <2>1, <2>4, <4>1 DEF ValueInv
    <3>2. CASE k = 0 /\ IsEmpty
      <4>1. Src(0)' = Src(0) /\ due'[0] = due[0]
        BY <1>8, <2>1, <3>2, ReadStep
      <4> QED
        BY <2>1, <2>4, <3>2, <4>1 DEF ValueInv
    <3>3. CASE k = 0 /\ ~IsEmpty
      <4>1. stale = {}
        BY <2>1, <2>4 DEF PendInv
      <4>2. due'[0] \in Value
        BY <1>8, <2>1, <3>3, <4>1, ReadStep
      <4> QED
        BY <3>3, <4>2, Consts
    <3> QED
      BY <3>1, <3>2, <3>3
  <2> QED
    BY <2>1, <2>2, <2>3, <2>4 DEF ValueInv
<1>9. CASE Firmware
  <2>1. isr \in {"idle", "between"} /\ isr' = isr
    BY <1>9, FirmwareWaits
  <2>2. CASE SwitchCfg
    <3>1. due' = [k \in Due |-> None]
      BY <2>2 DEF SwitchCfg
    <3>2. cleared' => \A k \in Due : apstNode'[k] = Null
      BY <2>2, DueIndex DEF SwitchCfg
    <3>3. isr' # "read" /\ \A k \in Due : Src(k)' = apstNode'[k]
      BY <2>1 DEF Src
    <3> QED
      BY <3>1, <3>2, <3>3 DEF ValueInv
  <2>3. CASE ~SwitchCfg
    <3>1. UNCHANGED <<apstNode, due, mode, cleared>>
      BY <1>9, <2>3 DEF Firmware, WaitEdge, Publish, SyncCfgSetPick,
                        SyncCfgSetAdvance, BeginSwitch, SensorSwitch
    <3>2. ASSUME NEW k \in Due, Src(k) \in Slot PROVE buf'[Src(k)] = buf[Src(k)]
      <4>1. CASE SyncCfgSetPick
        <5>1. Src(k) # wr
          <6>1. Src(k) = apstNode[k] /\ k \in InRound /\ k # BufNum - 2
            BY <2>1, RingIndices DEF Src
          <6> QED
            BY <1>1, <2>1, <3>1, <4>1, <6>1, NotRewritten DEF SyncCfgSetPick
        <5>2. \A x \in Slot : x # wr => buf'[x] = buf[x]
          BY <4>1 DEF SyncCfgSetPick, TypeOK
        <5> QED
          BY <3>2, <5>1, <5>2
      <4>2. CASE ~SyncCfgSetPick
        BY <1>9, <2>3, <4>2 DEF Firmware, WaitEdge, Publish,
                        SyncCfgSetAdvance, BeginSwitch, SensorSwitch
      <4> QED
        BY <4>1, <4>2
    <3> QED
      BY <1>2, <2>1, <3>1, <3>2
  <2> QED
    BY <2>2, <2>3
<1> QED
  BY <1>3, <1>4, <1>5, <1>6, <1>7, <1>8, <1>9 DEF Next, Handler

-----------------------------------------------------------------------------
(* The register.                                                           *)

\* The register holds what is due, except between the read of a configuration
\* and the interrupt the register is written in; until then the configuration
\* that brings the value is marked.
RegInv ==
  due[mode.delay] # None =>
    /\ isr \in {"idle", "shift", "read"} => reg = due[mode.delay]
    /\ isr = "between" /\ mode.intPos = 0 => reg = due[mode.delay]
    /\ isr \in {"write", "between"} =>
         \/ reg = due[mode.delay]
         \/ SnsRegConfigNode # Null /\ buf[SnsRegConfigNode].upd

\* A write of the registers puts what is due into the register or leaves it.
LEMMA RegWrite ==
  ASSUME TypeOK, ValueInv, isr # "read", NEW P, RegConfigSensor(P)
  PROVE  /\ reg' # reg => Src(mode.delay) # Null
         /\ due[mode.delay] # None => reg' \in {reg, due[mode.delay]}
         /\ (/\ due[mode.delay] # None /\ mode.intPos \in P
             /\ SnsRegConfigNode # Null /\ buf[SnsRegConfigNode].upd)
             => reg' = due[mode.delay]
<1> DEFINE d == mode.delay  s == SnsRegConfigNode
<1>1. d \in Due /\ 0 \in Due
  BY DelayIndex, DueIndex
<1>2. s \in {Null, apstNode[d]}
  BY DEF SnsRegConfigNode
<1>3. Src(d) = apstNode[d] /\ Src(0) = apstNode[0]
  BY DEF Src
<1>4. reg' = IF /\ mode.intPos \in P
                /\ apstNode[0] # Null /\ buf[apstNode[0]].val # None
                /\ s # Null /\ buf[s].val # None /\ buf[s].upd
             THEN buf[s].val ELSE reg
  BY DEF RegConfigSensor
<1>5. due[d] # None => /\ apstNode[d] # Null /\ buf[apstNode[d]].val = due[d]
                       /\ apstNode[0] # Null /\ buf[apstNode[0]].val # None
  BY <1>1, <1>3 DEF ValueInv
<1> HIDE DEF d, s
<1>6. reg' # reg => Src(d) # Null
  BY <1>2, <1>3, <1>4
<1>7. due[d] # None => reg' \in {reg, due[d]}
  BY <1>2, <1>4, <1>5
<1>8. ASSUME due[d] # None, mode.intPos \in P, s # Null, buf[s].upd
      PROVE  reg' = due[d]
  BY <1>2, <1>4, <1>5, <1>8
<1> QED
  BY <1>6, <1>7, <1>8 DEF d, s

LEMMA RegStep ==
  ASSUME TypeOK, TypeOK', HandlerInv, CountInv, ~Smp, RingFits, [Next]_vars,
         ~ReadsInSecond => AgeInv /\ PendInv /\ ValueInv /\ RegInv,
         ~ReadsInSecond'
  PROVE  RegInv'
<1> USE DEF ringVars, lineVars, histVars
<1>1. ASSUME mode' = mode
      PROVE  ~ReadsInSecond /\ AgeInv /\ PendInv /\ ValueInv /\ RegInv
  BY <1>1 DEF ReadsInSecond
<1>2. mode.intPos \in {0, 1} /\ mode.delay \in Due
  BY ConstAssumption, DelayIndex DEF TypeOK
<1>3. UNCHANGED <<apstNode, mode>> => SnsRegConfigNode' = SnsRegConfigNode
  BY DEF SnsRegConfigNode
<1>4. CASE FrameStart
  <2>1. /\ UNCHANGED <<apstNode, buf, due, mode>> /\ isr = "idle"
        /\ ~ReadsInSecond /\ ValueInv /\ RegInv
    BY <1>1, <1>4 DEF FrameStart
  <2>2. \/ isr' = "shift" /\ reg' = reg
        \/ isr' = "between" /\ RegConfigSensor({0})
    BY <1>4, <2>1 DEF FrameStart
  <2>3. due[mode.delay] # None => reg' = due[mode.delay]
    BY <2>1, <2>2, RegWrite DEF RegInv
  <2> QED
    BY <2>1, <2>2, <2>3 DEF RegInv
<1>5. CASE SecondInt
  <2>1. /\ UNCHANGED <<apstNode, buf, due, mode>> /\ isr = "between"
        /\ ~ReadsInSecond /\ ValueInv /\ RegInv
    BY <1>1, <1>5 DEF SecondInt
  <2>2. isr' = "idle" /\ RegConfigSensor({1})
    BY <1>5, <2>1 DEF SecondInt
  <2>3. due[mode.delay] # None => reg' = due[mode.delay]
    BY <1>2, <2>1, <2>2, RegWrite DEF RegInv
  <2> QED
    BY <2>1, <2>2, <2>3 DEF RegInv
<1>6. CASE WriteRegs
  <2>1. /\ UNCHANGED <<apstNode, buf, due, mode>> /\ isr = "write"
        /\ ~ReadsInSecond /\ ValueInv /\ RegInv
    BY <1>1, <1>6 DEF WriteRegs
  <2>2. ~second
    BY <2>1 DEF HandlerInv
  <2>3. isr' = "between" /\ RegConfigSensor({0})
    BY <1>6, <2>2 DEF WriteRegs
  <2>4. ASSUME due[mode.delay] # None
        PROVE  /\ mode.intPos = 0 => reg' = due[mode.delay]
               /\ \/ reg' = due[mode.delay]
                  \/ SnsRegConfigNode # Null /\ buf[SnsRegConfigNode].upd
    BY <2>1, <2>3, <2>4, RegWrite DEF RegInv
  <2> QED
    BY <1>3, <2>1, <2>3, <2>4 DEF RegInv
<1>7. CASE ShiftNodes
  BY <1>1, <1>7 DEF ShiftNodes, RegInv
<1>8. CASE ReadNewest
  <2> DEFINE d == mode.delay
  <2>1. /\ ~ReadsInSecond /\ AgeInv /\ PendInv /\ ValueInv /\ RegInv
        /\ UNCHANGED <<mode, reg>> /\ isr = "read" /\ isr' = "write"
    BY <1>1, <1>8 DEF ReadNewest
  <2>2. SUFFICES ASSUME due'[d] # None
                 PROVE  \/ reg = due'[d]
                        \/ SnsRegConfigNode' # Null /\ buf'[SnsRegConfigNode'].upd
    BY <2>1 DEF RegInv
  <2>3. Src(d)' = apstNode'[d] /\ Src(d)' # Null
    <3>1. ValueInv'
      BY <2>1, ValueStep
    <3> QED
      BY <1>2, <2>1, <2>2, <3>1 DEF ValueInv, Src
  <2>4. CASE ~buf'[Src(d)'].upd \/ Src(d)' = apstNode'[d + 1]
    <3>1. due[d] = due'[d]
      BY <1>2, <1>8, <2>1, <2>2, <2>4, ReadLink
    <3> QED
      BY <2>1, <2>2, <3>1 DEF RegInv
  <2>5. CASE buf'[Src(d)'].upd /\ Src(d)' # apstNode'[d + 1]
    <3>1. SnsRegConfigNode' = apstNode'[d]
      BY <2>1, <2>3, <2>5 DEF SnsRegConfigNode
    <3> QED
      BY <2>3, <2>5, <3>1
  <2> QED
    BY <2>4, <2>5
<1>9. CASE Firmware
  <2>1. isr \in {"idle", "between"} /\ isr' = isr
    BY <1>9, FirmwareWaits
  <2>2. CASE SwitchCfg
    <3>1. due' = [k \in Due |-> None]
      BY <2>2 DEF SwitchCfg
    <3>2. mode'.delay \in Due
      BY DelayIndex, <1>2, <2>2 DEF SwitchCfg, TypeOK
    <3> QED
      BY <3>1, <3>2 DEF RegInv
  <2>3. CASE SensorSwitch
    <3>1. due[mode.delay] = None /\ UNCHANGED <<due, mode>>
      BY <1>1, <1>2, <2>3 DEF SensorSwitch, PendInv
    <3> QED
      BY <3>1 DEF RegInv
  <2>4. CASE ~SwitchCfg /\ ~SensorSwitch
    <3>1. UNCHANGED <<apstNode, due, mode, reg>>
      BY <1>9, <2>4 DEF Firmware, WaitEdge, Publish, SyncCfgSetPick,
                        SyncCfgSetAdvance, BeginSwitch
    <3>2. /\ AgeInv /\ RegInv /\ SnsRegConfigNode' = SnsRegConfigNode
      BY <1>1, <1>3, <3>1
    <3>3. ASSUME SnsRegConfigNode # Null
          PROVE  buf'[SnsRegConfigNode] = buf[SnsRegConfigNode]
      <4>1. CASE SyncCfgSetPick
        <5>1. SnsRegConfigNode = apstNode[mode.delay]
          BY <3>3 DEF SnsRegConfigNode
        <5>2. /\ mode.delay \in InRound /\ mode.delay \in Line
              /\ mode.delay # BufNum - 2
          BY <1>2, RingIndices
        <5>3. SnsRegConfigNode # wr
          BY <2>1, <3>2, <4>1, <5>1, <5>2, NotRewritten DEF SyncCfgSetPick
        <5>4. SnsRegConfigNode \in Slot
          BY <3>3, <5>1, <5>2 DEF TypeOK
        <5>5. \A x \in Slot : x # wr => buf'[x] = buf[x]
          BY <4>1 DEF SyncCfgSetPick, TypeOK
        <5> QED
          BY <5>3, <5>4, <5>5
      <4>2. CASE ~SyncCfgSetPick
        BY <1>9, <2>4, <4>2 DEF Firmware, WaitEdge, Publish,
                        SyncCfgSetAdvance, BeginSwitch
      <4> QED
        BY <4>1, <4>2
    <3> QED
      BY <2>1, <3>1, <3>2, <3>3 DEF RegInv
  <2> QED
    BY <2>2, <2>3, <2>4
<1>10. CASE UNCHANGED vars
  BY <1>1, <1>3, <1>10 DEF vars, RegInv
<1> QED
  BY <1>4, <1>5, <1>6, <1>7, <1>8, <1>9, <1>10 DEF Next, Handler

-----------------------------------------------------------------------------
(* The invariant and the theorems.                                         *)

\* What holds in every mode, and what holds in those that read the ring in the
\* first interrupt.
SyncInv ==
  /\ TypeOK /\ HandlerInv /\ CountInv
  /\ ~ReadsInSecond => AgeInv /\ PendInv /\ ValueInv /\ RegInv

LEMMA SyncInit == Init => SyncInv
<1> SUFFICES ASSUME Init PROVE SyncInv
  OBVIOUS
<1>1. TypeOK /\ wr = 0 /\ rd = 0 /\ wr \in Slot /\ rd \in Slot
  BY TypeInit DEF Init, TypeOK
<1>2. PendingCount = 0 /\ (\A s \in Slot : ~Pending(s)) /\ ~IsErr
  <2>1. PendingCount = 0
    BY <1>1, RingDist DEF PendingCount
  <2>2. \A s \in Slot : Dist(rd, s) >= 0
    BY <1>1, RingDist, Consts
  <2>3. \A s \in Slot : ~(Dist(rd, s) < PendingCount)
    BY <1>1, <2>1, <2>2, RingDist, Consts
  <2> QED
    BY <1>1, <2>1, <2>3, Counts
<1>3. /\ isr = "idle" /\ ~second /\ fw = "wait" /\ ~useNode /\ ~sns.bConfig
      /\ apstNode = [k \in Line |-> Null] /\ dirty = {} /\ stale = {} /\ cleared
      /\ due = [k \in Due |-> None]
  BY DEF Init
<1>4. HandlerInv
  BY <1>3 DEF HandlerInv
<1>5. CountInv
  BY <1>2, <1>3 DEF CountInv, Load, Busy, Woken
<1>6. AgeInv
  BY <1>3, DueIndex DEF AgeInv, InRound
<1>7. PendInv
  BY <1>2, <1>3 DEF PendInv
<1>8. ValueInv
  <2>1. \A k \in Due : Src(k) = Null /\ due[k] = None
    BY <1>3, DueIndex DEF Src
  <2> QED
    BY <1>3, <2>1 DEF ValueInv
<1>9. RegInv
  BY <1>1, <1>3, DelayIndex DEF RegInv
<1> QED
  BY <1>1, <1>4, <1>5, <1>6, <1>7, <1>8, <1>9 DEF SyncInv

LEMMA SyncStep ==
  ASSUME ~Smp, RingFits, SyncInv, [Next]_vars PROVE SyncInv'
<1>1. TypeOK' /\ HandlerInv'
  BY TypeStep, HandlerStep DEF SyncInv
<1>2. CountInv'
  BY <1>1, CountStep DEF SyncInv
<1>3. ~ReadsInSecond' => AgeInv' /\ PendInv' /\ ValueInv' /\ RegInv'
  BY <1>1, AgeStep, PendStep, ValueStep, RegStep DEF SyncInv
<1> QED
  BY <1>1, <1>2, <1>3 DEF SyncInv

LEMMA SyncAlways == ~Smp /\ RingFits => (Spec => []SyncInv)
<1> SUFFICES ASSUME ~Smp, RingFits PROVE Spec => []SyncInv
  OBVIOUS
<1>1. SyncInv /\ [Next]_vars => SyncInv'
  BY SyncStep
<1> QED
  BY <1>1, SyncInit, PTL DEF Spec

\* The sensor holds, after every frame, the newest configuration of the frame
\* the register's delay refers to (ISP_DRV_CalcSyncCfg,
\* ISP_DRV_GetSnsRegConfigNode), for any ring that is long enough for the
\* delays in use, as the driver's is.
THEOREM AppliedAsDelayed == ~Smp /\ RingFits => (Spec => []AppliesDelayed)
<1>1. SyncInv => AppliesDelayed
  BY DEF SyncInv, RegInv, AppliesDelayed
<1> QED
  BY <1>1, SyncAlways, PTL

\* A run finds a slot in the ring, and none the handler is about to read
\* (ISPSyncBufIsFull, the copy of ISP_DRV_SyncCfgSet outside the lock).
THEOREM RingAlwaysKept == ~Smp /\ RingFits => (Spec => []RingKept)
<1> SUFFICES ASSUME ~Smp, RingFits PROVE Spec => []RingKept
  OBVIOUS
<1>1. ASSUME SyncInv PROVE RingKept
  <2>1. SlotsKept
    BY <1>1, RingIndices DEF SyncInv, AgeInv, SlotsKept
  <2>2. fw = "sync" => ~IsFull
    <3>1. PendingCount \in 0..(BufNum - 1) /\ (IsFull <=> PendingCount = BufNum - 1)
      BY <1>1, Counts DEF SyncInv, TypeOK
    <3>2. fw = "sync" => PendingCount <= 2
      BY <1>1, <3>1, Consts DEF SyncInv, CountInv, Load, Busy, Woken
    <3> QED
      BY <3>1, <3>2, Consts DEF RingFits
  <2> QED
    BY <2>1, <2>2 DEF RingKept, NeverRefused
<1> QED
  BY <1>1, SyncAlways, PTL

\* After a change of the WDR mode the sensor keeps its initial values until a
\* configuration of the new mode is due (ISP_DRV_SwitchMode).
THEOREM SwitchAlwaysClean == ~Smp /\ RingFits => (Spec => SwitchClean)
<1> SUFFICES ASSUME ~Smp, RingFits PROVE Spec => SwitchClean
  OBVIOUS
<1>1. ASSUME SyncInv, [Next]_vars, cleared, ~ReadsInSecond, fw' = fw, reg' # reg
      PROVE  due[mode.delay] # None
  <2>1. /\ TypeOK /\ ValueInv /\ mode.delay \in Due
    BY <1>1, DelayIndex DEF SyncInv
  <2>2. isr # "read" /\ \E P \in SUBSET {0, 1} : RegConfigSensor(P)
    <3>1. CASE Handler
      BY <1>1, <3>1 DEF Handler, FrameStart, ShiftNodes, ReadNewest, WriteRegs,
                        SecondInt
    <3>2. CASE Firmware
      BY <1>1, <3>2 DEF Firmware, WaitEdge, Publish, SyncCfgSetPick,
                   SyncCfgSetAdvance, BeginSwitch, SwitchCfg, SensorSwitch
    <3>3. CASE UNCHANGED vars
      BY <1>1, <3>3 DEF vars
    <3> QED
      BY <1>1, <3>1, <3>2, <3>3 DEF Next
  <2>3. Src(mode.delay) # Null
    BY <1>1, <2>1, <2>2, RegWrite
  <2> QED
    BY <1>1, <2>1, <2>3 DEF ValueInv
<1>2. SyncInv /\ [Next]_vars =>
        [cleared /\ ~ReadsInSecond /\ fw' = fw /\ reg' # reg
           => due[mode.delay] # None]_vars
  BY <1>1
<1> QED
  BY <1>2, SyncAlways, PTL DEF Spec, SwitchClean

-----------------------------------------------------------------------------
(* The synchronous tasks.                                                  *)

\* The nodes of a list: the links of a node that is in none are poisoned.
Members(l) == {n \in Task : next[n] # Poison /\ ListOf(n) = l}
Ring(l) == Members(l) \cup {l}

\* The rank rk of a node grows along its list: next leads to the node with the
\* next rank, and from the last one to the head.
Chained(rk) ==
  \A l \in List :
    /\ rk[l] = 0
    /\ \A n \in Members(l) : rk[n] > 0
    /\ \A m, n \in Members(l) : rk[m] = rk[n] => m = n
    /\ \A n \in Ring(l) :
         /\ next[n] \in Ring(l) /\ prev[n] \in Ring(l)
         /\ next[prev[n]] = n /\ prev[next[n]] = n
         /\ next[n] \in Task => rk[next[n]] > rk[n]
         /\ \A m \in Members(l) :
              rk[m] > rk[n] => next[n] \in Task /\ rk[next[n]] <= rk[m]

\* A search has the nodes with its id still before it.
Searched(rk) ==
  \A c \in Caller :
    pc[c] = "search" =>
      LET l == ListOf(task[c])
          w == cur[c]
      IN /\ w.pos \in Ring(l) /\ w.nxt \in Ring(l)
         /\ \A n \in Members(l) :
              env.id[n] = env.id[task[c]] =>
                /\ w.pos \in Task
                /\ n = w.pos \/ (w.nxt \in Task /\ rk[n] >= rk[w.nxt])

\* What a search knows it knows as long as no calls met that must not.
LinkInv == \E rk \in [Node -> Nat] : Chained(rk) /\ (~crossed => Searched(rk))

Absent(t) == \A n \in Members(ListOf(t)) : env.id[n] # env.id[t]

Holds(c) == pc[c] \in {"change", "count", "up"}

\* A call holds the semaphore while it changes its list.
CallInv ==
  \A c \in Caller :
    /\ pc[c] # "idle" => task[c] \in Task
    /\ pc[c] = "search" => op[c] = "register"
    /\ pc[c] # "search" => cur[c] = NoWalk("wq")
    /\ Holds(c) <=> sem = c

\* As long as calls are kept apart, one finds or leaves no node with its id in
\* its list, and no other works on its node.
ApartInv ==
  ~crossed =>
    /\ \A c, d \in Caller :
         c # d /\ pc[c] # "idle" /\ pc[d] # "idle"
               /\ ListOf(task[c]) = ListOf(task[d]) =>
           op[c] = "register" /\ env.id[task[c]] # env.id[task[d]]
    /\ \A c \in Caller :
         /\ pc[c] # "idle" => owner[task[c]] = "busy"
         /\ pc[c] \in {"down", "change"} /\ op[c] = "register" => Absent(task[c])
         /\ pc[c] \in {"count", "up"} /\ op[c] = "unregister" => Absent(task[c])

\* The walks of the work item, and of the handler on one CPU.
WalkInv ==
  /\ wk.at = "walk" <=> sem = Worker
  /\ wk.at = "walk" => wk.w.pos \in Ring("wq") /\ wk.w.nxt = next[wk.w.pos]
  /\ wk.at # "walk" => wk.w.pos = "wq"
  /\ ~env.smp =>
       /\ irq.at = "walk" => irq.w.pos \in Ring("hw") /\ irq.w.nxt = next[irq.w.pos]
       /\ irq.at # "walk" => irq.w.pos = "hw"

NumInv ==
  \A l \in List :
    /\ \A c \in Caller :
         pc[c] = "count" /\ ListOf(task[c]) = l =>
           num[l] = IF op[c] = "register" THEN Cardinality(Members(l)) - 1
                                          ELSE Cardinality(Members(l)) + 1
    /\ (\A c \in Caller : pc[c] = "count" => ListOf(task[c]) # l) =>
         num[l] = Cardinality(Members(l))

OwnInv ==
  ~crossed =>
    /\ \A l \in List : \A m, n \in Members(l) : env.id[m] = env.id[n] => m = n
    /\ ~env.signals => \A l \in List : \A n \in Members(l) : owner[n] # "out"

TaskInv ==
  TaskTypeOK /\ LinkInv /\ CallInv /\ ApartInv /\ WalkInv /\ NumInv /\ OwnInv

-----------------------------------------------------------------------------
(* What a walk reaches.                                                    *)

\* A set of numbers that is not empty has a least element.
LEMMA LeastNat ==
  ASSUME NEW S \in SUBSET Nat, S # {}
  PROVE  \E x \in S : \A y \in S : x <= y
<1> DEFINE R == OpToRel(<, Nat)
<1>1. IsWellFoundedOn(R, Nat)
  BY NatLessThanWellFounded
<1>2. PICK x \in S : \A y \in S : <<y, x>> \notin R
  BY <1>1, WFMin, Zenon
<1>3. ASSUME NEW y \in S PROVE x <= y
  <2>1. <<y, x>> \in Nat \X Nat /\ <<y, x>>[1] = y /\ <<y, x>>[2] = x
    OBVIOUS
  <2>2. y < x => <<y, x>> \in R
    BY <2>1 DEF OpToRel
  <2>3. ~(y < x)
    BY <1>2, <2>2, Zenon
  <2> QED
    BY <2>3
<1> QED
  BY <1>3

\* The same for the ranks of some nodes.
LEMMA LeastRank ==
  ASSUME NEW rk \in [Node -> Nat], NEW S \in SUBSET Node, S # {}
  PROVE  \E n \in S : \A m \in S : rk[n] <= rk[m]
<1> DEFINE T == {rk[n] : n \in S}
<1>1. T \in SUBSET Nat /\ T # {}
  OBVIOUS
<1>2. PICK x \in T : \A y \in T : x <= y
  BY <1>1, LeastNat
<1> QED
  BY <1>2

\* A walk from the head meets the nodes of the list, and no others.
LEMMA LinkedIsMembers ==
  ASSUME TaskTypeOK, NEW rk \in [Node -> Nat], Chained(rk), NEW l \in List
  PROVE  Linked(l) = Members(l)
<1> USE SyncTaskAssumption
<1>1. \A n \in Ring(l) : next[n] \in Ring(l) /\ prev[n] \in Ring(l)
                         /\ next[prev[n]] = n
  BY DEF Chained
<1>2. Ring(l) \subseteq Node /\ Ring(l) \cap Task = Members(l) /\ l \in Ring(l)
  BY DEF Ring, Members, Node, List
<1>3. Linked(l) \subseteq Members(l)
  <2> SUFFICES ASSUME NEW n \in Linked(l) PROVE n \in Members(l)
    OBVIOUS
  <2>1. n \in Task /\ (next[l] \in Ring(l) /\ (\A m \in Ring(l) \cap Task : next[m] \in Ring(l))
                         => n \in Ring(l))
    BY <1>2 DEF Linked
  <2> QED
    BY <2>1, <1>1, <1>2
<1>4. ASSUME NEW n \in Members(l), n \notin Linked(l) PROVE FALSE
  <2>1. PICK S \in SUBSET (Node \cup {Poison}) :
               next[l] \in S /\ (\A m \in S \cap Task : next[m] \in S) /\ n \notin S
    BY <1>4 DEF Linked, Members
  <2>2. PICK x \in Members(l) \ S : \A m \in Members(l) \ S : rk[x] <= rk[m]
    <3>1. Members(l) \ S \in SUBSET Node /\ Members(l) \ S # {}
      BY <2>1 DEF Members, Node
    <3> QED
      BY <3>1, LeastRank
  <2>3. x \in Ring(l) /\ x \in Task /\ prev[x] \in Ring(l) /\ next[prev[x]] = x
    BY <1>1, <2>2 DEF Ring, Members
  <2>4. prev[x] # l
    BY <2>1, <2>2, <2>3
  <2>5. prev[x] \in Members(l) /\ prev[x] \in Task /\ prev[x] \in Node
    BY <2>3, <2>4, <1>2 DEF Ring
  <2>6. rk[x] > rk[prev[x]]
    BY <2>3 DEF Chained
  <2>7. prev[x] \in S
    BY <2>2, <2>5, <2>6, <2>3, <1>2
  <2> QED
    BY <2>1, <2>2, <2>3, <2>5, <2>7
<1> QED
  BY <1>3, <1>4

-----------------------------------------------------------------------------
(* The changes of a list.                                                  *)

\* Where the node behind the last one goes.
LEMMA AddTail ==
  ASSUME TaskTypeOK, env' = env, NEW rk \in [Node -> Nat], Chained(rk),
         NEW t \in Task, t \notin Members(ListOf(t)), ListAddTail(t, ListOf(t))
  PROVE  /\ next' \in [Node -> Node \cup {Poison}]
         /\ prev' \in [Node -> Node \cup {Poison}]
         /\ \A l \in List :
              Members(l)' = IF l = ListOf(t) THEN Members(l) \cup {t} ELSE Members(l)
         /\ \E new \in [Node -> Nat] :
              /\ Chained(new)'
              /\ \A n \in Node \ {t} : new[n] = rk[n]
              /\ \A m \in Members(ListOf(t)) : new[t] > rk[m]
<1> USE SyncTaskAssumption
<1> DEFINE k == ListOf(t)
           last == prev[k]
<1>1. k \in List /\ k \in Node /\ k \notin Task /\ t \in Node
  BY DEF ListOf, List, Node
<1>2. last \in Ring(k) /\ last \in Node /\ last # t /\ next[last] = k /\ k \in Ring(k)
  BY <1>1 DEF Chained, Ring, Members, Node
<1>3. next' = [[next EXCEPT ![t] = k] EXCEPT ![last] = t]
      /\ prev' = [[prev EXCEPT ![k] = t] EXCEPT ![t] = last]
  BY DEF ListAddTail
<1>4. next' \in [Node -> Node \cup {Poison}] /\ prev' \in [Node -> Node \cup {Poison}]
  BY <1>1, <1>2, <1>3 DEF TaskTypeOK
<1>5. /\ next'[t] = k /\ next'[last] = t /\ prev'[k] = t /\ prev'[t] = last
      /\ \A n \in Node \ {t, last} : next'[n] = next[n]
      /\ \A n \in Node \ {t, k} : prev'[n] = prev[n]
  BY <1>1, <1>2, <1>3 DEF TaskTypeOK
<1>6. k # Poison /\ t # Poison /\ (\A n \in Task : ListOf(n)' = ListOf(n))
  BY <1>1 DEF List, ListOf
<1>7. ASSUME NEW l \in List
      PROVE  Members(l)' = IF l = k THEN Members(l) \cup {t} ELSE Members(l)
  <2>1. \A n \in Task : n # t => (next'[n] # Poison <=> next[n] # Poison)
    <3> SUFFICES ASSUME NEW n \in Task, n # t
                 PROVE  next'[n] # Poison <=> next[n] # Poison
      OBVIOUS
    <3>1. CASE n = last
      BY <3>1, <1>2, <1>5, <1>6
    <3>2. CASE n # last
      BY <3>2, <1>5 DEF Node
    <3> QED
      BY <3>1, <3>2
  <2>2. \A n \in Task : n \in Members(l)' <=> next'[n] # Poison /\ ListOf(n) = l
    BY <1>6 DEF Members
  <2>3. Members(l)' \subseteq Task
    BY DEF Members
  <2>4. next'[t] # Poison
    BY <1>5, <1>6
  <2>5. \A n \in Task : n \in Members(l)' <=> n \in Members(l) \/ (n = t /\ l = k)
    BY <2>1, <2>2, <2>4 DEF Members
  <2>6. Members(l) \subseteq Task
    BY DEF Members
  <2> QED
    BY <2>3, <2>5, <2>6
<1>8. PICK new \in [Node -> Nat] :
             new[t] = rk[last] + 1 /\ (\A n \in Node \ {t} : new[n] = rk[n])
  <2>1. [rk EXCEPT ![t] = rk[last] + 1] \in [Node -> Nat]
        /\ [rk EXCEPT ![t] = rk[last] + 1][t] = rk[last] + 1
        /\ \A n \in Node \ {t} : [rk EXCEPT ![t] = rk[last] + 1][n] = rk[n]
    BY <1>1, <1>2
  <2> QED
    BY <2>1
<1>9. \A m \in Members(k) : rk[m] <= rk[last]
  BY <1>1, <1>2 DEF Chained, Members, Node
<1>10. \A l \in List : \A n \in Ring(l) : n \in Node /\ (n # l => n \in Members(l) /\ n \in Task)
  BY DEF Ring, Members, Node
<1>11. \A l \in List : t \notin Ring(l) /\ l \in Node /\ l \notin Task /\ l \in Ring(l)
  BY <1>1 DEF Ring, Members, List, Node
<1>12. Chained(new)'
  <2> SUFFICES ASSUME NEW l \in List
               PROVE  /\ new[l] = 0
                      /\ \A n \in Members(l)' : new[n] > 0
                      /\ \A m, n \in Members(l)' : new[m] = new[n] => m = n
                      /\ \A n \in Ring(l)' :
                           /\ next'[n] \in Ring(l)' /\ prev'[n] \in Ring(l)'
                           /\ next'[prev'[n]] = n /\ prev'[next'[n]] = n
                           /\ next'[n] \in Task => new[next'[n]] > new[n]
                           /\ \A m \in Members(l)' :
                                new[m] > new[n]
                                  => next'[n] \in Task /\ new[next'[n]] <= new[m]
    BY DEF Chained
  <2>1. /\ rk[l] = 0
        /\ \A n \in Members(l) : rk[n] > 0
        /\ \A m, n \in Members(l) : rk[m] = rk[n] => m = n
        /\ \A n \in Ring(l) :
             /\ next[n] \in Ring(l) /\ prev[n] \in Ring(l)
             /\ next[prev[n]] = n /\ prev[next[n]] = n
             /\ next[n] \in Task => rk[next[n]] > rk[n]
             /\ \A m \in Members(l) :
                  rk[m] > rk[n] => next[n] \in Task /\ rk[next[n]] <= rk[m]
    BY DEF Chained
  <2>2. CASE l # k
    <3>1. Members(l)' = Members(l) /\ Ring(l)' = Ring(l)
      BY <1>7, <2>2 DEF Ring
    <3>2. \A n \in Ring(l) : n \in Node \ {t, k, last}
      BY <1>10, <1>11, <1>1, <1>2, <2>2 DEF Members
    <3>3. \A n \in Ring(l) : next'[n] = next[n] /\ prev'[n] = prev[n] /\ new[n] = rk[n]
      BY <3>2, <1>5, <1>8
    <3>4. Members(l) \subseteq Ring(l) /\ l \in Ring(l)
      BY DEF Ring
    <3> HIDE DEF last, k
    <3> QED
      BY <3>1, <3>3, <3>4, <2>1
  <2>3. CASE l = k
    <3>1. Members(l)' = Members(l) \cup {t} /\ Ring(l)' = Ring(l) \cup {t}
      BY <1>7, <2>3 DEF Ring
    <3>2. \A n \in Ring(l) : new[n] = rk[n] /\ rk[n] \in Nat /\ rk[n] <= rk[last]
      BY <1>8, <1>9, <1>10, <1>11, <2>1, <2>3 DEF Ring
    <3>3. \A n \in Ring(l) : n # last => next'[n] = next[n] /\ next[n] # l
      BY <1>5, <1>10, <1>11, <2>1, <2>3
    <3>4. \A n \in Members(l) : prev'[n] = prev[n]
      BY <1>5, <1>11, <2>3 DEF Members, Node
    <3>5. Members(l) \subseteq Ring(l) /\ l \in Ring(l) /\ last \in Ring(l) /\ t \notin Ring(l)
          /\ (\A n \in Ring(l) : n = l \/ n \in Members(l)) /\ Members(l) \subseteq Task /\ l \notin Task
      BY <1>2, <1>11, <2>3 DEF Ring, Members
    <3>6. new[t] = rk[last] + 1 /\ rk[last] \in Nat
      BY <1>2, <1>8
    <3>7. next'[t] = l /\ next'[last] = t /\ prev'[l] = t /\ prev'[t] = last
          /\ prev[l] = last /\ next[last] = l
      BY <1>2, <1>5, <2>3
    <3> HIDE DEF last, k
    <3>8. new[l] = 0 /\ \A n \in Members(l)' : new[n] > 0
      BY <2>1, <3>1, <3>2, <3>5, <3>6
    <3>9. \A m, n \in Members(l)' : new[m] = new[n] => m = n
      BY <2>1, <3>1, <3>2, <3>5, <3>6
    <3>10. ASSUME NEW n \in Ring(l)'
           PROVE  /\ next'[n] \in Ring(l)' /\ prev'[n] \in Ring(l)'
                  /\ next'[prev'[n]] = n /\ prev'[next'[n]] = n
      <4>1. CASE n = t
        BY <4>1, <3>1, <3>5, <3>7
      <4>2. CASE n = l
        BY <4>2, <3>1, <3>3, <3>4, <3>5, <3>7, <2>1
      <4>3. CASE n \in Members(l)
        <5>1. prev'[n] = prev[n] /\ prev[n] \in Ring(l) /\ next[prev[n]] = n
          BY <4>3, <3>4, <3>5, <2>1
        <5>2. prev[n] # last
          BY <5>1, <4>3, <3>5, <3>7
        <5>3. next'[prev'[n]] = n
          BY <5>1, <5>2, <3>3
        <5>4. n # last => next'[n] = next[n] /\ next[n] \in Members(l) /\ prev'[next[n]] = n
          BY <4>3, <3>3, <3>4, <3>5, <2>1
        <5> QED
          BY <5>1, <5>3, <5>4, <3>1, <3>5, <3>7
      <4> QED
        BY <4>1, <4>2, <4>3, <3>1, <3>5
    <3>11. ASSUME NEW n \in Ring(l)'
           PROVE  /\ next'[n] \in Task => new[next'[n]] > new[n]
                  /\ \A m \in Members(l)' :
                       new[m] > new[n] => next'[n] \in Task /\ new[next'[n]] <= new[m]
      <4>1. CASE n = t
        BY <4>1, <3>1, <3>2, <3>5, <3>6, <3>7
      <4>2. CASE n = last
        BY <4>2, <3>1, <3>2, <3>5, <3>6, <3>7
      <4>3. CASE n \in Ring(l) /\ n # last
        <5>1. next'[n] = next[n] /\ next[n] \in Members(l) /\ next[n] \in Task
              /\ new[next[n]] = rk[next[n]] /\ new[n] = rk[n] /\ next[n] \in Ring(l)
          BY <4>3, <3>2, <3>3, <3>5, <2>1
        <5>2. rk[next[n]] \in Nat /\ rk[n] \in Nat /\ rk[next[n]] <= rk[last] /\ rk[next[n]] > rk[n]
          BY <4>3, <5>1, <3>2, <2>1
        <5>3. ASSUME NEW m \in Members(l), new[m] > new[n] PROVE new[next[n]] <= new[m]
          BY <4>3, <5>1, <5>3, <3>2, <3>5, <2>1
        <5> QED
          BY <5>1, <5>2, <5>3, <3>1, <3>6
      <4> QED
        BY <4>1, <4>2, <4>3, <3>1
    <3> QED
      BY <3>8, <3>9, <3>10, <3>11
  <2> QED
    BY <2>2, <2>3
<1>13. \A m \in Members(k) : new[t] > rk[m]
  BY <1>8, <1>9, <1>2 DEF Members, Node
<1> QED
  BY <1>4, <1>7, <1>8, <1>12, <1>13

\* What is left when a node is taken from its list.
LEMMA Delete ==
  ASSUME TaskTypeOK, env' = env, NEW rk \in [Node -> Nat], Chained(rk),
         NEW k \in List, NEW t \in Members(k), ListDel(t)
  PROVE  /\ next' \in [Node -> Node \cup {Poison}]
         /\ prev' \in [Node -> Node \cup {Poison}]
         /\ \A l \in List : Members(l)' = IF l = k THEN Members(l) \ {t} ELSE Members(l)
         /\ Chained(rk)'
<1> USE SyncTaskAssumption
<1> DEFINE p == prev[t]
           q == next[t]
<1>1. t \in Task /\ t \in Node /\ t \in Ring(k) /\ t \notin List /\ ListOf(t) = k
  BY DEF Members, Node, List, Ring
<1>2. /\ p \in Ring(k) /\ q \in Ring(k) /\ next[p] = t /\ prev[q] = t
      /\ (q \in Task => rk[q] > rk[t])
  BY <1>1 DEF Chained
<1>3. \A l \in List : \A n \in Ring(l) : n \in Node /\ (n # l => n \in Members(l) /\ n \in Task)
  BY DEF Ring, Members, Node
<1>4. \A l \in List : l \in Node /\ l \notin Task /\ l \in Ring(l) /\ l # Poison
  BY DEF Ring, Members, List, Node
<1>5. p \in Node /\ q \in Node /\ q # t /\ p # t /\ rk[t] \in Nat /\ rk[t] > 0 /\ rk[t] > rk[p]
      /\ rk[p] \in Nat
  <2>1. p \in Node /\ q \in Node
    BY <1>2, <1>3
  <2>2. rk[t] \in Nat /\ rk[t] > 0 /\ rk[t] > rk[p]
    BY <1>1, <1>2, <2>1 DEF Chained
  <2>3. q # t
    BY <1>1, <1>2, <2>2
  <2> QED
    BY <2>1, <2>2, <2>3, <1>2
<1>6. next' = [next EXCEPT ![p] = q, ![t] = Poison] /\ prev' = [prev EXCEPT ![q] = p, ![t] = Poison]
  BY DEF ListDel
<1>7. next' \in [Node -> Node \cup {Poison}] /\ prev' \in [Node -> Node \cup {Poison}]
  BY <1>1, <1>5, <1>6 DEF TaskTypeOK
<1>8. /\ next'[t] = Poison /\ next'[p] = q /\ prev'[q] = p
      /\ \A n \in Node \ {t, p} : next'[n] = next[n]
      /\ \A n \in Node \ {t, q} : prev'[n] = prev[n]
  BY <1>1, <1>5, <1>6 DEF TaskTypeOK
<1>9. Poison \notin Node /\ (\A n \in Task : ListOf(n)' = ListOf(n))
  BY DEF List, ListOf, Node
<1>10. ASSUME NEW l \in List
       PROVE  Members(l)' = IF l = k THEN Members(l) \ {t} ELSE Members(l)
  <2>1. \A n \in Task : n # t => (next'[n] # Poison <=> next[n] # Poison)
    <3> SUFFICES ASSUME NEW n \in Task, n # t
                 PROVE  next'[n] # Poison <=> next[n] # Poison
      OBVIOUS
    <3>1. CASE n = p
      BY <3>1, <1>1, <1>2, <1>5, <1>8, <1>9
    <3>2. CASE n # p
      BY <3>2, <1>8 DEF Node
    <3> QED
      BY <3>1, <3>2
  <2>2. \A n \in Task : n \in Members(l)' <=> next'[n] # Poison /\ ListOf(n) = l
    BY <1>9 DEF Members
  <2>3. Members(l)' \subseteq Task /\ Members(l) \subseteq Task
    BY DEF Members
  <2>4. \A n \in Task : n \in Members(l)' <=> n \in Members(l) /\ n # t
    BY <1>8, <2>1, <2>2 DEF Members
  <2>5. l # k => t \notin Members(l)
    BY <1>1 DEF Members
  <2> QED
    BY <2>3, <2>4, <2>5
<1>11. Chained(rk)'
  <2> SUFFICES ASSUME NEW l \in List
               PROVE  /\ rk[l] = 0
                      /\ \A n \in Members(l)' : rk[n] > 0
                      /\ \A m, n \in Members(l)' : rk[m] = rk[n] => m = n
                      /\ \A n \in Ring(l)' :
                           /\ next'[n] \in Ring(l)' /\ prev'[n] \in Ring(l)'
                           /\ next'[prev'[n]] = n /\ prev'[next'[n]] = n
                           /\ next'[n] \in Task => rk[next'[n]] > rk[n]
                           /\ \A m \in Members(l)' :
                                rk[m] > rk[n]
                                  => next'[n] \in Task /\ rk[next'[n]] <= rk[m]
    BY DEF Chained
  <2>1. /\ rk[l] = 0
        /\ \A n \in Members(l) : rk[n] > 0
        /\ \A m, n \in Members(l) : rk[m] = rk[n] => m = n
        /\ \A n \in Ring(l) :
             /\ next[n] \in Ring(l) /\ prev[n] \in Ring(l)
             /\ next[prev[n]] = n /\ prev[next[n]] = n
             /\ next[n] \in Task => rk[next[n]] > rk[n]
             /\ \A m \in Members(l) :
                  rk[m] > rk[n] => next[n] \in Task /\ rk[next[n]] <= rk[m]
    BY DEF Chained
  <2>2. CASE l # k
    <3>1. Members(l)' = Members(l) /\ Ring(l)' = Ring(l)
      BY <1>10, <2>2 DEF Ring
    <3>2. \A n \in Ring(l) : n \in Node \ {t, p, q}
      BY <1>1, <1>2, <1>3, <1>4, <2>2 DEF Members
    <3>3. \A n \in Ring(l) : next'[n] = next[n] /\ prev'[n] = prev[n]
      BY <3>2, <1>8
    <3>4. Members(l) \subseteq Ring(l) /\ l \in Ring(l)
      BY DEF Ring
    <3> HIDE DEF p, q
    <3> QED
      BY <3>1, <3>3, <3>4, <2>1
  <2>3. CASE l = k
    <3>1. Members(l)' = Members(l) \ {t} /\ Ring(l)' = Ring(l) \ {t}
      BY <1>1, <1>4, <1>10, <2>3 DEF Ring
    <3>2. \A n \in Ring(l) : rk[n] \in Nat /\ (n = l \/ n \in Members(l))
      BY <1>3
    <3>3. \A n \in Ring(l) : n # p /\ n # t => next'[n] = next[n] /\ next[n] # t
      BY <1>1, <1>2, <1>3, <1>8, <2>1, <2>3
    <3>4. \A n \in Ring(l) : n # q /\ n # t => prev'[n] = prev[n] /\ prev[n] # t
      BY <1>1, <1>2, <1>3, <1>8, <2>1, <2>3
    <3>5. Members(l) \subseteq Ring(l) /\ l \in Ring(l) /\ p \in Ring(l) /\ q \in Ring(l)
          /\ Members(l) \subseteq Task /\ l \notin Task /\ t \in Ring(l)
          /\ next[t] = q
      BY <1>1, <1>2, <1>4, <2>3 DEF Ring, Members
    <3> HIDE DEF p, q
    <3>6. rk[l] = 0 /\ (\A n \in Members(l)' : rk[n] > 0)
          /\ \A m, n \in Members(l)' : rk[m] = rk[n] => m = n
      BY <2>1, <3>1
    <3>7. ASSUME NEW n \in Ring(l)'
          PROVE  /\ next'[n] \in Ring(l)' /\ prev'[n] \in Ring(l)'
                 /\ next'[prev'[n]] = n /\ prev'[next'[n]] = n
      <4>1. n \in Ring(l) /\ n # t
        BY <3>1
      <4>2. next'[n] \in Ring(l)' /\ prev'[next'[n]] = n
        <5>1. CASE n = p
          BY <5>1, <3>1, <3>5, <1>5, <1>8
        <5>2. CASE n # p
          <6>1. next'[n] = next[n] /\ next[n] # t /\ next[n] \in Ring(l) /\ prev[next[n]] = n
            BY <5>2, <4>1, <3>3, <2>1
          <6>2. next[n] # q
            BY <6>1, <4>1, <1>2
          <6> QED
            BY <6>1, <6>2, <3>1, <3>4
        <5> QED
          BY <5>1, <5>2
      <4>3. prev'[n] \in Ring(l)' /\ next'[prev'[n]] = n
        <5>1. CASE n = q
          BY <5>1, <3>1, <3>5, <1>5, <1>8
        <5>2. CASE n # q
          <6>1. prev'[n] = prev[n] /\ prev[n] # t /\ prev[n] \in Ring(l) /\ next[prev[n]] = n
            BY <5>2, <4>1, <3>4, <2>1
          <6>2. prev[n] # p
            BY <6>1, <4>1, <1>2
          <6> QED
            BY <6>1, <6>2, <3>1, <3>3
        <5> QED
          BY <5>1, <5>2
      <4> QED
        BY <4>2, <4>3
    <3>8. ASSUME NEW n \in Ring(l)'
          PROVE  /\ next'[n] \in Task => rk[next'[n]] > rk[n]
                 /\ \A m \in Members(l)' :
                      rk[m] > rk[n] => next'[n] \in Task /\ rk[next'[n]] <= rk[m]
      <4>1. n \in Ring(l) /\ n # t
        BY <3>1
      <4>2. CASE n = p
        <5>1. next'[n] = q /\ rk[n] < rk[t] /\ rk[n] \in Nat /\ rk[q] \in Nat
          BY <4>2, <1>5, <1>8
        <5>2. q \in Task => rk[q] > rk[n]
          BY <5>1, <1>2, <1>5
        <5>3. ASSUME NEW m \in Members(l)', rk[m] > rk[n] PROVE q \in Task /\ rk[q] <= rk[m]
          <6>1. m \in Members(l) /\ m # t /\ rk[m] \in Nat
            BY <3>1, <3>2, <3>5
          <6>2. rk[t] <= rk[m]
            BY <6>1, <5>3, <4>2, <3>5, <2>1, <1>2
          <6>3. rk[t] < rk[m]
            BY <6>1, <6>2, <2>1, <2>3, <1>5
          <6> QED
            BY <6>1, <6>3, <2>1, <3>5
        <5> QED
          BY <5>1, <5>2, <5>3
      <4>3. CASE n # p
        BY <4>1, <4>3, <3>1, <3>3, <2>1
      <4> QED
        BY <4>2, <4>3
    <3> QED
      BY <3>6, <3>7, <3>8
  <2> QED
    BY <2>2, <2>3
<1> QED
  BY <1>7, <1>10, <1>11

-----------------------------------------------------------------------------
(* The steps that leave the lists alone.                                   *)

LEMMA SameLists ==
  ASSUME env' = env, UNCHANGED listVars
  PROVE  /\ \A t : ListOf(t)' = ListOf(t)
         /\ \A l : Members(l)' = Members(l) /\ Ring(l)' = Ring(l)
         /\ \A t : Absent(t)' <=> Absent(t)
         /\ \A rk : Chained(rk)' <=> Chained(rk)
<1>1. next' = next /\ prev' = prev
  BY DEF listVars
<1>2. \A t : ListOf(t)' = ListOf(t)
  BY DEF ListOf
<1>3. \A l : Members(l)' = Members(l)
  BY <1>1, <1>2 DEF Members
<1>4. \A l : Ring(l)' = Ring(l)
  BY <1>3 DEF Ring
<1>5. \A t : Absent(t)' <=> Absent(t)
  BY <1>2, <1>3 DEF Absent
<1>6. \A rk : Chained(rk)' <=> Chained(rk)
  BY <1>1, <1>3, <1>4 DEF Chained
<1> QED
  BY <1>2, <1>3, <1>4, <1>5, <1>6

LEMMA RingTypes ==
  ASSUME TaskTypeOK
  PROVE  /\ \A t \in Task : ListOf(t) \in List
         /\ \A l \in List :
              /\ Members(l) \in SUBSET Task /\ Ring(l) \in SUBSET Node
              /\ l \in Ring(l) /\ l \notin Task /\ l \in Node
              /\ Members(l) \subseteq Ring(l)
              /\ \A n \in Ring(l) : n \in List \/ n \in Members(l)
              /\ IsFiniteSet(Members(l)) /\ Cardinality(Members(l)) \in Nat
              /\ Cardinality(Members(l)) <= Cardinality(Task)
         /\ Cardinality(Task) \in Nat
         /\ Poison \notin Node
<1> USE SyncTaskAssumption
<1>1. \A l \in List : Members(l) \in SUBSET Task
  BY DEF Members
<1>2. Cardinality(Task) \in Nat
  BY FS_CardinalityType
<1>3. \A l \in List : /\ IsFiniteSet(Members(l)) /\ Cardinality(Members(l)) \in Nat
                      /\ Cardinality(Members(l)) <= Cardinality(Task)
  BY <1>1, FS_Subset, FS_CardinalityType
<1>4. \A t \in Task : ListOf(t) \in List
  BY DEF ListOf, List
<1> QED
  BY <1>1, <1>2, <1>3, <1>4 DEF Ring, Node, List

\* From a node of a list a walk goes to nodes of the list.
LEMMA WalkFromRing ==
  ASSUME TaskTypeOK, LinkInv, NEW l \in List, NEW n \in Ring(l)
  PROVE  /\ WalkFrom(n).pos = n /\ WalkFrom(n).nxt = next[n]
         /\ next[n] \in Ring(l) /\ n # Poison
         /\ WalkFrom(n) \in Walk
<1>1. next[n] \in Ring(l)
  BY DEF LinkInv, Chained
<1>2. n # Poison /\ n \in Node /\ next[n] \in Node
  BY <1>1, RingTypes
<1> QED
  BY <1>1, <1>2 DEF WalkFrom, Walk

LEMMA WalkTypes ==
  ASSUME TaskTypeOK
  PROVE  /\ \A n \in Node \cup {Poison} : WalkFrom(n) \in Walk
         /\ NoWalk("wq") \in Walk /\ NoWalk("hw") \in Walk
BY SyncTaskAssumption DEF TaskTypeOK, WalkFrom, Walk, NoWalk, Node, List

LEMMA OtherHolder ==
  ASSUME TaskTypeOK, CallInv, NEW c \in Caller, Holds(c)
  PROVE  /\ sem = c /\ sem # Worker /\ sem # Nobody
         /\ \A d \in Caller : d # c => ~Holds(d)
BY SyncTaskAssumption DEF CallInv

\* The handler and the work item.
LEMMA WalkerStep ==
  ASSUME TaskInv, TaskHandler \/ Work, env' = env
  PROVE  TaskInv'
<1> USE SyncTaskAssumption
<1>1. UNCHANGED <<listVars, callVars>>
  BY DEF TaskHandler, Work, TaskProcess, HwStep, ScheduleWork, WorkBegin, WorkDown,
         WorkStep, WorkUp
<1>2. next' = next /\ prev' = prev /\ num' = num /\ pc' = pc /\ op' = op /\ task' = task
      /\ cur' = cur /\ owner' = owner /\ crossed' = crossed
  BY <1>1 DEF listVars, callVars
<1>3. /\ \A t : ListOf(t)' = ListOf(t)
      /\ \A l : Members(l)' = Members(l) /\ Ring(l)' = Ring(l)
      /\ \A t : Absent(t)' <=> Absent(t)
      /\ \A rk : Chained(rk)' <=> Chained(rk)
  BY <1>1, SameLists
<1>4. TaskTypeOK /\ LinkInv /\ CallInv /\ ApartInv /\ WalkInv /\ NumInv /\ OwnInv
  BY DEF TaskInv
<1>5. LinkInv'
  <2>1. PICK rk \in [Node -> Nat] : Chained(rk) /\ (~crossed => Searched(rk))
    BY <1>4 DEF LinkInv
  <2>2. ~crossed' => Searched(rk)'
    BY <1>2, <1>3, <2>1 DEF Searched
  <2>3. Chained(rk)'
    BY <1>3, <2>1
  <2> QED
    BY <2>2, <2>3 DEF LinkInv
<1>6. NumInv' /\ OwnInv'
  <2>1. NumInv'
    BY <1>2, <1>3, <1>4 DEF NumInv
  <2>2. OwnInv'
    BY <1>2, <1>3, <1>4 DEF OwnInv
  <2> QED
    BY <2>1, <2>2
<1>7. "wq" \in List /\ "hw" \in List /\ "wq" \in Ring("wq") /\ "hw" \in Ring("hw")
  BY DEF List, Ring
<1>8. TaskTypeOK'
  <2>1. \A n \in Node \cup {Poison} : WalkFrom(n) \in Walk
    BY <1>4, WalkTypes
  <2>2. NoWalk("wq") \in Walk /\ NoWalk("hw") \in Walk
    BY <1>4, WalkTypes
  <2>3. irq.w.nxt \in Node \cup {Poison} /\ wk.w.nxt \in Node \cup {Poison}
        /\ next["hw"] \in Node \cup {Poison} /\ next["wq"] \in Node \cup {Poison}
    BY <1>4, <1>7 DEF TaskTypeOK, Walk, Node
  <2>4. WalkFrom(irq.w.nxt) \in Walk /\ WalkFrom(wk.w.nxt) \in Walk
        /\ WalkFrom(next["hw"]) \in Walk /\ WalkFrom(next["wq"]) \in Walk
    BY <2>1, <2>3
  <2>5. irq' \in [at : {"idle", "walk", "wq"}, w : Walk]
    <3>1. CASE TaskProcess
      BY <3>1, <2>2, <2>4 DEF TaskProcess
    <3>2. CASE HwStep
      BY <3>2, <1>4, <2>2, <2>4 DEF HwStep, TaskTypeOK
    <3>3. CASE ScheduleWork
      BY <3>3, <1>4 DEF ScheduleWork, TaskTypeOK
    <3>4. CASE Work
      BY <3>4, <1>4 DEF Work, WorkBegin, WorkDown, WorkStep, WorkUp, TaskTypeOK
    <3> QED
      BY <3>1, <3>2, <3>3, <3>4 DEF TaskHandler
  <2>6. wk' \in [at : {"idle", "down", "walk"}, w : Walk]
    <3>1. CASE WorkBegin
      BY <3>1, <1>4 DEF WorkBegin, TaskTypeOK
    <3>2. CASE WorkDown
      BY <3>2, <2>4 DEF WorkDown
    <3>3. CASE WorkStep
      BY <3>3, <1>4, <2>4 DEF WorkStep, TaskTypeOK
    <3>4. CASE WorkUp
      BY <3>4, <2>2 DEF WorkUp
    <3>5. CASE TaskHandler
      BY <3>5, <1>4 DEF TaskHandler, TaskProcess, HwStep, ScheduleWork, TaskTypeOK
    <3> QED
      BY <3>1, <3>2, <3>3, <3>4, <3>5 DEF Work
  <2>7. sem' \in Caller \cup {Worker, Nobody} /\ work' \in BOOLEAN
    BY <1>4 DEF TaskTypeOK, TaskHandler, Work, TaskProcess, HwStep, ScheduleWork, WorkBegin,
                WorkDown, WorkStep, WorkUp
  <2> QED
    BY <1>2, <1>4, <2>5, <2>6, <2>7 DEF TaskTypeOK
<1>9. CallInv'
  <2>1. \A c \in Caller : Holds(c)' <=> Holds(c)
    BY <1>2 DEF Holds
  <2>2. \A c \in Caller : sem' = c <=> sem = c
    <3>1. CASE UNCHANGED sem
      BY <3>1
    <3>2. CASE WorkDown
      BY <3>2 DEF WorkDown
    <3>3. CASE WorkUp
      BY <3>3, <1>4 DEF WorkUp, WalkInv
    <3> QED
      BY <3>1, <3>2, <3>3 DEF TaskHandler, Work, TaskProcess, HwStep, ScheduleWork,
                              WorkBegin, WorkStep
  <2> QED
    BY <1>2, <1>3, <1>4, <2>1, <2>2 DEF CallInv
<1>11. ApartInv'
  BY <1>2, <1>3, <1>4 DEF ApartInv
<1>10. WalkInv'
  <2>1. next["wq"] \in Ring("wq") /\ next["hw"] \in Ring("hw")
    BY <1>4, <1>7, WalkFromRing
  <2>2. ASSUME NEW l \in List, NEW n \in Ring(l)
        PROVE  WalkFrom(n).pos = n /\ WalkFrom(n).nxt = next[n] /\ next[n] \in Ring(l)
    BY <1>4, WalkFromRing
  <2>3. NoWalk("wq").pos = "wq" /\ NoWalk("hw").pos = "hw"
    BY DEF NoWalk
  <2>4. /\ wk'.at = "walk" <=> sem' = Worker
        /\ wk'.at = "walk" => wk'.w.pos \in Ring("wq") /\ wk'.w.nxt = next[wk'.w.pos]
        /\ wk'.at # "walk" => wk'.w.pos = "wq"
    <3>1. CASE WorkBegin
      BY <3>1, <1>4 DEF WorkBegin, TaskTypeOK, WalkInv
    <3>2. CASE WorkDown
      BY <3>2, <1>7, <2>1, <2>2 DEF WorkDown
    <3>3. CASE WorkStep
      <4>1. wk'.at = "walk" /\ wk'.w = WalkFrom(wk.w.nxt) /\ sem' = sem
        BY <3>3, <1>4 DEF WorkStep, TaskTypeOK
      <4>2. wk.w.nxt \in Ring("wq") /\ sem = Worker
        BY <3>3, <1>4, <1>7, <2>2 DEF WorkStep, WalkInv
      <4> QED
        BY <4>1, <4>2, <1>7, <2>2
    <3>4. CASE WorkUp
      BY <3>4, <2>3 DEF WorkUp
    <3>5. CASE TaskHandler
      BY <3>5, <1>4 DEF TaskHandler, TaskProcess, HwStep, ScheduleWork, WalkInv
    <3> QED
      BY <3>1, <3>2, <3>3, <3>4, <3>5 DEF Work
  <2>5. ASSUME ~env.smp
        PROVE  /\ irq'.at = "walk" => irq'.w.pos \in Ring("hw") /\ irq'.w.nxt = next[irq'.w.pos]
               /\ irq'.at # "walk" => irq'.w.pos = "hw"
    <3>1. CASE TaskProcess
      BY <3>1, <1>7, <2>1, <2>2, <2>3 DEF TaskProcess
    <3>2. CASE HwStep
      <4>1. CASE irq.w.pos = "hw"
        BY <3>2, <4>1, <2>3 DEF HwStep
      <4>2. CASE irq.w.pos # "hw"
        <5>1. irq'.at = "walk" /\ irq'.w = WalkFrom(irq.w.nxt)
          BY <3>2, <4>2, <1>4 DEF HwStep, TaskTypeOK
        <5>2. irq.w.nxt \in Ring("hw")
          BY <2>5, <3>2, <1>4, <1>7, <2>2 DEF HwStep, WalkInv
        <5> QED
          BY <5>1, <5>2, <1>7, <2>2
      <4> QED
        BY <4>1, <4>2
    <3>3. CASE ScheduleWork
      BY <2>5, <3>3, <1>4 DEF ScheduleWork, TaskTypeOK, WalkInv
    <3>4. CASE Work
      BY <2>5, <3>4, <1>4 DEF Work, WorkBegin, WorkDown, WorkStep, WorkUp, WalkInv
    <3> QED
      BY <3>1, <3>2, <3>3, <3>4 DEF TaskHandler
  <2> QED
    BY <1>2, <1>3, <2>4, <2>5 DEF WalkInv
<1> QED
  BY <1>5, <1>6, <1>8, <1>9, <1>10, <1>11 DEF TaskInv

-----------------------------------------------------------------------------
(* The calls.                                                              *)

\* A call that takes a step which leaves the lists and the count alone: what
\* is left to show of the invariant.
LEMMA CallOnly ==
  ASSUME TaskInv, env' = env, UNCHANGED <<listVars, irq, wk>>,
         NEW c \in Caller, \A d \in Caller \ {c} : /\ pc'[d] = pc[d] /\ op'[d] = op[d]
                                              /\ task'[d] = task[d],
         pc'[c] # "count", pc[c] # "count",
         sem' = Worker <=> sem = Worker
  PROVE  /\ WalkInv' /\ NumInv'
         /\ \A t : ListOf(t)' = ListOf(t)
         /\ \A l : Members(l)' = Members(l) /\ Ring(l)' = Ring(l)
         /\ \A t : Absent(t)' <=> Absent(t)
         /\ \A rk : Chained(rk)' <=> Chained(rk)
<1>1. next' = next /\ prev' = prev /\ num' = num /\ irq' = irq /\ wk' = wk
  BY DEF listVars
<1>2. /\ \A t : ListOf(t)' = ListOf(t)
      /\ \A l : Members(l)' = Members(l) /\ Ring(l)' = Ring(l)
      /\ \A t : Absent(t)' <=> Absent(t)
      /\ \A rk : Chained(rk)' <=> Chained(rk)
  BY SameLists
<1>3. WalkInv'
  BY <1>1, <1>2 DEF TaskInv, WalkInv
<1>4. \A d \in Caller : pc'[d] = "count" <=> pc[d] = "count"
  OBVIOUS
<1>5. \A d \in Caller : pc[d] = "count" => task'[d] = task[d] /\ op'[d] = op[d]
  OBVIOUS
<1>6. NumInv'
  BY <1>1, <1>2, <1>4, <1>5 DEF TaskInv, NumInv
<1> QED
  BY <1>2, <1>3, <1>6

\* A call begins.
LEMMA BeginStep ==
  ASSUME TaskInv, env' = env, NEW c \in Caller, Register(c) \/ Unregister(c)
  PROVE  TaskInv'
<1> USE SyncTaskAssumption
<1>1. TaskTypeOK /\ LinkInv /\ CallInv /\ ApartInv /\ WalkInv /\ NumInv /\ OwnInv
  BY DEF TaskInv
<1>2. PICK t \in Task, o \in {"register", "unregister"} :
        /\ Begin(c, t, o)
        /\ o = "register" => /\ pc' = [pc EXCEPT ![c] = "search"]
                             /\ cur' = [cur EXCEPT ![c] = WalkFrom(next[ListOf(t)])]
        /\ o = "unregister" => pc' = [pc EXCEPT ![c] = "down"] /\ cur' = cur
  BY DEF Register, Unregister, Goto
<1>3. UNCHANGED <<listVars, sem, irq, work, wk>>
  BY DEF Register, Unregister
<1>4. /\ pc[c] = "idle" /\ crossed' = (crossed \/ ~Apart(c, t, o))
      /\ op' = [op EXCEPT ![c] = o] /\ task' = [task EXCEPT ![c] = t]
      /\ owner' = [owner EXCEPT ![t] = "busy"]
  BY <1>2 DEF Begin
<1>5. /\ pc'[c] = IF o = "register" THEN "search" ELSE "down"
      /\ op'[c] = o /\ task'[c] = t /\ owner'[t] = "busy"
      /\ \A d \in Caller \ {c} : pc'[d] = pc[d] /\ op'[d] = op[d] /\ task'[d] = task[d]
                                /\ cur'[d] = cur[d]
      /\ \A n \in Task \ {t} : owner'[n] = owner[n]
      /\ cur'[c] = IF o = "register" THEN WalkFrom(next[ListOf(t)]) ELSE cur[c]
  BY <1>1, <1>2, <1>4 DEF TaskTypeOK
<1>6. sem' = sem
  BY <1>3
<1>7. /\ WalkInv' /\ NumInv'
      /\ \A n : ListOf(n)' = ListOf(n)
      /\ \A l : Members(l)' = Members(l) /\ Ring(l)' = Ring(l)
      /\ \A n : Absent(n)' <=> Absent(n)
      /\ \A rk : Chained(rk)' <=> Chained(rk)
  BY <1>3, <1>4, <1>5, <1>6, CallOnly
<1>8. ListOf(t) \in List /\ ListOf(t) \in Ring(ListOf(t)) /\ next[ListOf(t)] \in Ring(ListOf(t))
  BY <1>1, RingTypes, WalkFromRing
<1>9. WalkFrom(next[ListOf(t)]).pos = next[ListOf(t)]
      /\ WalkFrom(next[ListOf(t)]).nxt = next[next[ListOf(t)]]
      /\ next[next[ListOf(t)]] \in Ring(ListOf(t)) /\ WalkFrom(next[ListOf(t)]) \in Walk
  BY <1>1, <1>8, WalkFromRing
<1>10. TaskTypeOK'
  <2>1. pc' \in [Caller -> {"idle", "search", "down", "change", "count", "up"}]
        /\ op' \in [Caller -> {"register", "unregister"}]
        /\ task' \in [Caller -> Task \cup {Poison}]
        /\ owner' \in [Task -> {"out", "in", "busy"}]
    BY <1>1, <1>2, <1>4 DEF TaskTypeOK
  <2>2. cur' \in [Caller -> Walk]
    BY <1>1, <1>2, <1>9 DEF TaskTypeOK
  <2> QED
    BY <1>1, <1>3, <1>4, <2>1, <2>2 DEF TaskTypeOK, listVars
<1>11. LinkInv'
  <2>1. PICK rk \in [Node -> Nat] : Chained(rk) /\ (~crossed => Searched(rk))
    BY <1>1 DEF LinkInv
  <2>2. ASSUME ~crossed', NEW d \in Caller, pc'[d] = "search"
        PROVE  LET l == ListOf(task'[d])
                   w == cur'[d]
               IN /\ w.pos \in Ring(l) /\ w.nxt \in Ring(l)
                  /\ \A n \in Members(l) :
                       env.id[n] = env.id[task'[d]] =>
                         /\ w.pos \in Task
                         /\ n = w.pos \/ (w.nxt \in Task /\ rk[n] >= rk[w.nxt])
    <3>1. CASE d # c
      BY <2>1, <2>2, <3>1, <1>4, <1>5 DEF Searched
    <3>2. CASE d = c
      <4> DEFINE l == ListOf(t)
                 p == next[l]
      <4>1. o = "register" /\ task'[d] = t /\ cur'[d].pos = p /\ cur'[d].nxt = next[p]
            /\ p \in Ring(l) /\ next[p] \in Ring(l) /\ l \in List /\ l \in Ring(l)
        BY <2>2, <3>2, <1>2, <1>5, <1>8, <1>9
      <4>2. ASSUME NEW n \in Members(l)
            PROVE  p \in Task /\ (n = p \/ (next[p] \in Task /\ rk[n] >= rk[next[p]]))
        <5>1. rk[l] = 0 /\ rk[n] > 0 /\ rk[n] \in Nat /\ n \in Task
          BY <4>1, <2>1, <1>1, RingTypes DEF Chained, Node
        <5>2. p \in Task /\ rk[p] <= rk[n] /\ rk[p] \in Nat /\ p \in Members(l)
          BY <4>1, <5>1, <2>1, <1>1, RingTypes DEF Chained, Node
        <5>3. CASE rk[p] = rk[n]
          BY <5>2, <5>3, <4>1, <2>1 DEF Chained
        <5>4. CASE rk[n] > rk[p]
          <6>1. next[p] \in Task /\ rk[next[p]] <= rk[n]
            BY <5>2, <5>4, <4>1, <2>1 DEF Chained
          <6> QED
            BY <5>1, <5>2, <6>1, <2>1 DEF Node
        <5> QED
          BY <5>1, <5>2, <5>3, <5>4
      <4> QED
        BY <4>1, <4>2
    <3> QED
      BY <3>1, <3>2
  <2>3. ~crossed' => Searched(rk)'
    BY <2>2, <1>7 DEF Searched
  <2> QED
    BY <2>1, <2>3, <1>7 DEF LinkInv
<1>12. CallInv'
  <2>1. ASSUME NEW d \in Caller
        PROVE  /\ pc'[d] # "idle" => task'[d] \in Task
               /\ pc'[d] = "search" => op'[d] = "register"
               /\ pc'[d] # "search" => cur'[d] = NoWalk("wq")
               /\ pc'[d] \in {"change", "count", "up"} <=> sem = d
    <3>1. CASE d = c
      BY <3>1, <1>1, <1>2, <1>4, <1>5 DEF CallInv, Holds
    <3>2. CASE d # c
      BY <3>2, <1>1, <1>5 DEF CallInv, Holds
    <3> QED
      BY <3>1, <3>2
  <2> QED
    BY <2>1, <1>6 DEF CallInv, Holds
<1>13. ApartInv'
  <2> SUFFICES ASSUME ~crossed' PROVE ApartInv'
    BY DEF ApartInv
  <2>0. ~crossed /\ Apart(c, t, o)
    BY <1>4
  <2>1. ASSUME NEW a \in Caller, NEW b \in Caller, a # b, pc'[a] # "idle", pc'[b] # "idle",
               ListOf(task'[a]) = ListOf(task'[b])
        PROVE  op'[a] = "register" /\ env.id[task'[a]] # env.id[task'[b]]
    <3>1. CASE a = c
      BY <2>0, <2>1, <3>1, <1>5 DEF Apart
    <3>2. CASE b = c
      BY <2>0, <2>1, <3>2, <1>5 DEF Apart
    <3>3. CASE a # c /\ b # c
      BY <2>0, <2>1, <3>3, <1>1, <1>5 DEF ApartInv
    <3> QED
      BY <3>1, <3>2, <3>3
  <2>2. ASSUME NEW d \in Caller
        PROVE  /\ pc'[d] # "idle" => owner'[task'[d]] = "busy"
               /\ pc'[d] \in {"down", "change"} /\ op'[d] = "register" => Absent(task'[d])
               /\ pc'[d] \in {"count", "up"} /\ op'[d] = "unregister" => Absent(task'[d])
    <3>1. CASE d = c
      BY <3>1, <1>2, <1>5
    <3>2. CASE d # c
      <4>1. pc[d] # "idle" => owner'[task[d]] = "busy"
        BY <2>0, <1>1, <1>5 DEF CallInv, ApartInv
      <4> QED
        BY <2>0, <4>1, <3>2, <1>1, <1>5 DEF ApartInv
    <3> QED
      BY <3>1, <3>2
  <2> QED
    BY <2>1, <2>2, <1>7 DEF ApartInv
<1>14. OwnInv'
  <2>1. \A n \in Task : owner'[n] = "busy" \/ owner'[n] = owner[n]
    BY <1>5
  <2> QED
    BY <2>1, <1>1, <1>4, <1>7, RingTypes DEF OwnInv
<1> QED
  BY <1>7, <1>10, <1>11, <1>12, <1>13, <1>14 DEF TaskInv

\* A call ends, and its owner may take the node back only if no list has it.
LEMMA ReturnStep ==
  ASSUME TaskInv, env' = env, UNCHANGED <<listVars, irq, work, wk, crossed>>,
         NEW c \in Caller, pc[c] \in {"search", "down", "change", "up"},
         NEW known \in {"in", "out"}, Return(c, known),
         sem' = IF Holds(c) THEN Nobody ELSE sem,
         ~crossed /\ known = "out" => env.signals \/ task[c] \notin Members(ListOf(task[c]))
  PROVE  TaskInv'
<1> USE SyncTaskAssumption
<1>1. TaskTypeOK /\ LinkInv /\ CallInv /\ ApartInv /\ WalkInv /\ NumInv /\ OwnInv
  BY DEF TaskInv
<1>2. /\ pc' = [pc EXCEPT ![c] = "idle"] /\ op' = [op EXCEPT ![c] = "register"]
      /\ task' = [task EXCEPT ![c] = Poison] /\ cur' = [cur EXCEPT ![c] = NoWalk("wq")]
      /\ owner' = [owner EXCEPT ![task[c]] = known]
  BY DEF Return, Goto
<1>3. task[c] \in Task /\ pc[c] # "idle"
  BY <1>1 DEF CallInv
<1>4. /\ pc'[c] = "idle" /\ cur'[c] = NoWalk("wq") /\ owner'[task[c]] = known
      /\ \A d \in Caller \ {c} : pc'[d] = pc[d] /\ op'[d] = op[d] /\ task'[d] = task[d]
                                /\ cur'[d] = cur[d]
      /\ \A n \in Task \ {task[c]} : owner'[n] = owner[n]
  BY <1>1, <1>2, <1>3 DEF TaskTypeOK
<1>5. (Holds(c) => sem = c) /\ (sem' = Worker <=> sem = Worker)
      /\ \A d \in Caller \ {c} : sem' = d <=> sem = d
  BY <1>1 DEF CallInv
<1>6. sem' # c
  BY <1>1 DEF CallInv
<1>7. /\ WalkInv' /\ NumInv'
      /\ \A n : ListOf(n)' = ListOf(n)
      /\ \A l : Members(l)' = Members(l) /\ Ring(l)' = Ring(l)
      /\ \A n : Absent(n)' <=> Absent(n)
      /\ \A rk : Chained(rk)' <=> Chained(rk)
  <2>1. pc[c] # "count" /\ pc'[c] # "count" /\ UNCHANGED <<listVars, irq, wk>>
    BY <1>4
  <2> QED
    BY <1>4, <1>5, <2>1, CallOnly
<1>8. TaskTypeOK'
  <2>1. NoWalk("wq") \in Walk
    BY <1>1, WalkTypes
  <2>2. pc' \in [Caller -> {"idle", "search", "down", "change", "count", "up"}]
        /\ op' \in [Caller -> {"register", "unregister"}]
        /\ task' \in [Caller -> Task \cup {Poison}]
        /\ owner' \in [Task -> {"out", "in", "busy"}]
        /\ cur' \in [Caller -> Walk]
    BY <1>1, <1>2, <2>1 DEF TaskTypeOK
  <2>3. sem' \in Caller \cup {Worker, Nobody}
    BY <1>1 DEF TaskTypeOK
  <2> QED
    BY <1>1, <2>2, <2>3 DEF TaskTypeOK, listVars
<1>9. LinkInv'
  <2>1. PICK rk \in [Node -> Nat] : Chained(rk) /\ (~crossed => Searched(rk))
    BY <1>1 DEF LinkInv
  <2>2. ~crossed' => Searched(rk)'
    BY <2>1, <1>4, <1>7 DEF Searched
  <2> QED
    BY <2>1, <2>2, <1>7 DEF LinkInv
<1>10. CallInv'
  <2>1. ASSUME NEW d \in Caller
        PROVE  /\ pc'[d] # "idle" => task'[d] \in Task
               /\ pc'[d] = "search" => op'[d] = "register"
               /\ pc'[d] # "search" => cur'[d] = NoWalk("wq")
               /\ pc'[d] \in {"change", "count", "up"} <=> sem' = d
    <3>1. CASE d = c
      BY <3>1, <1>4, <1>6
    <3>2. CASE d # c
      BY <3>2, <1>1, <1>4, <1>5 DEF CallInv, Holds
    <3> QED
      BY <3>1, <3>2
  <2> QED
    BY <2>1 DEF CallInv, Holds
<1>11. ApartInv'
  <2> SUFFICES ASSUME ~crossed PROVE ApartInv'
    BY DEF ApartInv
  <2>1. ASSUME NEW a \in Caller, NEW b \in Caller, a # b, pc'[a] # "idle", pc'[b] # "idle",
               ListOf(task'[a]) = ListOf(task'[b])
        PROVE  op'[a] = "register" /\ env.id[task'[a]] # env.id[task'[b]]
    BY <2>1, <1>1, <1>4 DEF ApartInv
  <2>2. ASSUME NEW d \in Caller
        PROVE  /\ pc'[d] # "idle" => owner'[task'[d]] = "busy"
               /\ pc'[d] \in {"down", "change"} /\ op'[d] = "register" => Absent(task'[d])
               /\ pc'[d] \in {"count", "up"} /\ op'[d] = "unregister" => Absent(task'[d])
    <3>1. CASE d = c
      BY <3>1, <1>4
    <3>2. CASE d # c
      <4>1. pc[d] # "idle" => task[d] # task[c]
        BY <3>2, <1>1, <1>3 DEF ApartInv
      <4>2. pc[d] # "idle" => owner'[task[d]] = "busy"
        BY <4>1, <1>1, <1>4 DEF CallInv, ApartInv
      <4> QED
        BY <4>2, <3>2, <1>1, <1>4 DEF ApartInv
    <3> QED
      BY <3>1, <3>2
  <2> QED
    BY <2>1, <2>2, <1>7 DEF ApartInv
<1>12. OwnInv'
  <2>1. ASSUME ~crossed, ~env.signals, NEW l \in List, NEW n \in Members(l)
        PROVE  owner'[n] # "out"
    <3>1. n \in Task /\ l = ListOf(n)
      BY DEF Members
    <3>2. CASE n = task[c]
      BY <2>1, <3>1, <3>2, <1>4
    <3>3. CASE n # task[c]
      BY <2>1, <3>1, <3>3, <1>1, <1>4 DEF OwnInv
    <3> QED
      BY <3>2, <3>3
  <2> QED
    BY <2>1, <1>1, <1>7 DEF OwnInv
<1> QED
  BY <1>7, <1>8, <1>9, <1>10, <1>11, <1>12 DEF TaskInv

\* A call goes on: what it knows of its list and the semaphore is right there.
LEMMA GoOnStep ==
  ASSUME TaskInv, env' = env, UNCHANGED <<listVars, irq, work, wk, op, task, owner, crossed>>,
         NEW c \in Caller, pc[c] \in {"search", "down", "change"},
         NEW to \in {"search", "down", "change", "up"}, Goto(c, to),
         cur' \in [Caller -> Walk], \A d \in Caller \ {c} : cur'[d] = cur[d],
         sem' = IF to \in {"change", "up"} THEN c ELSE sem,
         to \in {"change", "up"} => sem \in {Nobody, c},
         to \in {"search", "down"} => pc[c] = "search",
         to # "search" => cur'[c] = NoWalk("wq"),
         ~crossed /\ to \in {"down", "change"} /\ op[c] = "register" => Absent(task[c]),
         ~crossed /\ to = "up" /\ op[c] = "unregister" => Absent(task[c]),
         NEW rk \in [Node -> Nat], Chained(rk), ~crossed => Searched(rk)'
  PROVE  TaskInv'
<1> USE SyncTaskAssumption
<1>1. TaskTypeOK /\ LinkInv /\ CallInv /\ ApartInv /\ WalkInv /\ NumInv /\ OwnInv
  BY DEF TaskInv
<1>2. pc' = [pc EXCEPT ![c] = to] /\ op' = op /\ task' = task /\ owner' = owner
  BY DEF Goto
<1>3. pc'[c] = to /\ \A d \in Caller \ {c} : pc'[d] = pc[d]
  BY <1>1, <1>2 DEF TaskTypeOK
<1>4. sem' = Worker <=> sem = Worker
  OBVIOUS
<1>5. /\ WalkInv' /\ NumInv'
      /\ \A n : ListOf(n)' = ListOf(n)
      /\ \A l : Members(l)' = Members(l) /\ Ring(l)' = Ring(l)
      /\ \A n : Absent(n)' <=> Absent(n)
      /\ \A r : Chained(r)' <=> Chained(r)
  <2>1. pc[c] # "count" /\ pc'[c] # "count" /\ UNCHANGED <<listVars, irq, wk>>
    BY <1>3
  <2>2. \A d \in Caller \ {c} : pc'[d] = pc[d] /\ op'[d] = op[d] /\ task'[d] = task[d]
    BY <1>2, <1>3
  <2> QED
    BY <2>1, <2>2, <1>4, CallOnly
<1>6. TaskTypeOK'
  BY <1>1, <1>2 DEF TaskTypeOK, listVars
<1>7. LinkInv'
  BY <1>5 DEF LinkInv
<1>8. CallInv'
  <2>1. ASSUME NEW d \in Caller
        PROVE  /\ pc'[d] # "idle" => task'[d] \in Task
               /\ pc'[d] = "search" => op'[d] = "register"
               /\ pc'[d] # "search" => cur'[d] = NoWalk("wq")
               /\ pc'[d] \in {"change", "count", "up"} <=> sem' = d
    <3>1. CASE d = c
      <4>1. pc[c] # "idle" /\ task[c] \in Task /\ (pc[c] = "search" => op[c] = "register")
        BY <1>1 DEF CallInv
      <4>2. to \in {"change", "up"} <=> sem' = c
        BY <1>1 DEF CallInv, Holds
      <4> QED
        BY <4>1, <4>2, <3>1, <1>2, <1>3
    <3>2. CASE d # c
      <4>1. sem' = d <=> sem = d
        BY <3>2
      <4> QED
        BY <4>1, <3>2, <1>1, <1>2, <1>3 DEF CallInv, Holds
    <3> QED
      BY <3>1, <3>2
  <2> QED
    BY <2>1, <1>2 DEF CallInv, Holds
<1>10. ApartInv'
  <2> SUFFICES ASSUME ~crossed PROVE ApartInv'
    BY DEF ApartInv
  <2>1. \A d \in Caller : pc'[d] # "idle" => pc[d] # "idle"
    BY <1>3
  <2>2. ASSUME NEW d \in Caller
        PROVE  /\ pc'[d] # "idle" => owner[task[d]] = "busy"
               /\ pc'[d] \in {"down", "change"} /\ op[d] = "register" => Absent(task[d])
               /\ pc'[d] \in {"count", "up"} /\ op[d] = "unregister" => Absent(task[d])
    <3>1. CASE d = c
      BY <3>1, <2>1, <1>1, <1>3 DEF ApartInv
    <3>2. CASE d # c
      BY <3>2, <1>1, <1>3 DEF ApartInv
    <3> QED
      BY <3>1, <3>2
  <2> QED
    BY <2>1, <2>2, <1>1, <1>2, <1>5 DEF ApartInv
<1>9. OwnInv'
  BY <1>1, <1>2, <1>5 DEF OwnInv
<1> QED
  BY <1>5, <1>6, <1>7, <1>8, <1>9, <1>10 DEF TaskInv

\* The search.
LEMMA SearchStep ==
  ASSUME TaskInv, env' = env, NEW c \in Caller, Search(c)
  PROVE  TaskInv'
<1> USE SyncTaskAssumption
<1> DEFINE w == cur[c]
           l == ListOf(task[c])
<1>1. TaskTypeOK /\ LinkInv /\ CallInv /\ ApartInv /\ WalkInv /\ NumInv /\ OwnInv
  BY DEF TaskInv
<1>2. pc[c] = "search" /\ task[c] \in Task /\ op[c] = "register" /\ ~Holds(c)
  BY <1>1 DEF Search, CallInv, Holds
<1>3. UNCHANGED <<listVars, sem, irq, work, wk, crossed>>
  BY DEF Search
<1>4. PICK rk \in [Node -> Nat] : Chained(rk) /\ (~crossed => Searched(rk))
  BY <1>1 DEF LinkInv
<1>5. ~crossed =>
      /\ w.pos \in Ring(l) /\ w.nxt \in Ring(l)
      /\ \A n \in Members(l) :
           env.id[n] = env.id[task[c]] =>
             w.pos \in Task /\ (n = w.pos \/ (w.nxt \in Task /\ rk[n] >= rk[w.nxt]))
  BY <1>2, <1>4 DEF Searched
<1>6. l \in List /\ l \notin Task /\ (\A n \in Ring(l) : n \in List \/ n \in Members(l))
      /\ Members(l) \subseteq Task /\ Ring(l) \subseteq Node /\ List \cap Task = {}
  <2>1. l \in List
    BY <1>1, <1>2, RingTypes
  <2> QED
    BY <2>1, <1>1, RingTypes DEF List
<1>7. CASE w.pos \in List /\ Goto(c, "down") /\ cur' = [cur EXCEPT ![c] = NoWalk("wq")]
           /\ UNCHANGED <<op, task, owner>>
  <2>1. ~crossed => Absent(task[c])
    BY <1>5, <1>6, <1>7 DEF Absent
  <2>2. cur' \in [Caller -> Walk] /\ cur'[c] = NoWalk("wq")
        /\ (\A d \in Caller \ {c} : cur'[d] = cur[d])
    BY <1>1, <1>7, WalkTypes DEF TaskTypeOK
  <2>3. pc'[c] = "down" /\ \A d \in Caller \ {c} : pc'[d] = pc[d]
    BY <1>1, <1>7 DEF Goto, TaskTypeOK
  <2>4. /\ \A t : ListOf(t)' = ListOf(t)
        /\ \A k : Members(k)' = Members(k) /\ Ring(k)' = Ring(k)
    BY <1>3, SameLists
  <2>5. ~crossed => Searched(rk)'
    BY <1>4, <1>7, <2>2, <2>3, <2>4 DEF Searched
  <2> QED
    BY <1>2, <1>3, <1>4, <1>7, <2>1, <2>2, <2>5, GoOnStep
<1>8. CASE w.pos \in Task /\ env.id[w.pos] = env.id[task[c]]
           /\ Return(c, IF w.pos = task[c] THEN "in" ELSE "out")
  <2> DEFINE known == IF w.pos = task[c] THEN "in" ELSE "out"
  <2>1. ~crossed => w.pos \in Members(l)
    BY <1>5, <1>6, <1>8
  <2>2. ~crossed /\ known = "out" => task[c] \notin Members(l)
    BY <2>1, <1>1, <1>6, <1>8 DEF OwnInv
  <2>3. known \in {"in", "out"} /\ Return(c, known)
    BY <1>8
  <2> HIDE DEF known
  <2> QED
    BY <2>2, <2>3, <1>2, <1>3, ReturnStep
<1>9. CASE w.pos \in Task /\ env.id[w.pos] # env.id[task[c]]
           /\ cur' = [cur EXCEPT ![c] = WalkFrom(w.nxt)]
           /\ UNCHANGED <<pc, op, task, owner>>
  <2> DEFINE p == w.nxt
  <2>1. ~crossed => WalkFrom(p).pos = p /\ WalkFrom(p).nxt = next[p] /\ next[p] \in Ring(l)
    BY <1>1, <1>5, <1>6, WalkFromRing
  <2>7. WalkFrom(p) \in Walk
    <3>1. p \in Node \cup {Poison}
      BY <1>1 DEF TaskTypeOK, Walk
    <3> QED
      BY <3>1, <1>1, WalkTypes
  <2>2. cur' \in [Caller -> Walk] /\ cur'[c] = WalkFrom(p)
        /\ (\A d \in Caller \ {c} : cur'[d] = cur[d])
    BY <1>1, <1>9, <2>7 DEF TaskTypeOK
  <2>3. pc' = pc /\ Goto(c, "search")
    BY <1>1, <1>2, <1>9 DEF Goto, TaskTypeOK
  <2>4. /\ \A t : ListOf(t)' = ListOf(t)
        /\ \A k : Members(k)' = Members(k) /\ Ring(k)' = Ring(k)
    BY <1>3, SameLists
  <2>5. ASSUME ~crossed, NEW n \in Members(l), env.id[n] = env.id[task[c]]
        PROVE  p \in Task /\ (n = p \/ (next[p] \in Task /\ rk[n] >= rk[next[p]]))
    <3>1. p \in Task /\ rk[n] >= rk[p]
      BY <2>5, <1>5, <1>9
    <3>2. p \in Members(l) /\ rk[p] \in Nat /\ rk[n] \in Nat
      BY <2>5, <3>1, <1>5, <1>6 DEF Node
    <3>3. CASE rk[n] = rk[p]
      BY <3>1, <3>2, <3>3, <1>4, <1>6 DEF Chained
    <3>4. CASE rk[n] > rk[p]
      <4>1. next[p] \in Task /\ rk[next[p]] <= rk[n]
        BY <2>5, <3>4, <1>4, <1>5, <1>6 DEF Chained
      <4> QED
        BY <3>1, <3>2, <4>1, <1>4 DEF Node
    <3> QED
      BY <3>1, <3>2, <3>3, <3>4
  <2>6. ~crossed => Searched(rk)'
    <3> SUFFICES ASSUME ~crossed, NEW d \in Caller, pc'[d] = "search"
                 PROVE  LET k == ListOf(task'[d])
                            v == cur'[d]
                        IN /\ v.pos \in Ring(k) /\ v.nxt \in Ring(k)
                           /\ \A n \in Members(k) :
                                env.id[n] = env.id[task'[d]] =>
                                  /\ v.pos \in Task
                                  /\ n = v.pos \/ (v.nxt \in Task /\ rk[n] >= rk[v.nxt])
      BY <2>4 DEF Searched
    <3>1. CASE d = c
      BY <3>1, <1>5, <1>9, <2>1, <2>2, <2>5
    <3>2. CASE d # c
      BY <3>2, <1>4, <1>9, <2>2, <2>3 DEF Searched
    <3> QED
      BY <3>1, <3>2
  <2> QED
    BY <1>2, <1>3, <1>4, <1>9, <2>2, <2>3, <2>6, GoOnStep
<1> QED
  BY <1>7, <1>8, <1>9 DEF Search

LEMMA DownStep ==
  ASSUME TaskInv, env' = env, NEW c \in Caller, Down(c) \/ DownSignal(c) \/ Up(c)
  PROVE  TaskInv'
<1> USE SyncTaskAssumption
<1>1. TaskTypeOK /\ LinkInv /\ CallInv /\ ApartInv /\ WalkInv /\ NumInv /\ OwnInv
  BY DEF TaskInv
<1>2. CASE Down(c)
  <2>1. pc[c] = "down" /\ sem = Nobody /\ sem' = c /\ Goto(c, "change")
        /\ UNCHANGED <<listVars, irq, work, wk, op, task, cur, owner, crossed>>
    BY <1>2 DEF Down
  <2>2. PICK rk \in [Node -> Nat] : Chained(rk) /\ (~crossed => Searched(rk))
    BY <1>1 DEF LinkInv
  <2>3. pc'[c] = "change" /\ \A d \in Caller \ {c} : pc'[d] = pc[d]
    BY <1>1, <2>1 DEF Goto, TaskTypeOK
  <2>4. /\ \A t : ListOf(t)' = ListOf(t)
        /\ \A k : Members(k)' = Members(k) /\ Ring(k)' = Ring(k)
    BY <2>1, SameLists
  <2>5. ~crossed => Searched(rk)'
    BY <2>1, <2>2, <2>3, <2>4 DEF Searched
  <2>6. cur'[c] = NoWalk("wq") /\ (~crossed /\ op[c] = "register" => Absent(task[c]))
        /\ cur' \in [Caller -> Walk]
    BY <1>1, <2>1 DEF CallInv, ApartInv, TaskTypeOK
  <2> QED
    BY <2>1, <2>2, <2>5, <2>6, GoOnStep
<1>3. CASE DownSignal(c)
  <2>1. pc[c] = "down" /\ env.signals /\ Return(c, "out")
        /\ UNCHANGED <<listVars, irq, work, wk, crossed>> /\ sem' = sem /\ ~Holds(c)
    BY <1>3 DEF DownSignal, Holds
  <2> QED
    BY <2>1, ReturnStep
<1>4. CASE Up(c)
  <2> DEFINE known == IF op[c] = "register" THEN "in" ELSE "out"
  <2>1. pc[c] = "up" /\ Return(c, known) /\ known \in {"in", "out"}
        /\ UNCHANGED <<listVars, irq, work, wk, crossed>> /\ sem' = Nobody /\ Holds(c)
    BY <1>4 DEF Up, Holds
  <2>2. ~crossed /\ known = "out" => task[c] \notin Members(ListOf(task[c]))
    <3>1. known = "out" => op[c] = "unregister"
      BY <1>1 DEF TaskTypeOK
    <3> QED
      BY <3>1, <2>1, <1>1 DEF CallInv, ApartInv, Absent
  <2> HIDE DEF known
  <2> QED
    BY <2>1, <2>2, ReturnStep
<1> QED
  BY <1>2, <1>3, <1>4

-----------------------------------------------------------------------------
(* The steps that change the lists and the counts.                         *)

\* After the step no linked node has the id of t.
Without(t) ==
  \A n \in Task :
    next'[n] # Poison /\ ListOf(n) = ListOf(t) => env.id[n] # env.id[t]

\* What does not depend on the change itself.
LEMMA ChangeRest ==
  ASSUME TaskInv, env' = env, UNCHANGED <<num, sem, irq, work, wk, op, task, cur, owner, crossed>>,
         NEW c \in Caller, pc[c] = "change", Runs, Goto(c, "count"),
         next' \in [Node -> Node \cup {Poison}], prev' \in [Node -> Node \cup {Poison}],
         NEW l \in List, l = ListOf(task[c]),
         \A k \in List : k # l => Members(k)' = Members(k),
         ~crossed => \A d \in Caller :
           d # c /\ pc[d] # "idle" /\ Absent(task[d]) => Without(task[d]),
         ~crossed /\ op[c] = "unregister" => Without(task[c]),
         Cardinality(Members(l)') = IF op[c] = "register" THEN Cardinality(Members(l)) + 1
                                                       ELSE Cardinality(Members(l)) - 1
  PROVE  TaskTypeOK' /\ CallInv' /\ ApartInv' /\ WalkInv' /\ NumInv'
<1> USE SyncTaskAssumption
<1>1. TaskTypeOK /\ LinkInv /\ CallInv /\ ApartInv /\ WalkInv /\ NumInv /\ OwnInv
  BY DEF TaskInv
<1>2. pc'[c] = "count" /\ (\A d \in Caller \ {c} : pc'[d] = pc[d])
      /\ pc' \in [Caller -> {"idle", "search", "down", "change", "count", "up"}]
  BY <1>1 DEF TaskTypeOK, Goto
<1>3. /\ sem = c /\ sem # Worker /\ Holds(c) /\ wk.at # "walk" /\ (~env.smp => irq.at = "idle")
      /\ \A d \in Caller \ {c} : ~Holds(d) /\ pc[d] # "count"
  <2>1. Holds(c)
    BY DEF Holds
  <2>2. sem = c /\ sem # Worker /\ \A d \in Caller : d # c => ~Holds(d)
    BY <1>1, <2>1, OtherHolder
  <2> QED
    BY <1>1, <2>1, <2>2 DEF WalkInv, Runs, Holds
<1>4. num' = num /\ sem' = sem /\ irq' = irq /\ work' = work /\ wk' = wk /\ op' = op
      /\ task' = task /\ cur' = cur /\ owner' = owner /\ crossed' = crossed
  OBVIOUS
<1>5. \A t : ListOf(t)' = ListOf(t)
  BY DEF ListOf
<1>6. TaskTypeOK'
  BY <1>1, <1>2, <1>4 DEF TaskTypeOK
<1>7. WalkInv'
  BY <1>1, <1>3, <1>4 DEF WalkInv
<1>8. NumInv'
  <2> SUFFICES ASSUME NEW k \in List
               PROVE  /\ \A d \in Caller :
                           pc'[d] = "count" /\ ListOf(task'[d]) = k =>
                             num'[k] = IF op'[d] = "register"
                                         THEN Cardinality(Members(k)') - 1
                                         ELSE Cardinality(Members(k)') + 1
                      /\ (\A d \in Caller : pc'[d] = "count" => ListOf(task'[d]) # k) =>
                           num'[k] = Cardinality(Members(k)')
    BY <1>5 DEF NumInv
  <2>1. num[k] = Cardinality(Members(k)) /\ Cardinality(Members(k)) \in Nat
    BY <1>1, <1>3, RingTypes DEF NumInv
  <2>2. CASE k = l
    BY <2>1, <2>2, <1>2, <1>3, <1>4
  <2>3. CASE k # l
    BY <2>1, <2>3, <1>2, <1>3, <1>4
  <2> QED
    BY <2>2, <2>3
<1>9. CallInv'
  <2>1. ASSUME NEW d \in Caller
        PROVE  /\ pc'[d] # "idle" => task'[d] \in Task
               /\ pc'[d] = "search" => op'[d] = "register"
               /\ pc'[d] # "search" => cur'[d] = NoWalk("wq")
               /\ pc'[d] \in {"change", "count", "up"} <=> sem' = d
    <3>1. CASE d = c
      BY <3>1, <1>1, <1>2, <1>3, <1>4 DEF CallInv
    <3>2. CASE d # c
      BY <3>2, <1>1, <1>2, <1>3, <1>4 DEF CallInv, Holds
    <3> QED
      BY <3>1, <3>2
  <2> QED
    BY <2>1 DEF CallInv, Holds
<1>10. ApartInv'
  <2> SUFFICES ASSUME ~crossed PROVE ApartInv'
    BY DEF ApartInv
  <2>1. ASSUME NEW a \in Caller, NEW b \in Caller, a # b, pc'[a] # "idle", pc'[b] # "idle",
               ListOf(task'[a]) = ListOf(task'[b])
        PROVE  op'[a] = "register" /\ env.id[task'[a]] # env.id[task'[b]]
    <3>1. pc[a] # "idle" /\ pc[b] # "idle"
      BY <2>1, <1>2
    <3> QED
      BY <2>1, <3>1, <1>1, <1>4 DEF ApartInv
  <2>2. ASSUME NEW d \in Caller
        PROVE  /\ pc'[d] # "idle" => owner'[task'[d]] = "busy"
               /\ pc'[d] \in {"down", "change"} /\ op'[d] = "register" => Without(task[d])
               /\ pc'[d] \in {"count", "up"} /\ op'[d] = "unregister" => Without(task[d])
    <3>1. CASE d = c
      BY <3>1, <1>1, <1>2, <1>3, <1>4 DEF ApartInv
    <3>2. CASE d # c
      <4>1. pc[d] \in {"down", "change"} /\ op[d] = "register" => Without(task[d])
        BY <3>2, <1>1 DEF ApartInv
      <4> QED
        BY <4>1, <3>2, <1>1, <1>2, <1>3, <1>4 DEF ApartInv, Holds
    <3> QED
      BY <3>1, <3>2
  <2>3. \A d \in Caller : Absent(task[d])' <=> Without(task[d])
    BY <1>4 DEF Absent, Without, Members, ListOf
  <2> QED
    BY <2>1, <2>2, <2>3, <1>4, <1>5 DEF ApartInv
<1> QED
  BY <1>6, <1>7, <1>8, <1>9, <1>10

LEMMA RegisterChange ==
  ASSUME TaskInv, env' = env, NEW c \in Caller, Change(c), op[c] = "register", ~LinkedTwice
  PROVE  TaskInv'
<1> USE SyncTaskAssumption
<1>1. TaskTypeOK /\ LinkInv /\ CallInv /\ ApartInv /\ WalkInv /\ NumInv /\ OwnInv
  BY DEF TaskInv
<1>2. pc[c] = "change" /\ Runs /\ Goto(c, "count")
      /\ UNCHANGED <<num, sem, irq, work, wk, op, task, cur, owner, crossed>>
  BY DEF Change
<1>3. PICK t \in Task : t = task[c]
  BY <1>1, <1>2 DEF CallInv
<1>4. PICK l \in List : l = ListOf(t)
  BY <1>1, RingTypes
<1>5. t \notin Members(l)
  <2>1. t \notin Linked(l)
    BY <1>2, <1>3, <1>4 DEF LinkedTwice
  <2> QED
    BY <2>1, <1>1, LinkedIsMembers DEF LinkInv
<1>17. ~crossed => owner[t] = "busy" /\ \A n \in Members(l) : env.id[n] # env.id[t]
  BY <1>1, <1>2, <1>3, <1>4 DEF ApartInv, Absent
<1>6. ListAddTail(t, ListOf(t))
  BY <1>3 DEF Change
<1>7. PICK rk \in [Node -> Nat] : Chained(rk) /\ (~crossed => Searched(rk))
  BY <1>1 DEF LinkInv
<1>8. /\ next' \in [Node -> Node \cup {Poison}] /\ prev' \in [Node -> Node \cup {Poison}]
      /\ \A k \in List :
           Members(k)' = IF k = ListOf(t) THEN Members(k) \cup {t} ELSE Members(k)
      /\ \E new \in [Node -> Nat] :
           Chained(new)' /\ (\A n \in Node \ {t} : new[n] = rk[n])
  BY <1>1, <1>4, <1>5, <1>6, <1>7, AddTail
<1>9. PICK new \in [Node -> Nat] : Chained(new)' /\ (\A n \in Node \ {t} : new[n] = rk[n])
  BY <1>8
<1>10. /\ \A n : ListOf(n)' = ListOf(n)
       /\ task' = task /\ cur' = cur /\ owner' = owner /\ crossed' = crossed
  BY <1>2 DEF ListOf
<1>11. ~crossed => \A d \in Caller :
         d # c /\ pc[d] # "idle" /\ ListOf(task[d]) = l => env.id[task[d]] # env.id[t]
  BY <1>1, <1>2, <1>3, <1>4 DEF ApartInv
<1>12. Members(l)' = Members(l) \cup {t} /\ \A k \in List : k # l => Members(k)' = Members(k)
  BY <1>4, <1>8
<1>13. \A n \in Task : next'[n] # Poison <=> next[n] # Poison \/ n = t
  <2> SUFFICES ASSUME NEW n \in Task
               PROVE  next'[n] # Poison <=> next[n] # Poison \/ n = t
    OBVIOUS
  <2>1. PICK k \in List : k = ListOf(n)
    BY <1>1, RingTypes
  <2>2. n \in Members(k)' <=> next'[n] # Poison
    BY <2>1, <1>10 DEF Members
  <2>3. n \in Members(k) <=> next[n] # Poison
    BY <2>1 DEF Members
  <2> QED
    BY <2>1, <2>2, <2>3, <1>4, <1>12
<1>14. TaskTypeOK' /\ CallInv' /\ ApartInv' /\ WalkInv' /\ NumInv'
  <2>1. ASSUME ~crossed, NEW d \in Caller, d # c, pc[d] # "idle", Absent(task[d])
        PROVE  Without(task[d])
    BY <2>1, <1>4, <1>11, <1>13 DEF Absent, Without, Members
  <2>2. Cardinality(Members(l)') = Cardinality(Members(l)) + 1
    BY <1>1, <1>5, <1>12, RingTypes, FS_AddElement
  <2>3. l = ListOf(task[c])
    BY <1>3, <1>4
  <2> QED
    BY <1>2, <1>8, <1>12, <2>1, <2>2, <2>3, ChangeRest
<1>15. LinkInv'
  <2>1. ASSUME ~crossed, NEW d \in Caller, pc'[d] = "search", NEW k \in List, k = ListOf(task[d])
        PROVE  LET v == cur[d]
               IN /\ (v.pos \in Task /\ next'[v.pos] # Poison /\ ListOf(v.pos) = k) \/ v.pos = k
                  /\ (v.nxt \in Task /\ next'[v.nxt] # Poison /\ ListOf(v.nxt) = k) \/ v.nxt = k
                  /\ \A n \in Task :
                       next'[n] # Poison /\ ListOf(n) = k /\ env.id[n] = env.id[task[d]] =>
                         /\ v.pos \in Task
                         /\ n = v.pos \/ (v.nxt \in Task /\ new[n] >= new[v.nxt])
    <3> DEFINE v == cur[d]
    <3>1. d # c /\ pc[d] = "search"
      BY <2>1, <1>1, <1>2 DEF Goto, TaskTypeOK
    <3>2. /\ v.pos \in Ring(k) /\ v.nxt \in Ring(k)
          /\ \A n \in Members(k) :
               env.id[n] = env.id[task[d]] =>
                 v.pos \in Task /\ (n = v.pos \/ (v.nxt \in Task /\ rk[n] >= rk[v.nxt]))
      BY <2>1, <3>1, <1>7 DEF Searched
    <3>3. k \notin Task /\ (k = l => env.id[task[d]] # env.id[t])
      BY <2>1, <3>1, <1>11 DEF List
    <3> HIDE DEF v
    <3>4. v.nxt # t
      BY <3>2, <3>3, <1>4, <1>5 DEF Ring, Members
    <3>5. ASSUME NEW n \in Task, next'[n] # Poison, ListOf(n) = k,
                 env.id[n] = env.id[task[d]]
          PROVE  v.pos \in Task /\ (n = v.pos \/ (v.nxt \in Task /\ new[n] >= new[v.nxt]))
      <4>1. n # t /\ n \in Members(k)
        BY <3>3, <3>5, <1>4, <1>13 DEF Members
      <4>2. v.pos \in Task /\ (n = v.pos \/ (v.nxt \in Task /\ rk[n] >= rk[v.nxt]))
        BY <4>1, <3>2, <3>5
      <4> QED
        BY <4>1, <4>2, <3>4, <1>9 DEF Node
    <3>6. ASSUME NEW n \in Ring(k)
          PROVE  (n \in Task /\ next'[n] # Poison /\ ListOf(n) = k) \/ n = k
      BY <1>13 DEF Ring, Members
    <3> QED
      BY <3>2, <3>5, <3>6 DEF v
  <2>2. \A d \in Caller : pc'[d] = "search" => ListOf(task[d]) \in List
    <3> SUFFICES ASSUME NEW d \in Caller, pc'[d] = "search"
                 PROVE  ListOf(task[d]) \in List
      OBVIOUS
    <3>1. pc[d] # "idle"
      BY <1>1, <1>2 DEF Goto, TaskTypeOK
    <3> QED
      BY <3>1, <1>1, RingTypes DEF CallInv
  <2>3. ~crossed' => Searched(new)'
    BY <2>1, <2>2, <1>10 DEF Searched, Ring, Members
  <2> QED
    BY <2>3, <1>9 DEF LinkInv
<1>16. OwnInv'
  <2> SUFFICES ASSUME ~crossed, NEW k \in List
               PROVE  /\ \A m, n \in Members(k)' : env.id[m] = env.id[n] => m = n
                      /\ ~env.signals => \A n \in Members(k)' : owner[n] # "out"
    BY <1>10 DEF OwnInv
  <2>1. /\ \A m, n \in Members(k) : env.id[m] = env.id[n] => m = n
        /\ ~env.signals => \A n \in Members(k) : owner[n] # "out"
    BY <1>1 DEF OwnInv
  <2>2. \A n \in Members(k)' : n \in Members(k) \/ (n = t /\ k = l)
    BY <1>12
  <2>3. k = l => \A n \in Members(k) : env.id[n] # env.id[t]
    BY <1>17
  <2> QED
    BY <2>1, <2>2, <2>3, <1>5, <1>17
<1> QED
  BY <1>14, <1>15, <1>16 DEF TaskInv

LEMMA UnregisterChange ==
  ASSUME TaskInv, env' = env, NEW c \in Caller, Change(c), op[c] = "unregister"
  PROVE  TaskInv'
<1> USE SyncTaskAssumption
<1>1. TaskTypeOK /\ LinkInv /\ CallInv /\ ApartInv /\ WalkInv /\ NumInv /\ OwnInv
  BY DEF TaskInv
<1>2. /\ pc[c] = "change" /\ Runs
      /\ UNCHANGED <<num, sem, irq, work, wk, op, task, cur, owner, crossed>>
  BY DEF Change
<1>3. PICK t \in Task : t = task[c]
  BY <1>1, <1>2 DEF CallInv
<1>4. PICK l \in List : l = ListOf(t)
  BY <1>1, RingTypes
<1>5. PICK rk \in [Node -> Nat] : Chained(rk) /\ (~crossed => Searched(rk))
  BY <1>1 DEF LinkInv
<1>6. \A n : n \in Found(t) <=> n \in Members(l) /\ env.id[n] = env.id[t]
  <2>1. Linked(l) = Members(l)
    BY <1>1, <1>5, LinkedIsMembers
  <2> QED
    BY <2>1, <1>4 DEF Found
<1>7. (\A n : ListOf(n)' = ListOf(n)) /\ task' = task /\ cur' = cur /\ owner' = owner
      /\ crossed' = crossed
  BY <1>2 DEF ListOf
<1>8. CASE Found(t) = {} /\ UNCHANGED <<next, prev>> /\ Goto(c, "up")
  <2>1. Absent(task[c])
    BY <1>3, <1>4, <1>6, <1>8 DEF Absent
  <2>2. UNCHANGED listVars
    BY <1>2, <1>8 DEF listVars
  <2>3. \A k : Members(k)' = Members(k) /\ Ring(k)' = Ring(k)
    BY <2>2, SameLists
  <2>4. pc'[c] = "up" /\ \A d \in Caller \ {c} : pc'[d] = pc[d]
    BY <1>1, <1>8 DEF Goto, TaskTypeOK
  <2>5. next' = next
    BY <2>2 DEF listVars
  <2>6. ~crossed => Searched(rk)'
    BY <1>5, <1>7, <2>4, <2>5 DEF Searched, Ring, Members
  <2>7. cur[c] = NoWalk("wq") /\ sem = c
    BY <1>1, <1>2 DEF CallInv, Holds
  <2>8. cur' = cur /\ sem' = sem /\ cur \in [Caller -> Walk]
    BY <1>1, <1>2 DEF TaskTypeOK
  <2>9. UNCHANGED <<listVars, irq, work, wk, op, task, owner, crossed>>
    BY <1>2, <2>2
  <2> QED
    BY <1>2, <1>5, <1>8, <2>1, <2>6, <2>7, <2>8, <2>9, GoOnStep
<1>9. CASE (\E n \in Found(t) : ListDel(n)) /\ Goto(c, "count")
  <2>1. PICK x \in Members(l) : env.id[x] = env.id[t] /\ ListDel(x)
    BY <1>6, <1>9
  <2>2. /\ next' \in [Node -> Node \cup {Poison}] /\ prev' \in [Node -> Node \cup {Poison}]
        /\ Members(l)' = Members(l) \ {x} /\ (\A k \in List : k # l => Members(k)' = Members(k))
        /\ Chained(rk)'
    BY <1>1, <1>5, <2>1, Delete
  <2>3. ~crossed => \A d \in Caller : d # c /\ pc[d] # "idle" => ListOf(task[d]) # l
    BY <1>1, <1>2, <1>3, <1>4 DEF ApartInv
  <2>4. \A n \in Task : next'[n] # Poison <=> next[n] # Poison /\ n # x
    <3> SUFFICES ASSUME NEW n \in Task
                 PROVE  next'[n] # Poison <=> next[n] # Poison /\ n # x
      OBVIOUS
    <3>1. PICK k \in List : k = ListOf(n)
      BY <1>1, RingTypes
    <3>2. n \in Members(k)' <=> next'[n] # Poison
      BY <3>1, <1>7 DEF Members
    <3>3. n \in Members(k) <=> next[n] # Poison
      BY <3>1 DEF Members
    <3>4. k # l => n # x
      BY <2>1, <3>1 DEF Members
    <3> QED
      BY <3>1, <3>2, <3>3, <3>4, <2>2
  <2>5. ~crossed => Without(t)
    <3>1. ~crossed => \A n \in Members(l) : env.id[n] = env.id[t] => n = x
      BY <1>1, <2>1 DEF OwnInv
    <3> QED
      BY <3>1, <2>4, <1>4 DEF Without, Members
  <2>6. TaskTypeOK' /\ CallInv' /\ ApartInv' /\ WalkInv' /\ NumInv'
    <3>1. ASSUME ~crossed, NEW d \in Caller, d # c, pc[d] # "idle", Absent(task[d])
          PROVE  Without(task[d])
      BY <3>1, <2>4 DEF Absent, Without, Members
    <3>2. Cardinality(Members(l)') = Cardinality(Members(l)) - 1
      <4>1. IsFiniteSet(Members(l))
        BY <1>1, RingTypes
      <4>2. Cardinality(Members(l) \ {x}) = Cardinality(Members(l)) - 1
        BY <4>1, FS_RemoveElement
      <4> QED
        BY <4>2, <2>2
    <3>3. l = ListOf(task[c]) /\ (~crossed => Without(task[c])) /\ op[c] # "register"
      BY <1>3, <1>4, <2>5
    <3> QED
      BY <1>2, <1>9, <2>2, <3>1, <3>2, <3>3, ChangeRest
  <2>7. LinkInv'
    <3>1. ASSUME ~crossed, NEW d \in Caller, pc'[d] = "search"
          PROVE  /\ pc[d] = "search"
                 /\ \A n \in Task : ListOf(n) = ListOf(task[d]) =>
                      (next'[n] # Poison <=> next[n] # Poison)
      <4>1. d # c /\ pc[d] = "search"
        BY <3>1, <1>1, <1>9 DEF Goto, TaskTypeOK
      <4>2. ListOf(task[d]) # ListOf(x)
        BY <3>1, <4>1, <2>1, <2>3 DEF Members
      <4> QED
        BY <4>1, <4>2, <2>4
    <3>2. ~crossed' => Searched(rk)'
      BY <3>1, <1>5, <1>7 DEF Searched, Ring, Members
    <3> QED
      BY <3>2, <2>2 DEF LinkInv
  <2>8. OwnInv'
    <3>1. \A k \in List : \A n \in Members(k)' : n \in Members(k)
      BY <2>2
    <3> QED
      BY <3>1, <1>1, <1>7 DEF OwnInv
  <2> QED
    BY <2>6, <2>7, <2>8 DEF TaskInv
<1> QED
  BY <1>3, <1>8, <1>9 DEF Change

LEMMA NumStep ==
  ASSUME TaskInv, env' = env, NEW c \in Caller, Count(c)
  PROVE  TaskInv'
<1> USE SyncTaskAssumption
<1> DEFINE l == ListOf(task[c])
<1>1. TaskTypeOK /\ LinkInv /\ CallInv /\ ApartInv /\ WalkInv /\ NumInv /\ OwnInv
  BY DEF TaskInv
<1>2. /\ pc[c] = "count" /\ pc' = [pc EXCEPT ![c] = "up"]
      /\ num' = [num EXCEPT ![l] = IF op[c] = "register" THEN num[l] + 1 ELSE num[l] - 1]
      /\ next' = next /\ prev' = prev /\ sem' = sem /\ irq' = irq /\ work' = work /\ wk' = wk
      /\ op' = op /\ task' = task /\ cur' = cur /\ owner' = owner
      /\ crossed' = crossed
  BY DEF Count, Goto
<1>3. task[c] \in Task /\ l \in List
  BY <1>1, <1>2, RingTypes DEF CallInv
<1>4. /\ \A t : ListOf(t)' = ListOf(t)
      /\ \A k : Members(k)' = Members(k)
  BY <1>2 DEF ListOf, Members
<1>5. /\ \A k : Ring(k)' = Ring(k)
      /\ \A t : Absent(t)' <=> Absent(t)
      /\ \A rk : Chained(rk)' <=> Chained(rk)
  BY <1>2, <1>4 DEF Ring, Absent, Chained
<1>6. pc'[c] = "up" /\ (\A d \in Caller \ {c} : pc'[d] = pc[d])
      /\ pc' \in [Caller -> {"idle", "search", "down", "change", "count", "up"}]
  BY <1>1, <1>2 DEF TaskTypeOK
<1>7. \A d \in Caller \ {c} : pc[d] # "count"
  <2>1. Holds(c)
    BY <1>2 DEF Holds
  <2> QED
    BY <1>1, <2>1, OtherHolder DEF Holds
<1>8. num[l] \in Nat /\ Cardinality(Members(l)) \in Nat
      /\ Cardinality(Members(l)) <= Cardinality(Task) /\ Cardinality(Task) \in Nat
      /\ num[l] = IF op[c] = "register" THEN Cardinality(Members(l)) - 1
                                        ELSE Cardinality(Members(l)) + 1
  <2>1. num[l] \in 0..Cardinality(Task)
    BY <1>1, <1>3 DEF TaskTypeOK
  <2>2. Cardinality(Members(l)) \in Nat
        /\ Cardinality(Members(l)) <= Cardinality(Task) /\ Cardinality(Task) \in Nat
    BY <1>1, <1>3, RingTypes
  <2>3. num[l] = IF op[c] = "register" THEN Cardinality(Members(l)) - 1
                                       ELSE Cardinality(Members(l)) + 1
    BY <1>1, <1>2, <1>3 DEF NumInv
  <2> HIDE DEF l
  <2> QED
    BY <2>1, <2>2, <2>3
<1>9. num'[l] = Cardinality(Members(l)) /\ \A k \in List \ {l} : num'[k] = num[k]
  <2>1. num'[l] = (IF op[c] = "register" THEN num[l] + 1 ELSE num[l] - 1)
        /\ \A k \in List \ {l} : num'[k] = num[k]
    BY <1>1, <1>2, <1>3 DEF TaskTypeOK
  <2> HIDE DEF l
  <2> QED
    BY <2>1, <1>8
<1>10. TaskTypeOK'
  <2>1. num' \in [List -> 0..Cardinality(Task)]
    <3>1. (IF op[c] = "register" THEN num[l] + 1 ELSE num[l] - 1) \in 0..Cardinality(Task)
      <4> HIDE DEF l
      <4> QED
        BY <1>8
    <3> QED
      BY <3>1, <1>1, <1>2, <1>3 DEF TaskTypeOK
  <2> QED
    BY <2>1, <1>1, <1>2, <1>6 DEF TaskTypeOK
<1>11. LinkInv'
  <2>1. PICK rk \in [Node -> Nat] : Chained(rk) /\ (~crossed => Searched(rk))
    BY <1>1 DEF LinkInv
  <2>2. ~crossed' => Searched(rk)'
    BY <2>1, <1>2, <1>4, <1>5, <1>6 DEF Searched
  <2> QED
    BY <2>1, <2>2, <1>5 DEF LinkInv
<1>12. CallInv'
  BY <1>1, <1>2, <1>4, <1>5, <1>6 DEF CallInv, Holds
<1>16. ApartInv'
  BY <1>1, <1>2, <1>4, <1>5, <1>6 DEF ApartInv
<1>13. WalkInv'
  BY <1>1, <1>2, <1>5 DEF WalkInv
<1>14. NumInv'
  <2> SUFFICES ASSUME NEW k \in List
               PROVE  /\ \A d \in Caller :
                           pc'[d] = "count" /\ ListOf(task[d]) = k =>
                             num'[k] = IF op[d] = "register"
                                         THEN Cardinality(Members(k)) - 1
                                         ELSE Cardinality(Members(k)) + 1
                      /\ (\A d \in Caller : pc'[d] = "count" => ListOf(task[d]) # k) =>
                           num'[k] = Cardinality(Members(k))
    BY <1>2, <1>4 DEF NumInv
  <2>1. \A d \in Caller : pc'[d] # "count"
    BY <1>6, <1>7
  <2>2. k # l => num[k] = Cardinality(Members(k))
    BY <1>1, <1>2, <1>7 DEF NumInv
  <2> QED
    BY <2>1, <2>2, <1>9
<1>15. OwnInv'
  BY <1>1, <1>2, <1>4 DEF OwnInv
<1> QED
  BY <1>10, <1>11, <1>12, <1>13, <1>14, <1>15, <1>16 DEF TaskInv

-----------------------------------------------------------------------------
(* Theorems.                                                               *)

LEMMA TaskInit == SyncTaskInit => TaskInv
<1> USE SyncTaskAssumption
<1> SUFFICES ASSUME SyncTaskInit PROVE TaskInv
  OBVIOUS
<1>1. Cardinality(Task) \in Nat
  BY FS_CardinalityType
<1>2. /\ \A n \in Node : next[n] = IF n \in List THEN n ELSE Poison
      /\ next \in [Node -> Node \cup {Poison}] /\ prev = next
  BY DEF SyncTaskInit, Node
<1>3. \A n \in Task : n \notin List /\ n \in Node /\ next[n] = Poison
  BY <1>2 DEF Node, List
<1>4. (\A l \in List : Members(l) = {} /\ Ring(l) = {l} /\ l \in Node)
  BY <1>3 DEF Members, Ring, Node
<1>5. TaskTypeOK
  <2>1. NoWalk("wq") \in Walk /\ NoWalk("hw") \in Walk
    BY DEF NoWalk, Walk, Node, List
  <2>2. num \in [List -> 0..Cardinality(Task)]
    BY <1>1 DEF SyncTaskInit
  <2> QED
    BY <2>1, <2>2, <1>2 DEF SyncTaskInit, TaskTypeOK
<1>6. LinkInv
  <2> DEFINE rk == [n \in Node |-> 0]
  <2>1. Chained(rk)
    BY <1>2, <1>4, <1>3 DEF Chained, List
  <2>2. Searched(rk)
    BY DEF SyncTaskInit, Searched
  <2>3. rk \in [Node -> Nat]
    OBVIOUS
  <2> HIDE DEF rk
  <2> QED
    BY <2>1, <2>2, <2>3 DEF LinkInv
<1>7. CallInv
  BY DEF SyncTaskInit, CallInv, Holds
<1>11. ApartInv
  BY DEF SyncTaskInit, ApartInv
<1>8. WalkInv
  BY DEF SyncTaskInit, WalkInv, NoWalk
<1>9. NumInv
  <2>1. Cardinality({}) = 0
    BY FS_EmptySet
  <2> QED
    BY <1>4, <2>1 DEF SyncTaskInit, NumInv
<1>10. OwnInv
  BY <1>4 DEF OwnInv
<1> QED
  BY <1>5, <1>6, <1>7, <1>8, <1>9, <1>10, <1>11 DEF TaskInv

LEMMA TaskStep == TaskInv /\ [TaskNext]_taskVars => TaskInv'
<1> SUFFICES ASSUME TaskInv, [TaskNext]_taskVars PROVE TaskInv'
  OBVIOUS
<1>1. CASE TaskHandler /\ UNCHANGED env
  BY <1>1, WalkerStep
<1>2. CASE Work /\ UNCHANGED env
  BY <1>2, WalkerStep
<1>3. ASSUME NEW c \in Caller, Register(c) \/ Unregister(c), env' = env PROVE TaskInv'
  BY <1>3, BeginStep
<1>4. ASSUME NEW c \in Caller, Search(c), env' = env PROVE TaskInv'
  BY <1>4, SearchStep
<1>5. ASSUME NEW c \in Caller, Down(c) \/ DownSignal(c) \/ Up(c), env' = env PROVE TaskInv'
  BY <1>5, DownStep
<1>6. ASSUME NEW c \in Caller, Change(c), ~LinkedTwice, env' = env PROVE TaskInv'
  BY <1>6, RegisterChange, UnregisterChange DEF Change
<1>7. ASSUME NEW c \in Caller, Count(c), env' = env PROVE TaskInv'
  BY <1>7, NumStep
<1>8. CASE UNCHANGED taskVars
  <2>1. UNCHANGED <<listVars, callVars, env, sem, irq, work, wk>>
    BY <1>8 DEF taskVars
  <2>2. next' = next /\ prev' = prev /\ num' = num /\ pc' = pc /\ op' = op /\ task' = task
        /\ cur' = cur /\ owner' = owner /\ crossed' = crossed /\ env' = env /\ sem' = sem /\ irq' = irq
        /\ work' = work /\ wk' = wk
    BY <2>1 DEF listVars, callVars
  <2>3. /\ \A t : ListOf(t)' = ListOf(t)
        /\ \A l : Members(l)' = Members(l) /\ Ring(l)' = Ring(l)
        /\ \A t : Absent(t)' <=> Absent(t)
        /\ \A rk : Chained(rk)' <=> Chained(rk)
    BY <2>1, SameLists
  <2>4. \A rk : Searched(rk)' <=> Searched(rk)
    BY <2>2, <2>3 DEF Searched
  <2>5. TaskTypeOK' /\ LinkInv' /\ CallInv' /\ ApartInv'
    BY <2>2, <2>3, <2>4 DEF TaskInv, TaskTypeOK, LinkInv, CallInv, ApartInv, Holds
  <2>6. WalkInv' /\ NumInv' /\ OwnInv'
    BY <2>2, <2>3 DEF TaskInv, WalkInv, NumInv, OwnInv
  <2> QED
    BY <2>5, <2>6 DEF TaskInv
<1>9. TaskNext \/ UNCHANGED taskVars
  OBVIOUS
<1> QED
  BY <1>1, <1>2, <1>3, <1>4, <1>5, <1>6, <1>7, <1>8, <1>9 DEF TaskNext, Goes, Step,
     CallStep

LEMMA TaskAlways == TaskSpec => []TaskInv
BY TaskInit, TaskStep, PTL DEF TaskSpec

\* For any nodes, callers and uses, also with calls that meet: the lists, the
\* counts and the places of callers and walks keep to their types; no count
\* wraps below zero.
THEOREM TaskTypeCorrect == TaskSpec => []TaskTypeOK
<1>1. TaskInv => TaskTypeOK
  BY DEF TaskInv
<1> QED
  BY <1>1, TaskAlways, PTL

\* No walk of the work item, and none of the handler on one CPU, follows a
\* poisoned link, whatever calls meet.  As long as calls for one list are kept
\* apart (~crossed), no search does either, and without signals the walks only
\* visit nodes whose owners have not got them back.
THEOREM WalksAlwaysRegistered == TaskSpec => []WalksRegistered
<1>1. TaskInv => WalksRegistered
  <2> SUFFICES ASSUME TaskInv PROVE WalksRegistered
    OBVIOUS
  <2> USE SyncTaskAssumption
  <2>1. TaskTypeOK /\ LinkInv /\ CallInv /\ WalkInv /\ OwnInv
    BY DEF TaskInv
  <2>2. "wq" \in List /\ "hw" \in List
    BY DEF List
  <2>3. \A l \in List : /\ \A n \in Ring(l) : n \in Task => n \in Members(l)
                        /\ \A n \in Ring(l) : n # Poison
    BY <2>1, RingTypes DEF List
  <2>4. NoStaleCallback
    BY <2>1, <2>2, <2>3 DEF NoStaleCallback, WalkInv, OwnInv
  <2>5. WalkSafe
    <3>1. wk.w.pos # Poison /\ (~env.smp => irq.w.pos # Poison)
      BY <2>1, <2>2, <2>3 DEF WalkInv, List
    <3>2. ASSUME ~crossed, NEW c \in Caller PROVE cur[c].pos # Poison
      <4>1. CASE pc[c] = "search"
        <5>1. ListOf(task[c]) \in List
          BY <4>1, <2>1, RingTypes DEF CallInv
        <5>2. cur[c].pos \in Ring(ListOf(task[c]))
          BY <3>2, <4>1, <2>1 DEF LinkInv, Searched
        <5> QED
          BY <5>1, <5>2, <2>3
      <4>2. CASE pc[c] # "search"
        BY <4>2, <2>1 DEF CallInv, NoWalk
      <4> QED
        BY <4>1, <4>2
    <3> QED
      BY <3>1, <3>2 DEF WalkSafe
  <2> QED
    BY <2>4, <2>5 DEF WalksRegistered
<1> QED
  BY <1>1, TaskAlways, PTL

\* However many calls meet, the count of a list is the number of nodes a walk
\* of it meets whenever no call is between the two.  As long as calls for one
\* list are kept apart, which the code does not do, no list has two nodes with
\* one id and none is linked twice, although the search for the id is made
\* without the semaphore.
THEOREM CountAlwaysMatches == TaskSpec => []ListMatchesCount
<1>1. TaskInv => ListMatchesCount
  <2> SUFFICES ASSUME TaskInv PROVE ListMatchesCount
    OBVIOUS
  <2>1. TaskTypeOK /\ LinkInv /\ CallInv /\ ApartInv /\ NumInv /\ OwnInv
    BY DEF TaskInv
  <2>2. \A l \in List : Linked(l) = Members(l)
    BY <2>1, LinkedIsMembers DEF LinkInv
  <2>3. (\A c \in Caller : pc[c] # "count") =>
          \A l \in List : num[l] = Cardinality(Members(l))
    BY <2>1 DEF NumInv
  <2>4. ~crossed => ~LinkedTwice
    <3>1. \A c \in Caller : pc[c] = "change" => ListOf(task[c]) \in List
      BY <2>1, RingTypes DEF CallInv
    <3> QED
      BY <3>1, <2>1, <2>2 DEF ApartInv, Absent, LinkedTwice, CallInv
  <2> QED
    BY <2>1, <2>2, <2>3, <2>4 DEF ListMatchesCount, OwnInv
<1> QED
  BY <1>1, TaskAlways, PTL

=============================================================================
