----------------------------- MODULE IspSyncCfg -----------------------------
(***************************************************************************)
(* The sensor configurations of one ISP pipe.  At the end of a run of the  *)
(* algorithms the firmware thread submits a configuration into a ring of   *)
(* ISP_SYNC_BUF_NODE_NUM slots (ISP_SyncCfgSet, ISP_DRV_SyncCfgSet).  Once *)
(* per frame the interrupt handler reads the newest one and shifts a line  *)
(* of pointers into the ring, apstNode, so that a register with delay d is *)
(* written from the configuration that was the newest d frames ago: that   *)
(* is how exposure time and gain take effect in one frame.  A register is  *)
(* only written when the configuration marks it as changed (bUpdate), so a *)
(* mark that is lost leaves the sensor wrong until the value changes       *)
(* again.  The handler works without g_stIspLock except when the firmware  *)
(* is late; the firmware copies into a slot outside the lock.              *)
(*                                                                         *)
(* One register stands for all of them: its delay, its interrupt position  *)
(* and the mode of the pipe are chosen in the initial state.  The modes    *)
(* are linear, built-in WDR and line WDR (u8VCNumMax = 0), offline.        *)
(***************************************************************************)
EXTENDS Integers, FiniteSets

CONSTANTS
  BufNum,    \* ISP_SYNC_BUF_NODE_NUM
  DlyLimit,  \* CFG2VLD_DLY_LIMIT
  MaxDelay,  \* the largest u8DelayFrmNum of the sensors
  SyncIndex, \* the index the ISP's own gains use (ISP_DRV_GetBeSyncIndex)
  Value,     \* the values of the register
  Delays,    \* the delays a register may have, u8DelayFrmNum
  Positions, \* the interrupts it may be written in, u8IntPos
  UpdatePos, \* u32UpdatePos: 0 start of the frame, 1 end of the frame
  Smp,       \* the handler and the firmware run on two processors
  Switching  \* the application changes WDR and image modes

ASSUME ConstAssumption ==
  /\ BufNum \in Nat /\ BufNum > 2
  /\ DlyLimit \in Nat
  /\ MaxDelay \in 0..(DlyLimit - 1)
  /\ SyncIndex \in 0..DlyLimit
  /\ Value # {} /\ "none" \notin Value
  /\ Delays \subseteq 0..MaxDelay /\ Positions \subseteq {0, 1}
  /\ UpdatePos \in {0, 1}
  /\ Smp \in BOOLEAN /\ Switching \in BOOLEAN

Slot == 0..(BufNum - 1)
Null == BufNum            \* HI_NULL
None == "none"            \* no value: a slot whose bValid is false, unknown
Line == 0..DlyLimit       \* the indices of apstNode
Due  == 0..MaxDelay

VARIABLES
  wr, rd,    \* u8BufWRFlag, u8BufRDFlag
  buf,       \* stSyncCfgBufNode: value, bUpdate, bValid
  apstNode,  \* the delay line
  bErr,      \* local of ISP_DRV_CalcSyncCfg
  isr,       \* where the handler is
  second,    \* it handles ISP_2ND_INT
  late,      \* it found the firmware late and holds g_stIspLock
  useNode,   \* pstUseNode is set
  bEdge,     \* the frame edge the firmware waits for
  fw,        \* where the firmware thread is
  sns,       \* the sensor library: value fetched last, bConfig
  reg,       \* the register in the sensor
  due,       \* history: the newest value of this frame and of earlier ones,
             \* None: read before the last change of modes
  shifted,   \* history: a configuration was read in this frame
  dirty,     \* history: entries of apstNode whose slot is written again
  stale,     \* history: pending slots submitted before a change of modes
  cleared,   \* history: the last switch of modes cleared the ring
  mode       \* delay, intPos of the register: fixed; linear: not WDR

ringVars == <<wr, rd, buf>>
lineVars == <<apstNode, bErr, dirty>>
histVars == <<due, shifted, stale, cleared>>
vars == <<wr, rd, buf, apstNode, bErr, isr, second, late, useNode, bEdge, fw,
          sns, reg, due, shifted, dirty, stale, cleared, mode>>

\* A submitted configuration: the value of the register and its bUpdate.
Cfg == [val : Value \cup {None}, upd : BOOLEAN]
Zero == [val |-> None, upd |-> FALSE]

Init ==
  /\ wr = 0 /\ rd = 0
  /\ buf = [s \in Slot |-> Zero]
  /\ apstNode = [k \in Line |-> Null]
  /\ bErr = FALSE
  /\ isr = "idle" /\ second = FALSE /\ late = FALSE
  /\ useNode = FALSE /\ bEdge = FALSE
  /\ fw = "wait"
  /\ \E v \in Value :
       /\ sns = [last |-> v, bConfig |-> FALSE]
       /\ reg = v
       /\ due = [k \in Due |-> None]
  /\ shifted = FALSE
  /\ dirty = {}
  /\ stale = {}
  /\ cleared = TRUE
  /\ mode \in [delay : Delays, intPos : Positions, linear : BOOLEAN]

TypeOK ==
  /\ wr \in Slot /\ rd \in Slot
  /\ buf \in [Slot -> Cfg]
  /\ apstNode \in [Line -> Slot \cup {Null}]
  /\ bErr \in BOOLEAN
  /\ isr \in {"idle", "shift", "read", "write", "between"}
  /\ second \in BOOLEAN /\ late \in BOOLEAN
  /\ useNode \in BOOLEAN /\ bEdge \in BOOLEAN
  /\ fw \in {"wait", "run", "sync", "copy", "switch", "sensor"}
  /\ sns \in [last : Value, bConfig : BOOLEAN]
  /\ reg \in Value
  /\ due \in [Due -> Value \cup {None}]
  /\ shifted \in BOOLEAN
  /\ dirty \subseteq 0..SyncIndex
  /\ stale \subseteq Slot
  /\ cleared \in BOOLEAN
  /\ mode \in [delay : Delays, intPos : Positions, linear : BOOLEAN]

-----------------------------------------------------------------------------
(* The ring.                                                               *)

Succ(s) == (s + 1) % BufNum
Pred(s) == (s + BufNum - 1) % BufNum

IsEmpty == wr = rd
IsFull  == Succ(wr) = rd
Pending(s) == (s + BufNum - rd) % BufNum < (wr + BufNum - rd) % BufNum
IsErr   == ~IsEmpty /\ Succ(rd) # wr   \* more than one is pending

-----------------------------------------------------------------------------
(* The interrupt handler.                                                  *)

\* ISP_DRV_GetSnsRegConfigNode: the configuration the register is written
\* from, Null when there is none or, in linear mode, nothing new.
SnsRegConfigNode ==
  LET cur == apstNode[mode.delay]  pre == apstNode[mode.delay + 1]
  IN IF mode.linear /\ cur = pre THEN Null ELSE cur

\* ISP_DRV_NormalRegsCfgSensor at some interrupt positions: nothing when
\* there is no valid newest configuration.
RegConfigSensor(positions) ==
  LET s == SnsRegConfigNode
      written == /\ mode.intPos \in positions
                 /\ apstNode[0] # Null /\ buf[apstNode[0]].val # None
                 /\ s # Null /\ buf[s].val # None /\ buf[s].upd
  IN reg' = IF written THEN buf[s].val ELSE reg

\* The configuration is read in the first interrupt, or in the second when
\* registers are updated at the end of the frame; line WDR always reads it in
\* the first.
ReadsInSecond == mode.linear /\ UpdatePos = 1

\* ISP_IrqRoute at the start of a frame, ISP_DRV_GetUseNode.  When the
\* firmware still works on its node the sensor is configured under the lock;
\* otherwise the handler takes a free node, without one it only writes the
\* registers.
FrameStart ==
  /\ isr = "idle"
  /\ second' = FALSE
  /\ shifted' = FALSE
  /\ \/ /\ useNode
        /\ late' = TRUE /\ isr' = "shift"
        /\ UNCHANGED <<useNode, bEdge, reg>>
     \/ /\ ~useNode
        /\ useNode' = TRUE
        /\ IF ReadsInSecond THEN isr' = "between" /\ bEdge' = TRUE
           ELSE isr' = "shift" /\ UNCHANGED bEdge
        /\ UNCHANGED <<late, reg>>
     \/ /\ ~useNode
        /\ RegConfigSensor({0})
        /\ isr' = "between"
        /\ UNCHANGED <<late, useNode, bEdge>>
  /\ UNCHANGED <<ringVars, lineVars, fw, sns, due, stale, cleared,
                 mode>>

\* The second interrupt of the frame.
SecondInt ==
  /\ isr = "between"
  /\ IF ReadsInSecond
     THEN isr' = "shift" /\ second' = TRUE /\ UNCHANGED reg
          /\ UNCHANGED shifted
     ELSE isr' = "idle" /\ RegConfigSensor({1}) /\ UNCHANGED second
          /\ shifted' = FALSE
  /\ UNCHANGED <<ringVars, lineVars, late, useNode, bEdge, fw, sns, due,
                 stale, cleared, mode>>

\* Index k of the line before it moves on.
Before(k) == IF k = 0 THEN 0 ELSE k - 1

\* Mutant: the line only moves when something is pending.
ShiftNodesIfPending ==
  /\ isr = "shift"
  /\ apstNode' = [k \in Line |-> apstNode[IF IsEmpty THEN k ELSE Before(k)]]
  /\ dirty' = {k \in 0..SyncIndex : (IF IsEmpty THEN k ELSE Before(k)) \in dirty}
  /\ bErr' = IsErr
  /\ isr' = "read"
  /\ UNCHANGED <<ringVars, second, late, useNode, bEdge, fw, sns, reg,
                 histVars, mode>>

\* Mutant: skipped configurations go unnoticed.
ShiftNodesNoErr ==
  /\ isr = "shift"
  /\ apstNode' = [k \in Line |-> apstNode[Before(k)]]
  /\ dirty' = {k \in 0..SyncIndex : Before(k) \in dirty}
  /\ bErr' = FALSE
  /\ isr' = "read"
  /\ UNCHANGED <<ringVars, second, late, useNode, bEdge, fw, sns, reg,
                 histVars, mode>>

\* The first half of ISP_DRV_CalcSyncCfg: the line moves on, and the handler
\* notices that more than one configuration is pending.
ShiftNodes ==
  /\ isr = "shift"
  /\ apstNode' = [k \in Line |-> apstNode[Before(k)]]
  /\ dirty' = {k \in 0..SyncIndex : Before(k) \in dirty}
  /\ bErr' = IsErr
  /\ isr' = "read"
  /\ UNCHANGED <<ringVars, second, late, useNode, bEdge, fw, sns, reg,
                 histVars, mode>>

\* What the history remembers of a configuration that is read.
DueNext(new) ==
  [k \in Due |-> IF k = 0 THEN new ELSE IF shifted THEN due[k] ELSE due[k - 1]]

\* Its second half: the newest configuration is taken (ISPSyncBufRead2), the
\* others are skipped and then every register of it counts as changed.
ReadNewest ==
  LET s == Pred(wr)
  IN /\ isr = "read"
     /\ isr' = "write"
     /\ shifted' = TRUE
     /\ bErr' = FALSE
     /\ stale' = {}
     /\ IF IsEmpty
        THEN /\ due' = DueNext(due[0])
             /\ UNCHANGED <<rd, buf, apstNode, dirty>>
        ELSE /\ due' = DueNext(IF s \in stale THEN None ELSE buf[s].val)
             /\ rd' = wr
             /\ buf' = [buf EXCEPT ![s].upd = @ \/ (bErr /\ buf[s].val # None)]
             /\ apstNode' = [apstNode EXCEPT ![0] = s]
             /\ dirty' = dirty \ {0}
     /\ UNCHANGED <<wr, second, late, useNode, bEdge, fw, sns, reg,
                    cleared, mode>>

\* The registers are written; the first interrupt also wakes the firmware.
WriteRegs ==
  /\ isr = "write"
  /\ RegConfigSensor(IF second THEN {0, 1} ELSE {0})
  /\ isr' = IF second THEN "idle" ELSE "between"
  /\ bEdge' = (bEdge \/ ~second)
  /\ late' = FALSE
  /\ second' = FALSE
  /\ shifted' = (shifted /\ ~second)
  /\ UNCHANGED <<ringVars, lineVars, useNode, fw, sns, due, stale, cleared,
                 mode>>

-----------------------------------------------------------------------------
(* The firmware thread, HI_MPI_ISP_Run.                                    *)

\* On one processor it does not run while the handler does; on two only the
\* lock, which the handler holds in a late frame, keeps them apart.
MayRun == Smp \/ isr \in {"idle", "between"}
MayLock == MayRun /\ ~late

\* ISP_GET_FRAME_EDGE returns; ISP_Run ends at once when the handler has not
\* taken a new node since the last publication (ISP_GetBeFreeBuf).
WaitEdge ==
  /\ fw = "wait" /\ MayLock
  /\ bEdge
  /\ bEdge' = FALSE
  /\ fw' = IF useNode THEN "run" ELSE "wait"
  /\ UNCHANGED <<ringVars, lineVars, isr, second, late, useNode, sns, reg,
                 histVars, mode>>

\* ISP_RegCfgInfoSet publishes the node; the sensor is not configured in
\* frames between two runs of the exposure algorithm.
Publish ==
  /\ fw = "run" /\ MayLock
  /\ useNode' = FALSE
  /\ fw' \in {"sync", "wait"}
  /\ UNCHANGED <<ringVars, lineVars, isr, second, late, bEdge, sns, reg,
                 histVars, mode>>

\* What the sensor library reports for value v (cmos_get_sns_regs_info): all
\* registers changed when the last report did not reach the driver.
SnsRegs(v) ==
  [val |-> v, upd |-> ~sns.bConfig \/ v # sns.last]

\* ISP_SyncCfgSet up to the copy: a full ring refuses the configuration, the
\* first free slot receives it.
SyncCfgSetPick ==
  /\ fw = "sync" /\ MayLock
  /\ \E v \in Value :
       /\ sns' = [last |-> v, bConfig |-> FALSE]
       /\ IF IsFull
          THEN fw' = "wait" /\ UNCHANGED <<buf, dirty>>
          ELSE /\ fw' = "copy"
               /\ buf' = [buf EXCEPT ![wr] = SnsRegs(v)]
               /\ dirty' = dirty \cup {k \in 0..SyncIndex : apstNode[k] = wr}
  /\ UNCHANGED <<wr, rd, apstNode, bErr, isr, second, late, useNode, bEdge,
                 reg, histVars, mode>>

\* Mutant: the index does not wrap.
SyncCfgSetAdvanceNoWrap ==
  /\ fw = "copy" /\ MayLock
  /\ wr' = wr + 1
  /\ sns' = [sns EXCEPT !.bConfig = TRUE]
  /\ fw' = "wait"
  /\ UNCHANGED <<rd, buf, lineVars, isr, second, late, useNode, bEdge, reg,
                 histVars, mode>>

\* The copy ends and the configuration becomes visible.
SyncCfgSetAdvance ==
  /\ fw = "copy" /\ MayLock
  /\ wr' = Succ(wr)
  /\ sns' = [sns EXCEPT !.bConfig = TRUE]
  /\ fw' = "wait"
  /\ UNCHANGED <<rd, buf, lineVars, isr, second, late, useNode, bEdge, reg,
                 histVars, mode>>

\* A change of WDR or image mode begins: ISP_DRV_GetBeLastBuf.
BeginSwitch ==
  /\ Switching
  /\ fw = "wait" /\ MayLock
  /\ useNode' = TRUE
  /\ fw' = "switch"
  /\ UNCHANGED <<ringVars, lineVars, isr, second, late, bEdge, sns, reg,
                 histVars, mode>>

\* Mutant: the line still points to configurations of the old mode.
SwitchCfgKeepsLine ==
  /\ fw = "switch" /\ MayLock
  /\ \/ /\ \E l \in BOOLEAN : mode' = [mode EXCEPT !.linear = l]
        /\ wr' = 0 /\ rd' = 0
        /\ cleared' = TRUE
        /\ stale' = {}
        /\ UNCHANGED <<buf, apstNode, dirty>>
     \/ /\ mode.linear
        /\ cleared' = FALSE
        /\ stale' = {s \in Slot : Pending(s)}
        /\ UNCHANGED <<ringVars, apstNode, dirty, mode>>
  /\ useNode' = FALSE
  /\ fw' = "sensor"
  /\ due' = [k \in Due |-> None]
  /\ UNCHANGED <<bErr, isr, second, late, bEdge, sns, reg, shifted>>

\* ISP_DRV_SetWdrCfg and ISP_DRV_SwitchMode clear the ring and the line, in
\* any change of the WDR mode; a change of the image mode does it in line WDR
\* mode only.  The configuration of the new mode is published.
SwitchCfg ==
  /\ fw = "switch" /\ MayLock
  /\ \/ /\ \E l \in BOOLEAN : mode' = [mode EXCEPT !.linear = l]
        /\ wr' = 0 /\ rd' = 0
        /\ buf' = [s \in Slot |-> Zero]
        /\ apstNode' = [k \in Line |-> Null]
        /\ dirty' = {}
        /\ stale' = {}
        /\ cleared' = TRUE
     \/ /\ mode.linear
        /\ cleared' = FALSE
        /\ stale' = {s \in Slot : Pending(s)}
        /\ UNCHANGED <<ringVars, apstNode, dirty, mode>>
  /\ useNode' = FALSE
  /\ fw' = "sensor"
  /\ due' = [k \in Due |-> None]
  /\ UNCHANGED <<bErr, isr, second, late, bEdge, sns, reg, shifted>>

\* ISP_SensorSwitch: the sensor is initialised with the values the library has
\* now; the next report will be a full one.
SensorSwitch ==
  /\ fw = "sensor" /\ MayRun
  /\ \E v \in Value :
       /\ sns' = [last |-> v, bConfig |-> FALSE]
       /\ reg' = v
  /\ fw' = "wait"
  /\ UNCHANGED <<ringVars, lineVars, isr, second, late, useNode, bEdge,
                 histVars, mode>>

Handler == FrameStart \/ ShiftNodes \/ ReadNewest \/ WriteRegs \/ SecondInt
Firmware ==
  \/ WaitEdge \/ Publish \/ SyncCfgSetPick \/ SyncCfgSetAdvance
  \/ BeginSwitch \/ SwitchCfg \/ SensorSwitch
Next == Handler \/ Firmware
Spec == Init /\ [][Next]_vars

-----------------------------------------------------------------------------
(* Properties.                                                             *)

\* After every frame the sensor holds what the configuration said that was the
\* newest in the frame the register's delay refers to, whatever was skipped,
\* repeated or marked unchanged, in every mode that reads the ring in the first
\* interrupt (ISP_DRV_CalcSyncCfg, ISP_DRV_GetSnsRegConfigNode).
AppliesDelayed ==
  isr = "idle" /\ ~ReadsInSecond /\ due[mode.delay] # None
    => reg = due[mode.delay]

\* A slot the handler is about to use, for the sensor or for the ISP's own
\* gains, is not the one the firmware writes or has written since: the copy of
\* ISP_DRV_SyncCfgSet outside the lock is never seen half done.  Where the
\* ring is read at the end of the frame a third run may copy into the slot that
\* the ISP's gains are read from.
SlotsKept ==
  ~ReadsInSecond => /\ isr = "write" => dirty = {}
                    /\ isr = "between" => dirty \cap Due = {}

\* The loop of HI_MPI_ISP_Run never gets a configuration refused, because the
\* edge is a single flag and a run needs a node the handler took: at most two
\* are ever pending (ISPSyncBufIsFull).
NeverRefused == fw = "sync" => ~IsFull

\* A run always finds a slot in the ring, and it is one nobody reads.
RingKept == SlotsKept /\ NeverRefused

\* After a change of the WDR mode nothing of the old mode is written: the
\* sensor keeps the values it was initialised with until a configuration of the
\* new mode is due (ISP_DRV_SwitchMode clears the ring and the line).  Where
\* registers are written at the end of the frame a late firmware makes the line
\* move twice in a frame, and a register may come a frame early.
SwitchClean ==
  [][cleared /\ ~ReadsInSecond /\ fw' = fw /\ reg' # reg
       => due[mode.delay] # None]_vars

\* The comment "avoid skip effective AE results" of ISP_DRV_CalcSyncCfg: a
\* configuration that is read in place of others is written completely.
NoResultSkipped ==
  [][isr = "read" /\ isr' = "write" /\ ~IsEmpty /\ Succ(rd) # wr
       => buf'[Pred(wr)].upd]_vars
=============================================================================
