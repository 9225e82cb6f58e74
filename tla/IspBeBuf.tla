------------------------------ MODULE IspBeBuf ------------------------------
(***************************************************************************)
(* Life cycle of the back-end (BE) configuration buffers of one ISP pipe   *)
(* in offline mode, without stitching.                                     *)
(*                                                                         *)
(* Four actors share the queue of buffer nodes:                            *)
(*   - the firmware thread (user space, mpi_isp_entry.c / isp_main.c),     *)
(*     through the BE ioctls of isp.c;                                     *)
(*   - the frame-start interrupt handler (ISP_DRV_GetUseNode), which tests *)
(*     pstUseNode outside the lock and takes a free node inside it;        *)
(*   - VI (another, closed module), through the three exported functions   *)
(*     GetReadyBeBuf, PutFreeBeBuf and HoldBusyBeBuf;                      *)
(*   - BeBufExit, which waits for VI and may time out.                     *)
(* A critical section under g_stIspLock is one action.                     *)
(***************************************************************************)
EXTENDS NodeList

CONSTANTS
  MaxNode,     \* MAX_ISP_BE_BUF_NUM, the number of buffer nodes
  Environment  \* the environments the queue is used in, one per behaviour

ASSUME ConstAssumption ==
  /\ MaxNode \in Nat \ {0}
  /\ Environment \subseteq
       [smp : BOOLEAN, modeSwitch : BOOLEAN, viHold : BOOLEAN,
        viInOrder : BOOLEAN, runOnce : BOOLEAN, maxRef : Nat]

Node == 1..MaxNode
None == 0          \* HI_NULL

VARIABLES
  env,          \* the environment, chosen once
  bInit,        \* stBeBufInfo.bInit
  exitState,    \* enIspExitState
  free,         \* stBeBufQueue.stFreeList, head first
  busy,         \* stBeBufQueue.stBusyList, oldest configuration first
  hold,         \* s32HoldCnt of each node
  useCnt,       \* stBeBufInfo.s32UseCnt
  useNode,      \* pstUseNode: the node the firmware fills in for this frame
  bRunOnceFlag, \* bRunOnceFlag
  bIspRunFlag,  \* bIspRunFlag
  intEn,        \* the frame-start interrupt is unmasked
  isr,          \* "idle", or "take" between the test and the lock
  overtaken,    \* history: the buffers were made while a handler that had
                \* tested the old ones was still before the lock
  fw,           \* where the firmware thread is
  fwBuf,        \* stBeWoCfgBuf: the buffer the firmware writes to
  refs,         \* the references VI keeps, oldest first
  newest        \* history: the node published last

queueVars == <<free, busy, hold>>
initVars  == <<bInit, exitState, overtaken>>
flagVars  == <<bRunOnceFlag, bIspRunFlag, intEn>>
vars == <<env, bInit, exitState, free, busy, hold, useCnt, useNode,
          bRunOnceFlag, bIspRunFlag, intEn, isr, overtaken, fw, fwBuf, refs, newest>>

Smp        == env.smp         \* the handler may overlap with the other actors
ModeSwitch == env.modeSwitch  \* the user changes resolution or WDR mode
ViHold     == env.viHold      \* VI takes extra holds with HoldBusyBeBuf
ViInOrder  == env.viInOrder   \* VI gives buffers back in the order it got them
RunOnce    == env.runOnce     \* the user calls HI_MPI_ISP_RunOnce
MaxRef     == env.maxRef      \* bound: the references VI keeps at a time

FwState == {"down", "init", "config", "ready", "run", "write", "once",
            "onceWrite", "broken", "exitWait"}

-----------------------------------------------------------------------------
\* On one processor the handler runs to its end before anyone else does.
NotInterrupted == Smp \/ isr = "idle"

TypeOK ==
  /\ bInit \in BOOLEAN
  /\ exitState \in {"READY", "WAITING", "EXIT"}
  /\ free \in Seq(Node)
  /\ busy \in Seq(Node)
  /\ hold \in [Node -> Nat]
  /\ useCnt \in Nat
  /\ useNode \in Node \cup {None}
  /\ bRunOnceFlag \in BOOLEAN
  /\ bIspRunFlag \in BOOLEAN
  /\ intEn \in BOOLEAN
  /\ isr \in {"idle", "take"}
  /\ overtaken \in BOOLEAN
  /\ fw \in FwState
  /\ fwBuf \in Node \cup {None}
  /\ refs \in Seq(Node)
  /\ newest \in Node \cup {None}

Init ==
  /\ env \in Environment
  /\ bInit = FALSE
  /\ exitState = "EXIT"
  /\ free = <<>>
  /\ busy = <<>>
  /\ hold = [n \in Node |-> 0]
  /\ useCnt = 0
  /\ useNode = None
  /\ bRunOnceFlag = FALSE
  /\ bIspRunFlag = FALSE
  /\ intEn = FALSE
  /\ isr = "idle"
  /\ overtaken = FALSE
  /\ fw = "down"
  /\ fwBuf = None
  /\ refs = <<>>
  /\ newest = None

-----------------------------------------------------------------------------
(* The firmware thread.  Every action but the waiting ones is one ioctl.   *)

\* ISP_DRV_BeBufInit.  It refuses while bInit is set; when an allocation
\* fails it undoes what it did, which leaves every variable as it was.
\* It does not reset s32UseCnt.
BeBufInit ==
  /\ NotInterrupted
  /\ fw = "down"
  /\ ~bInit
  /\ bInit' = TRUE
  /\ free' = [i \in 1..MaxNode |-> i]
  /\ busy' = <<>>
  /\ hold' = [n \in Node |-> 0]
  /\ useNode' = None
  /\ exitState' = "READY"
  /\ fw' = "init"
  /\ overtaken' = (isr # "idle")
  /\ UNCHANGED <<useCnt, flagVars, isr, fwBuf, refs, newest>>

\* ISP_DRV_GetBeBufFirst: overwrites pstUseNode without looking at it.
GetBeBufFirst ==
  /\ NotInterrupted
  /\ fw = "init"
  /\ bInit
  /\ free # <<>>
  /\ useNode' = Head(free)
  /\ free' = Tail(free)
  /\ fwBuf' = Head(free)
  /\ fw' = "config"
  /\ UNCHANGED <<initVars, busy, hold, useCnt, flagVars, isr, refs, newest>>

\* ISP_DRV_AllBeBufInit: copies the configuration of pstUseNode to every free
\* node (each is taken from the head and put back at the tail, so the list
\* keeps its order) and publishes pstUseNode.  Fails when there is none.
\* Called at the end of ISP_Init and of a mode switch.
AllBeBufInit ==
  /\ NotInterrupted
  /\ fw = "config"
  /\ bInit
  /\ IF useNode = None
       THEN /\ fw' = "broken"
            /\ intEn' = FALSE
            /\ UNCHANGED <<busy, useNode, newest>>
       ELSE /\ busy' = Append(busy, useNode)
            /\ newest' = useNode
            /\ useNode' = None
            /\ fw' = IF intEn THEN "run" ELSE "ready"
            /\ UNCHANGED intEn
  /\ UNCHANGED <<initVars, free, hold, useCnt, bRunOnceFlag, bIspRunFlag, isr,
                 fwBuf, refs>>

\* Any other step of ISP_Init or of a switch fails: ISP_Init goes to its exit
\* path; a failed switch ends the loop of HI_MPI_ISP_Run, which masks the
\* interrupt and leaves HI_MPI_ISP_Exit as the only way on (bRun stays set).
ConfigFails ==
  /\ NotInterrupted
  /\ fw \in {"init", "config"}
  /\ fw' = "broken"
  /\ intEn' = FALSE
  /\ UNCHANGED <<initVars, queueVars, useCnt, useNode, bRunOnceFlag,
                 bIspRunFlag, isr, fwBuf, refs, newest>>

\* End of ISP_Init: ISP_RUN_STATE_SET with the init hand signal.
SetRunState ==
  /\ NotInterrupted
  /\ fw = "ready"
  /\ ~bIspRunFlag
  /\ bIspRunFlag' = TRUE
  /\ UNCHANGED <<initVars, queueVars, useCnt, useNode, bRunOnceFlag, intEn,
                 isr, fw, fwBuf, refs, newest>>

\* HI_MPI_ISP_Run up to its loop: unmask the interrupt.
StartRun ==
  /\ NotInterrupted
  /\ fw = "ready"
  /\ bIspRunFlag
  /\ intEn' = TRUE
  /\ fw' = "run"
  /\ UNCHANGED <<initVars, queueVars, useCnt, useNode, bRunOnceFlag,
                 bIspRunFlag, isr, fwBuf, refs, newest>>

\* ISP_Run, woken by the interrupt, asks for the buffer of this frame
\* (ISP_DRV_GetBeFreeBuf); with no pstUseNode it gives the frame up.
\* The wait for the wake-up is left out: the thread may start at any time.
GetBeFreeBuf ==
  /\ NotInterrupted
  /\ fw \in {"run", "once"}
  /\ bInit
  /\ useNode # None
  /\ fwBuf' = useNode
  /\ fw' = IF fw = "run" THEN "write" ELSE "onceWrite"
  /\ UNCHANGED <<initVars, queueVars, useCnt, useNode, flagVars, isr, refs,
                 newest>>

\* ISP_Run gives up after it got the buffer: there are no statistics.
NoStatistics ==
  /\ NotInterrupted
  /\ fw = "write"
  /\ fw' = "run"
  /\ UNCHANGED <<initVars, queueVars, useCnt, useNode, flagVars, isr, fwBuf,
                 refs, newest>>

\* Mutant: nodes VI still holds are freed as well.
PutBusyFreesHeld ==
  IF useNode = None
    THEN UNCHANGED <<free, busy, useNode, newest>>
    ELSE /\ busy' = <<useNode>>
         /\ free' = free \o busy
         /\ newest' = useNode
         /\ useNode' = None

\* ISP_DRV_BeBufQueuePutBusy: published configurations nobody holds go back
\* to the free list, then pstUseNode becomes the newest published one.
BeBufQueuePutBusy ==
  IF useNode = None
    THEN UNCHANGED <<free, busy, useNode, newest>>
    ELSE LET idle == {n \in Elems(busy) : hold[n] = 0}
         IN /\ \E kept \in SubList(busy, Elems(busy) \ idle),
                  moved \in SubList(busy, idle) :
                 /\ busy' = Append(kept, useNode)
                 /\ free' = free \o moved
            /\ newest' = useNode
            /\ useNode' = None

\* Mutant: the node is published and stays pstUseNode.
BeBufCtlKeepsUseNode ==
  /\ NotInterrupted
  /\ fw = "write"
  /\ bInit
  /\ busy' = IF bRunOnceFlag THEN busy ELSE Append(busy, useNode)
  /\ newest' = useNode
  /\ fw' = "run"
  /\ UNCHANGED <<initVars, free, hold, useCnt, useNode, flagVars, isr, fwBuf, refs>>

\* ISP_BeRegsConfig has written the registers to fwBuf and calls
\* ISP_DRV_BeBufCtl, which publishes the node unless a run-once is under way.
BeBufCtl ==
  /\ NotInterrupted
  /\ fw = "write"
  /\ bInit
  /\ IF bRunOnceFlag
       THEN UNCHANGED <<free, busy, useNode, newest>>
       ELSE BeBufQueuePutBusy
  /\ fw' = "run"
  /\ UNCHANGED <<initVars, hold, useCnt, flagVars, isr, fwBuf, refs>>

\* ISP_DRV_OptRunOnceInfo with TRUE, from HI_ISP_RunOnce; the interrupt is
\* still masked.  When it fails the flag is set to FALSE by a second call.
OptRunOnceInfo ==
  /\ NotInterrupted
  /\ RunOnce
  /\ fw = "ready"
  /\ bIspRunFlag
  /\ IF useNode # None \/ free = <<>>
       THEN /\ bRunOnceFlag' = FALSE
            /\ UNCHANGED <<useNode, free, fw>>
       ELSE /\ useNode' = Head(free)
            /\ free' = Tail(free)
            /\ bRunOnceFlag' = TRUE
            /\ fw' = "once"
  /\ UNCHANGED <<initVars, busy, hold, useCnt, bIspRunFlag, intEn, isr, fwBuf,
                 refs, newest>>

\* ISP_Run inside run-once ends (its ISP_DRV_BeBufCtl does nothing because of
\* the flag, and an early return of it is ignored), then ISP_KERNEL_RUNONCE
\* (ISP_DRV_RunOnceProcess) publishes.  The flag stays set.
RunOnceProcess ==
  /\ NotInterrupted
  /\ fw \in {"once", "onceWrite"}
  /\ IF bRunOnceFlag
       THEN BeBufQueuePutBusy
       ELSE UNCHANGED <<free, busy, useNode, newest>>
  /\ fw' = "ready"
  /\ UNCHANGED <<initVars, hold, useCnt, flagVars, isr, fwBuf, refs>>

\* Mutant: the use count is reset together with the holds.
GetBeLastBufResetsUseCnt ==
  /\ NotInterrupted
  /\ ModeSwitch /\ fw = "run" /\ bInit
  /\ free \o busy # <<>>
  /\ useNode # None
  /\ hold' = [n \in Node |-> 0]
  /\ busy' = <<>>
  /\ free' = free \o busy
  /\ fwBuf' = useNode
  /\ fw' = "config"
  /\ useCnt' = 0
  /\ UNCHANGED <<initVars, useNode, flagVars, isr, refs, newest>>

\* Mutant: the node is taken from the head of the free list.
GetBeLastBufTakesHead ==
  /\ NotInterrupted
  /\ ModeSwitch /\ fw = "run" /\ bInit
  /\ useNode = None
  /\ free \o busy # <<>>
  /\ hold' = [n \in Node |-> 0]
  /\ busy' = <<>>
  /\ free' = Tail(free \o busy)
  /\ useNode' = Head(free \o busy)
  /\ fwBuf' = useNode'
  /\ fw' = "config"
  /\ UNCHANGED <<initVars, useCnt, flagVars, isr, refs, newest>>

\* ISP_DRV_GetBeLastBuf, called by ISP_SwitchImageMode and ISP_SwitchWDR:
\* every published node is freed whoever holds it, and without a pstUseNode
\* the node published last (now the tail of the free list) is used.
GetBeLastBuf ==
  /\ NotInterrupted
  /\ ModeSwitch
  /\ fw = "run"
  /\ bInit
  /\ hold' = [n \in Node |-> IF n \in Elems(busy) THEN 0 ELSE hold[n]]
  /\ busy' = <<>>
  /\ LET all  == free \o busy
         last == Len(all)
     IN IF useNode # None
          THEN /\ free' = all
               /\ fwBuf' = useNode
               /\ fw' = "config"
               /\ UNCHANGED <<useNode, intEn>>
          ELSE IF all = <<>>
            THEN /\ free' = all
                 /\ fw' = "broken"
                 /\ intEn' = FALSE
                 /\ UNCHANGED <<useNode, fwBuf>>
            ELSE /\ free' = SubSeq(all, 1, last - 1)
                 /\ useNode' = all[last]
                 /\ fwBuf' = all[last]
                 /\ fw' = "config"
                 /\ UNCHANGED intEn
  /\ UNCHANGED <<initVars, useCnt, bRunOnceFlag, bIspRunFlag, isr, refs,
                 newest>>

\* HI_MPI_ISP_Exit, or the exit path of a failed ISP_Init, up to the wait in
\* ISP_DRV_BeBufExit.  The interrupt is masked, but nobody waits for a handler
\* that runs on another processor.
BeBufExit ==
  /\ NotInterrupted
  /\ fw \in {"down", "ready", "run", "broken"}
  /\ bInit
  /\ intEn' = FALSE
  /\ bIspRunFlag' = FALSE
  /\ exitState' = "WAITING"
  /\ fw' = "exitWait"
  /\ UNCHANGED <<bInit, overtaken, queueVars, useCnt, useNode, bRunOnceFlag, isr,
                 fwBuf, refs, newest>>

\* The wait ends because no buffer is in use: the queue is destroyed and its
\* memory freed.  pstUseNode is left as it is.  ISP_DRV_ResetCtx follows.
BeBufExitDone ==
  /\ NotInterrupted
  /\ fw = "exitWait"
  /\ useCnt = 0
  /\ bInit' = FALSE
  /\ exitState' = "EXIT"
  /\ free' = <<>>
  /\ busy' = <<>>
  /\ bRunOnceFlag' = FALSE
  /\ fw' = "down"
  /\ newest' = None
  /\ UNCHANGED <<hold, useCnt, useNode, bIspRunFlag, intEn, isr, overtaken, fwBuf,
                 refs>>

\* The wait times out: the buffers stay and exitState stays "WAITING".
BeBufExitTimeout ==
  /\ NotInterrupted
  /\ fw = "exitWait"
  /\ useCnt # 0
  /\ bRunOnceFlag' = FALSE
  /\ fw' = "down"
  /\ UNCHANGED <<initVars, queueVars, useCnt, useNode, bIspRunFlag, intEn, isr,
                 fwBuf, refs, newest>>

-----------------------------------------------------------------------------
(* The frame-start interrupt: ISP_DRV_GetUseNode.                          *)

\* Mutant: a node is taken although there is one.
IsrCheckAlways ==
  /\ isr = "idle"
  /\ intEn
  /\ bInit
  /\ isr' = "take"
  /\ UNCHANGED <<initVars, queueVars, useCnt, useNode, flagVars, fw, fwBuf,
                 refs, newest>>

\* bInit and pstUseNode are tested without the lock.  With a pstUseNode the
\* handler only programs the sensor and wakes the firmware.
IsrCheck ==
  /\ isr = "idle"
  /\ intEn
  /\ bInit
  /\ useNode = None
  /\ isr' = "take"
  /\ UNCHANGED <<initVars, queueVars, useCnt, useNode, flagVars, fw, fwBuf,
                 refs, newest>>

\* Under the lock pstUseNode is assigned whatever the free list gives.
IsrTake ==
  /\ isr = "take"
  /\ isr' = "idle"
  /\ IF free = <<>>
       THEN /\ useNode' = None
            /\ UNCHANGED free
       ELSE /\ useNode' = Head(free)
            /\ free' = Tail(free)
  /\ UNCHANGED <<initVars, busy, hold, useCnt, flagVars, fw, fwBuf, refs,
                 newest>>

-----------------------------------------------------------------------------
(* VI.  The kernel functions are ours, when VI calls them is not.          *)

\* Mutant: VI is served the oldest configuration.
GetOldestBeBuf ==
  /\ NotInterrupted
  /\ Len(refs) < MaxRef
  /\ exitState = "READY"
  /\ busy # <<>>
  /\ hold' = [hold EXCEPT ![Head(busy)] = @ + 1]
  /\ refs' = Append(refs, Head(busy))
  /\ useCnt' = useCnt + 1
  /\ UNCHANGED <<initVars, free, busy, useNode, flagVars, isr, fw, fwBuf,
                 newest>>

\* ISP_DRV_GetReadyBeBuf: a hold on the newest published configuration.
GetReadyBeBuf ==
  /\ NotInterrupted
  /\ Len(refs) < MaxRef
  /\ exitState = "READY"
  /\ busy # <<>>
  /\ LET n == busy[Len(busy)]
     IN /\ hold' = [hold EXCEPT ![n] = @ + 1]
        /\ refs' = Append(refs, n)
  /\ useCnt' = useCnt + 1
  /\ UNCHANGED <<initVars, free, busy, useNode, flagVars, isr, fw, fwBuf,
                 newest>>

\* Mutant: the last published node is freed too.
PutBusyToFreeLast(n) ==
  IF n \notin Elems(busy)
    THEN UNCHANGED queueVars
    ELSE LET left == IF hold[n] > 0 THEN hold[n] - 1 ELSE 0
         IN /\ hold' = [hold EXCEPT ![n] = left]
            /\ IF left = 0
                 THEN /\ busy' \in SubList(busy, Elems(busy) \ {n})
                      /\ free' = Append(free, n)
                 ELSE UNCHANGED <<busy, free>>

\* Mutant: a node whose last hold is dropped stays published.
PutBusyToFreeNever(n) ==
  IF n \notin Elems(busy)
    THEN UNCHANGED queueVars
    ELSE /\ hold' = [hold EXCEPT ![n] = IF @ > 0 THEN @ - 1 ELSE 0]
         /\ UNCHANGED <<busy, free>>

\* ISP_DRV_PutBusyToFree: a node whose last hold is dropped is freed, unless
\* it is the only published one.  A node that is not published is ignored.
PutBusyToFree(n) ==
  IF n \notin Elems(busy)
    THEN UNCHANGED queueVars
    ELSE LET left == IF hold[n] > 0 THEN hold[n] - 1 ELSE 0
         IN /\ hold' = [hold EXCEPT ![n] = left]
            /\ IF left = 0 /\ Len(busy) > 1
                 THEN /\ busy' \in SubList(busy, Elems(busy) \ {n})
                      /\ free' = Append(free, n)
                 ELSE UNCHANGED <<busy, free>>

\* ISP_DRV_PutFreeBeBuf: VI gives its i-th reference back.
PutFreeBeBuf(i) ==
  /\ NotInterrupted
  /\ i = 1 \/ ~ViInOrder
  /\ refs' = Without(refs, i)
  /\ IF exitState = "EXIT"
       THEN UNCHANGED <<queueVars, useCnt>>
       ELSE /\ PutBusyToFree(refs[i])
            /\ useCnt' = IF useCnt > 0 THEN useCnt - 1 ELSE 0
  /\ UNCHANGED <<initVars, useNode, flagVars, isr, fw, fwBuf, newest>>

\* ISP_DRV_HoldBusyBeBuf: VI takes one more hold on a buffer it has.  The call
\* succeeds even when the buffer is no longer published.
HoldBusyBeBuf(i) ==
  /\ NotInterrupted
  /\ ViHold
  /\ Len(refs) < MaxRef
  /\ exitState = "READY"
  /\ refs' = Append(refs, refs[i])
  /\ IF refs[i] \in Elems(busy)
       THEN /\ hold' = [hold EXCEPT ![refs[i]] = @ + 1]
            /\ useCnt' = useCnt + 1
       ELSE UNCHANGED <<hold, useCnt>>
  /\ UNCHANGED <<initVars, free, busy, useNode, flagVars, isr, fw, fwBuf,
                 newest>>

-----------------------------------------------------------------------------
FwStep ==
  \/ BeBufInit \/ GetBeBufFirst \/ AllBeBufInit \/ ConfigFails
  \/ SetRunState \/ StartRun \/ GetBeFreeBuf \/ NoStatistics \/ BeBufCtl
  \/ OptRunOnceInfo \/ RunOnceProcess \/ GetBeLastBuf
  \/ BeBufExit \/ BeBufExitDone \/ BeBufExitTimeout

IsrStep == IsrCheck \/ IsrTake

ViStep ==
  \/ GetReadyBeBuf
  \/ \E i \in 1..Len(refs) : PutFreeBeBuf(i) \/ HoldBusyBeBuf(i)

Step == FwStep \/ ViStep \/ IsrStep

Next == Step /\ UNCHANGED env

Spec == Init /\ [][Next]_vars

\* Frames keep coming, the firmware loop and the exit path keep running, and
\* VI finishes with every buffer as long as the pipe is not shut down.  A
\* frame whose statistics are missing is given up (NoStatistics), but the
\* interrupt that wakes the firmware also fills a statistics buffer for it,
\* so not every frame is: strong fairness of the call that publishes.  The
\* interrupt handler delays VI but does not starve it: strong fairness of
\* giving back.
Fairness ==
  /\ WF_vars(IsrStep /\ UNCHANGED env)
  /\ WF_vars((AllBeBufInit \/ GetBeFreeBuf) /\ UNCHANGED env)
  /\ SF_vars(BeBufCtl /\ UNCHANGED env)
  /\ WF_vars((BeBufExitDone \/ BeBufExitTimeout) /\ UNCHANGED env)
  /\ SF_vars(/\ exitState = "READY"
             /\ \E i \in 1..Len(refs) : PutFreeBeBuf(i)
             /\ UNCHANGED env)

FairSpec == Spec /\ Fairness

-----------------------------------------------------------------------------
(* Properties.                                                             *)

\* How many references VI keeps to a node.
RefsTo(n) == Occurrences(refs, n)

\* No node is linked twice: the two lists and pstUseNode never share a node.
\* A node linked into two lists corrupts both (osal_list_add_tail).  Whatever
\* the handler and the firmware do between the test and the lock.
NodesDisjoint ==
  bInit =>
    /\ Distinct(free)
    /\ Distinct(busy)
    /\ Elems(free) \cap Elems(busy) = {}
    /\ useNode \notin Elems(free) \cup Elems(busy)

\* No node is lost while the buffers exist: ISP_DRV_GetUseNode overwrites
\* pstUseNode only when there is none.  (A mode switch on another processor
\* between the test and the lock breaks this, and so does a handler that
\* tested before an exit and takes the lock after the next init; see the
\* README.)
NoNodeLost ==
  bInit /\ ~(Smp /\ ModeSwitch) /\ ~overtaken
    => Elems(free) \cup Elems(busy) \cup ({useNode} \ {None}) = Node

\* s32UseCnt, the only thing ISP_DRV_BeBufExit waits for, is the number of
\* references VI keeps, also when a mode switch dropped the node's own holds
\* and when an exit timed out.  (Not when a mode switch is followed by an
\* extra hold, which HoldBusyBeBuf then grants without counting it.)
UseCntExact == ~(ModeSwitch /\ ViHold) => useCnt = Len(refs)

\* The buffer memory is never freed while VI still has a reference into it.
NoRefAfterFree == ~bInit /\ ~(ModeSwitch /\ ViHold) => refs = <<>>

\* ISP_DRV_BeBufExit waits for every reference VI keeps, and for nothing else.
ExitSafe == UseCntExact /\ NoRefAfterFree

\* A configuration VI has a reference to stays published: it is neither free
\* nor the node the firmware fills in, so nobody rewrites it under VI, and
\* the holds of the node are VI's references to it.  (A mode switch frees
\* every published node whoever holds it.)
HeldStaysPublished ==
  ~ModeSwitch =>
    \A n \in Node : /\ RefsTo(n) > 0 => n \in Elems(busy)
                    /\ bInit => hold[n] = RefsTo(n)

\* From the end of ISP_Init on VI always finds a configuration, except while
\* a mode switch is between GetBeLastBuf and AllBeBufInit.
ConfigAvailable ==
  bInit /\ bIspRunFlag /\ fw \notin {"config", "broken"} => busy # <<>>

\* What VI gets is the configuration published last: dropping the last hold
\* on it does not free it and bring an older one back (PutBusyToFree).
\* Holds when VI gives its buffers back in order and takes no extra holds:
\* with a second hold on an older node it drops the newest one first.
NewestServed ==
  ViInOrder /\ ~ViHold /\ ~ModeSwitch /\ busy # <<>>
    => busy[Len(busy)] = newest

\* VI is never left without a configuration nor served an old one.
ServedNewest == ConfigAvailable /\ NewestServed

\* The buffer the firmware writes to is the kernel's pstUseNode, so what it
\* publishes is what it wrote, not a buffer with another frame's registers.
FwWritesUseNode ==
  ~(Smp /\ ModeSwitch) /\ ~overtaken /\ fw \in {"config", "write", "onceWrite"}
    => fwBuf = useNode

\* pstUseNode is neither overwritten nor exchanged while the firmware uses it,
\* by the unlocked test of ISP_DRV_GetUseNode or by anybody else, but for
\* a mode switch on another processor and a handler that outlasts an exit and
\* the next init.
UseNodeKept == NoNodeLost /\ FwWritesUseNode

\* ISP_DRV_GetBeLastBuf hands out the last configuration ("get last buffer",
\* isp_main.c): without a pstUseNode it is the one VI was served, if VI keeps
\* one reference at a time.
LastBufIsNewest ==
  [][GetBeLastBuf /\ MaxRef = 1 /\ useNode = None /\ busy # <<>>
       => fwBuf' = newest]_vars

\* Seen from outside the queue is a pool of configurations (BeCfgPool): no
\* buffer is handed to the firmware while VI reads it, VI is served the
\* configuration published last, the memory is freed only after the last
\* reader.  Holds without mode switches when VI gives buffers back in order
\* and takes no extra holds, and while no handler outlasted an exit and the
\* next init; otherwise the pool is mapped to one that is not opened.
PoolView == ViInOrder /\ ~ViHold /\ ~ModeSwitch /\ ~overtaken

Pool == INSTANCE BeCfgPool WITH
  Buffer <- Node, NoBuffer <- None,
  open   <- PoolView /\ bInit,
  writer <- IF PoolView /\ bInit THEN useNode ELSE None,
  latest <- IF PoolView THEN newest ELSE None,
  pins   <- [n \in Node |-> IF PoolView THEN RefsTo(n) ELSE 0]

PoolSpec == Pool!Spec

\* While VI holds old configurations the handler may find no free node, but
\* it gets one eventually, or the thread leaves its loop.
NodeSupplied ==
  (~RunOnce /\ fw = "run" /\ useNode = None)
    ~> (useNode # None \/ fw # "run")

\* What the firmware wrote for a frame is published, or the thread leaves its
\* loop.  (Not after a run-once: its flag stays set, see the README.)
FramePublished ==
  (~RunOnce /\ fw = "write") ~> (useNode = None \/ fw \in {"exitWait", "down", "broken"})

\* The loop of the firmware goes round: it is given a node and publishes it.
FirmwareCycles == NodeSupplied /\ FramePublished
=============================================================================
