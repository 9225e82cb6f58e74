----------------------------- MODULE IspStatBuf -----------------------------
(***************************************************************************)
(* The statistics buffers of one ISP pipe.  The interrupt handler reads    *)
(* the hardware statistics of a frame into a free node and offers it on    *)
(* the busy list (ISP_DRV_StatBufBusyPut); the firmware thread takes it    *)
(* to the user list for the time of one run of the algorithms              *)
(* (isp_statistics.c), and gives it back to the free list.  The firmware   *)
(* remembers in bRead that it has a node, so that a run that ended early   *)
(* (frozen firmware, or a stitched pipe whose turn it is not) goes on with *)
(* the node it has.  Sessions (ISP_Init to ISP_Exit) allocate and free the *)
(* memory of the nodes.  A critical section under g_stIspLock is one       *)
(* action; bInit is tested before it.                                      *)
(***************************************************************************)
EXTENDS NodeList

CONSTANTS
  MaxStat,     \* MAX_ISP_STAT_BUF_NUM
  MaxFrame,    \* bound: how many frames are read
  EarlyReturn  \* ISP_Run may return with the node it has taken

ASSUME ConstAssumption ==
  /\ MaxStat \in Nat \ {0}
  /\ MaxFrame \in Nat
  /\ EarlyReturn \in BOOLEAN

Node == 1..MaxStat
None == 0          \* HI_NULL

VARIABLES
  bInit,     \* stStatisticsBuf.bInit
  freeList,  \* stFreeList
  busyList,  \* stBusyList
  userList,  \* stUserList
  pstActStat,\* the node read last; neither exit nor init resets it
  frame,     \* the number of the frame read last
  frameOf,   \* the frame whose statistics a node holds, 0 after the memset
  isr,       \* "idle", or "read" between the test of bInit and the lock
  fw,        \* the firmware thread: "down", "idle" or "algs" (inside ISP_Run)
  bRead,     \* g_astStatCtx.bRead
  userNode,  \* g_astStatCtx.stStatInfo: the node taken last ...
  mapped,    \* ... and whether its address lies in the memory mapped now
  lastUsed   \* history: the frame the algorithms ran on last

listVars == <<freeList, busyList, userList>>
userVars == <<bRead, userNode, mapped>>
vars == <<bInit, freeList, busyList, userList, pstActStat, frame,
          frameOf, isr, fw, bRead, userNode, mapped, lastUsed>>

Init ==
  /\ bInit = FALSE
  /\ freeList = <<>>
  /\ busyList = <<>>
  /\ userList = <<>>
  /\ pstActStat = None
  /\ frame = 0
  /\ frameOf = [n \in Node |-> 0]
  /\ isr = "idle"
  /\ fw = "down"
  /\ bRead = FALSE
  /\ userNode = None
  /\ mapped = FALSE
  /\ lastUsed = 0

TypeOK ==
  /\ bInit \in BOOLEAN
  /\ freeList \in Seq(Node)
  /\ busyList \in Seq(Node)
  /\ userList \in Seq(Node)
  /\ pstActStat \in Node \cup {None}
  /\ frame \in Nat
  /\ frameOf \in [Node -> Nat]
  /\ isr \in {"idle", "read"}
  /\ fw \in {"down", "idle", "algs"}
  /\ bRead \in BOOLEAN
  /\ userNode \in Node \cup {None}
  /\ mapped \in BOOLEAN
  /\ lastUsed \in Nat

-----------------------------------------------------------------------------
(* The firmware thread.                                                    *)

\* ISP_StatisticsInit: ISP_DRV_StatBufInit allocates and clears the memory,
\* then it is mapped.  When the mapping fails all is undone.
StatisticsInit ==
  /\ fw = "down"
  /\ ~bInit
  /\ bInit' = TRUE
  /\ freeList' = [i \in 1..MaxStat |-> i]
  /\ busyList' = <<>>
  /\ userList' = <<>>
  /\ frameOf' = [n \in Node |-> 0]
  /\ fw' = "idle"
  /\ UNCHANGED <<pstActStat, frame, isr, userVars, lastUsed>>

\* ISP_StatisticsGetBuf in ISP_Run, through ISP_DRV_StatBufUserGet unless a
\* node is left from an earlier run.  With an empty busy list ISP_Run gives
\* the frame up (the very first frame runs without statistics).
StatisticsGetBuf ==
  /\ fw = "idle"
  /\ \/ /\ bRead
        /\ UNCHANGED <<busyList, userList, userVars>>
     \/ /\ ~bRead
        /\ busyList # <<>>
        /\ busyList' = Tail(busyList)
        /\ userList' = Append(userList, Head(busyList))
        /\ bRead' = TRUE
        /\ userNode' = Head(busyList)
        /\ mapped' = TRUE
  /\ fw' = "algs"
  /\ UNCHANGED <<bInit, freeList, pstActStat, frame, frameOf, isr,
                 lastUsed>>

\* ISP_Run returns before the algorithms: bFreezeFw is set, or
\* ISP_SetCfgBeBufState fails (a stitched pipe out of turn).
RunReturnsEarly ==
  /\ EarlyReturn
  /\ fw = "algs"
  /\ fw' = "idle"
  /\ UNCHANGED <<bInit, listVars, pstActStat, frame, frameOf, isr,
                 userVars, lastUsed>>

\* Mutant: the node is taken off the user list and never freed.
PutBufLosesNode ==
  /\ fw = "algs"
  /\ lastUsed' = IF mapped THEN frameOf[userNode] ELSE lastUsed
  /\ userList' = SelectSeq(userList, LAMBDA n : n # userNode)
  /\ bRead' = FALSE
  /\ fw' = "idle"
  /\ UNCHANGED <<bInit, freeList, busyList, pstActStat, frame, frameOf, isr,
                 userNode, mapped>>

\* Mutant: bRead is not cleared.
PutBufKeepsRead ==
  /\ fw = "algs"
  /\ lastUsed' = IF mapped THEN frameOf[userNode] ELSE lastUsed
  /\ userList' = <<>>
  /\ freeList' = freeList \o userList
  /\ fw' = "idle"
  /\ UNCHANGED <<bInit, busyList, pstActStat, frame, frameOf, isr, userVars>>

\* The algorithms have run on the node; ISP_StatisticsPutBuf gives it back.
\* ISP_DRV_StatBufUserPut fails when the node is not on the user list; the
\* firmware forgets the node whatever it returns.
StatisticsPutBuf ==
  /\ fw = "algs"
  /\ lastUsed' = IF mapped THEN frameOf[userNode] ELSE lastUsed
  /\ IF userNode \in Elems(userList)
       THEN /\ userList' \in SubList(userList, Elems(userList) \ {userNode})
            /\ freeList' = Append(freeList, userNode)
       ELSE UNCHANGED <<userList, freeList>>
  /\ bRead' = FALSE
  /\ fw' = "idle"
  /\ UNCHANGED <<bInit, busyList, pstActStat, frame, frameOf, isr,
                 userNode, mapped>>

\* ISP_StatisticsExit, from ISP_Exit or from a failed ISP_Init: unmaps and
\* frees the memory.  bRead and pstActStat are left as they are.
StatisticsExit ==
  /\ fw = "idle"
  /\ bInit' = FALSE
  /\ freeList' = <<>>
  /\ busyList' = <<>>
  /\ userList' = <<>>
  /\ mapped' = FALSE
  /\ fw' = "down"
  /\ UNCHANGED <<pstActStat, frame, frameOf, isr, bRead, userNode, lastUsed>>

-----------------------------------------------------------------------------
(* The interrupt handler.                                                  *)

\* ISP_DRV_StatBufBusyPut before the lock.
BusyPutCheck ==
  /\ isr = "idle"
  /\ bInit
  /\ frame < MaxFrame
  /\ isr' = "read"
  /\ UNCHANGED <<bInit, listVars, pstActStat, frame, frameOf, fw,
                 userVars, lastUsed>>

\* Mutant: with no free node the one the firmware reads is overwritten.
BusyPutSteals ==
  /\ isr = "read"
  /\ isr' = "idle"
  /\ bInit
  /\ LET stolen == freeList = <<>> /\ userList # <<>>
         n == Head(IF stolen THEN userList ELSE freeList \o busyList)
     IN /\ freeList' = SelectSeq(freeList, LAMBDA x : x # n)
        /\ busyList' = IF stolen THEN busyList ELSE <<n>>
        /\ frameOf' = [frameOf EXCEPT ![n] = frame + 1]
        /\ pstActStat' = n
  /\ frame' = frame + 1
  /\ UNCHANGED <<bInit, userList, fw, userVars, lastUsed>>

\* ISP_DRV_StatBufBusyPut under the lock: offered statistics nobody took are
\* dropped, and the first free node is filled with those of this frame.
BusyPut ==
  /\ isr = "read"
  /\ isr' = "idle"
  /\ LET all == freeList \o busyList
     IN IF all = <<>>
          THEN UNCHANGED <<freeList, busyList, pstActStat, frame, frameOf>>
          ELSE /\ freeList' = Tail(all)
               /\ busyList' = <<Head(all)>>
               /\ frame' = frame + 1
               /\ frameOf' = [frameOf EXCEPT ![Head(all)] = frame + 1]
               /\ pstActStat' = Head(all)
  /\ UNCHANGED <<bInit, userList, fw, userVars, lastUsed>>

-----------------------------------------------------------------------------
Next ==
  \/ StatisticsInit \/ StatisticsGetBuf \/ RunReturnsEarly
  \/ StatisticsPutBuf \/ StatisticsExit
  \/ BusyPutCheck \/ BusyPut

Spec == Init /\ [][Next]_vars

\* Frames keep coming and the firmware loop keeps running.  The firmware is
\* not frozen for ever: strong fairness of the call that ends a full run.
Fairness ==
  /\ WF_vars(BusyPutCheck \/ BusyPut)
  /\ WF_vars(StatisticsGetBuf)
  /\ SF_vars(StatisticsPutBuf)

FairSpec == Spec /\ Fairness

-----------------------------------------------------------------------------
(* Properties.                                                             *)

\* Every node is in exactly one of the three lists, once.
StatNodesKept ==
  bInit =>
    /\ Distinct(freeList) /\ Distinct(busyList) /\ Distinct(userList)
    /\ Elems(freeList) \cap Elems(busyList) = {}
    /\ Elems(freeList) \cap Elems(userList) = {}
    /\ Elems(busyList) \cap Elems(userList) = {}
    /\ Elems(freeList) \cup Elems(busyList) \cup Elems(userList) = Node

\* "There should be one frame of the newest statistics info in busy list"
\* (ISP_DRV_StatBufBusyPut): what is offered is one node, holding the
\* statistics of the last frame.
NewestOffered ==
  busyList # <<>> => Len(busyList) = 1 /\ frameOf[busyList[1]] = frame

\* The firmware's bRead and the kernel's user list agree on who has a node.
\* (A run that ended early, an exit and an init leave bRead set with an
\* address that is no longer mapped, see the README: not then.)
UserHoldsOne ==
  bInit /\ (bRead => mapped) =>
    userList = IF bRead THEN <<userNode>> ELSE <<>>

\* The kernel and the firmware agree on who has which statistics.
OfferedAndHeld == NewestOffered /\ UserHoldsOne

\* With two buffers the handler never misses a frame: one of them is free or
\* offered whatever the firmware does.
BufferForFrame == bInit => freeList \o busyList # <<>>

\* The statistics the firmware has taken do not change until it gives them
\* back, however many frames go by meanwhile.
HeldStatStable ==
  [][bRead /\ bRead' /\ mapped /\ mapped' =>
       userNode' = userNode /\ frameOf'[userNode] = frameOf[userNode]]_vars

\* The algorithms never run twice on one frame, nor on an older one.
RunsOnNewer ==
  [][StatisticsPutBuf /\ mapped => lastUsed' > lastUsed]_vars

\* What the firmware reads stands still while it reads, and goes forward from
\* one run to the next, whatever the handler drops and refills meanwhile.
StatsMoveOn == HeldStatStable /\ RunsOnNewer

\* Statistics at least as new as any frame read are used in the end, or the
\* pipe is shut down.
StatUsed ==
  \A k \in 1..MaxFrame :
    (busyList # <<>> /\ frame = k) ~> (lastUsed >= k \/ fw = "down")
=============================================================================
