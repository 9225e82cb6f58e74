----------------------------- MODULE IspStitch ------------------------------
(***************************************************************************)
(* A group of stitched ISP pipes.  Each pipe has the queue of IspBeBuf and *)
(* the life cycle of IspSession; this module has what they share.  The     *)
(* interrupt of the main pipe routes all of them, the firmware of each     *)
(* writes a configuration on its own, and the last one to finish publishes *)
(* those of all, so that VI always stitches frames made with              *)
(* configurations of one round (isp.c, isp_main.c, mpi_isp_entry.c).       *)
(*                                                                         *)
(* The kernel's part is under one spin lock, g_stIspSyncLock of the main   *)
(* pipe, but for the exit of a pipe, which takes that pipe's own lock.     *)
(***************************************************************************)
EXTENDS Naturals, Sequences

CONSTANTS
  Bind,        \* as8StitchBindId: the pipes of the group, the main one first
  Nobody,      \* no pipe
  Environment  \* the applications considered, one per behaviour

Pipe == {Bind[i] : i \in DOMAIN Bind}
Main == Bind[1]

ASSUME StitchAssumption ==
  /\ Bind \in Seq(Pipe) /\ Bind # <<>>
  /\ \A i, j \in DOMAIN Bind : Bind[i] = Bind[j] => i = j
  /\ Nobody \notin Pipe
  /\ Environment \subseteq [serial : BOOLEAN, together : BOOLEAN,
                          smp : BOOLEAN, brief : BOOLEAN]

VARIABLES
  env,    \* the application, chosen once
  goal,   \* it wants the pipe up
  ctl,    \* where the call is that starts or stops the pipe
  fw,     \* where the pipe's Run thread is
  mem,    \* bMemInit of the process
  init,   \* bIspInit of the kernel
  sync,   \* bStitchSync of the kernel
  be,     \* stBeBufInfo.bInit: the queue exists
  state,  \* enIspRunningState
  node,   \* pstUseNode: none, with an old or with a whole configuration
  edge,   \* bEdge
  turn,   \* history: changes with each configuration published
  intEn,  \* the interrupt of the main pipe is unmasked
  isr,    \* the pipes the handler has still to route ...
  taken,  \* ... and whether it took a node for the first of them
  lock    \* who publishes under g_stIspSyncLock, which pipes are left, and
          \* whether the first of these was tested

appVars  == <<goal, ctl>>
kernVars == <<init, sync, be, state, node, edge, turn>>
vars == <<env, appVars, fw, mem, kernVars, intEn, isr, taken, lock>>

InitState == {"be", "cfg", "sync", "copy", "all", "publish", "done", "fail"}
ExitState == {"stop", "lock", "exit", "forget", "reset"}

\* A publisher that is not there.
Released == [by |-> Nobody, all |-> FALSE, left |-> <<>>, tested |-> FALSE]

TypeOK ==
  /\ env \in Environment
  /\ goal \in [Pipe -> BOOLEAN]
  /\ ctl \in [Pipe -> {"down", "mem", "up"} \cup InitState \cup ExitState]
  /\ fw \in [Pipe -> {"none", "wait", "got", "lost", "write", "stray",
                     "publish"}]
  /\ mem \in [Pipe -> BOOLEAN]
  /\ init \in [Pipe -> BOOLEAN]
  /\ sync \in [Pipe -> BOOLEAN]
  /\ be \in [Pipe -> BOOLEAN]
  /\ state \in [Pipe -> {"INIT", "RUNNING", "FINISH", "SWITCH"}]
  /\ node \in [Pipe -> {"none", "old", "whole"}]
  /\ edge \in [Pipe -> BOOLEAN]
  /\ turn \in [Pipe -> BOOLEAN]
  /\ intEn \in BOOLEAN
  /\ isr \in Seq(Pipe)
  /\ taken \in BOOLEAN
  /\ lock \in [by : Pipe \cup {Nobody}, all : BOOLEAN, left : Seq(Pipe),
               tested : BOOLEAN]

Init ==
  /\ env \in Environment
  /\ goal = [p \in Pipe |-> TRUE]
  /\ ctl = [p \in Pipe |-> "down"]
  /\ fw = [p \in Pipe |-> "none"]
  /\ mem = [p \in Pipe |-> FALSE]
  /\ init = [p \in Pipe |-> FALSE]
  /\ sync = [p \in Pipe |-> FALSE]
  /\ be = [p \in Pipe |-> FALSE]
  /\ state = [p \in Pipe |-> "INIT"]
  /\ node = [p \in Pipe |-> "none"]
  /\ edge = [p \in Pipe |-> FALSE]
  /\ turn = [p \in Pipe |-> FALSE]
  /\ intEn = FALSE
  /\ isr = <<>>
  /\ taken = FALSE
  /\ lock = Released

-----------------------------------------------------------------------------
(* Who may run.  On one processor the handler and whoever holds a spin     *)
(* lock run to their end.                                                  *)

SyncFree == lock = Released

ThreadRuns == env.smp \/ (isr = <<>> /\ SyncFree)

\* ISP_Run has the address of a node and has not begun its round.
Starting(p) == fw[p] \in {"got", "lost"}

\* stLock of the pipe: held by ISP_Run and by Exit.
FwLocked(p)   == fw[p] \notin {"none", "wait"}
ExitLocked(p) == ctl[p] \in {"exit", "forget", "reset"}

\* stIspParaRec.bInit and bRunEn: from the end of Init to ISP_Exit.
UserInit(p) == ctl[p] \in {"up", "stop", "lock"}

Goto(p, from, to) ==
  /\ ThreadRuns
  /\ ctl[p] = from
  /\ ctl' = [ctl EXCEPT ![p] = to]

-----------------------------------------------------------------------------
(* The application: it stops all pipes before it starts one again, or each *)
(* on its own.                                                             *)

Stopped(p) == ctl[p] = "down" /\ fw[p] = "none"

Change(ps) ==
  /\ goal' = [p \in Pipe |-> IF p \in ps THEN ~goal[p] ELSE goal[p]]
  /\ UNCHANGED <<env, ctl, fw, mem, kernVars, intEn, isr, taken, lock>>

Want ==
  /\ ThreadRuns
  /\ \E ps \in {Pipe} \cup IF env.together THEN {} ELSE {{p} : p \in Pipe} :
       /\ \/ \A p \in ps : goal[p] /\ ctl[p] \in {"mem", "up"}
          \/ \A p \in ps : ~goal[p] /\ Stopped(p)
       /\ Change(ps)

-----------------------------------------------------------------------------
(* HI_MPI_ISP_MemInit and HI_ISP_Init of one pipe.                         *)

MemInit(p) ==
  /\ goal[p]
  /\ Stopped(p)
  /\ Goto(p, "down", "mem")
  /\ mem' = [mem EXCEPT ![p] = TRUE]
  /\ UNCHANGED <<env, goal, fw, kernVars, intEn, isr, taken, lock>>

\* One thread initialises the pipes one after another, or each has its own.
InitCall(p) ==
  /\ goal[p]
  /\ env.serial => \A q \in Pipe : ctl[q] \notin InitState
  /\ Goto(p, "mem", "be")
  /\ UNCHANGED <<env, goal, fw, mem, kernVars, intEn, isr, taken, lock>>

\* ISP_CfgBeBufInit and ISP_GetBeBufFirst.
InitBe(p) ==
  /\ Goto(p, "be", "cfg")
  /\ be' = [be EXCEPT ![p] = TRUE]
  /\ node' = [node EXCEPT ![p] = "old"]
  /\ state' = [state EXCEPT ![p] = "INIT"]
  /\ turn' = [turn EXCEPT ![p] = FALSE]
  /\ UNCHANGED <<env, goal, fw, mem, init, sync, edge, intEn, isr, taken,
                 lock>>

\* ISP_RegCfgInfoInit writes the first configuration; ISP_WDRCfgSet has the
\* driver wait for the whole group.
InitCfg(p) ==
  /\ Goto(p, "cfg", "sync")
  /\ node' = [node EXCEPT ![p] = "whole"]
  /\ state' = [state EXCEPT ![p] = "SWITCH"]
  /\ UNCHANGED <<env, goal, fw, mem, init, sync, be, edge, turn, intEn, isr,
                 taken, lock>>

\* ISP_SYNC_INIT_SET.
InitSync(p) ==
  /\ Goto(p, "sync", "copy")
  /\ sync' = [sync EXCEPT ![p] = TRUE]
  /\ UNCHANGED <<env, goal, fw, mem, init, be, state, node, edge, turn, intEn,
                 isr, taken, lock>>

\* ISP_DRV_WriteBeFreeBuf, outside the lock: it fails when pstUseNode is gone.
CopyFree(p) ==
  /\ Goto(p, "copy", IF be[p] /\ node[p] # "none" THEN "all" ELSE "fail")
  /\ UNCHANGED <<env, goal, fw, mem, kernVars, intEn, isr, taken, lock>>

Begin(p, all) ==
  lock' = [by |-> p, all |-> all, left |-> Bind, tested |-> FALSE]

\* ISP_DRV_StitchWriteBeBufAll: the last pipe of the group to get here
\* publishes for all.
WriteAll(p) ==
  /\ SyncFree
  /\ IF \A q \in Pipe : sync[q]
       THEN Goto(p, "all", "publish") /\ Begin(p, TRUE)
       ELSE Goto(p, "all", "done") /\ UNCHANGED lock
  /\ UNCHANGED <<env, goal, fw, mem, kernVars, intEn, isr, taken>>

InitDone(p) ==
  /\ Goto(p, "done", "up")
  /\ init' = [init EXCEPT ![p] = TRUE]
  /\ UNCHANGED <<env, goal, fw, mem, sync, be, state, node, edge, turn, intEn,
                 isr, taken, lock>>

\* Init fails: it frees what it has and keeps bMemInit and bStitchSync.
InitFails(p) ==
  /\ Goto(p, "fail", "mem")
  /\ be' = [be EXCEPT ![p] = FALSE]
  /\ UNCHANGED <<env, goal, fw, mem, init, sync, state, node, edge, turn,
                 intEn, isr, taken, lock>>

-----------------------------------------------------------------------------
(* Publishing the configurations of the group, pipe by pipe, under the     *)
(* lock: the loops of ISP_DRV_StitchWriteBeBufAll (lock.all) and of        *)
(* ISP_DRV_StitchBeBufCtl.                                                 *)

\* What a firmware that has the address of the node is left with once the node
\* is published.
Without(f) == CASE f = "got" -> "lost" [] f = "write" -> "stray" [] OTHER -> f

\* The publisher returns from its loop; fws is where the firmwares are.
Return(ok, fws) ==
  /\ lock' = Released
  /\ IF lock.all
       THEN /\ ctl' = [ctl EXCEPT ![lock.by] = IF ok THEN "done" ELSE "fail"]
            /\ fw' = fws
       ELSE /\ fw' = [fws EXCEPT ![lock.by] = "wait"]
            /\ UNCHANGED ctl

PublishTest ==
  /\ ~SyncFree
  /\ ~lock.tested
  /\ LET q == Head(lock.left)
     IN  IF be[q] /\ (lock.all => node[q] # "none")
           THEN lock' = [lock EXCEPT !.tested = TRUE] /\ UNCHANGED <<ctl, fw>>
           ELSE Return(FALSE, fw)
  /\ UNCHANGED <<env, goal, mem, kernVars, intEn, isr, taken>>

Put(q) ==
  /\ node' = [node EXCEPT ![q] = "none"]
  /\ turn' = [turn EXCEPT ![q] = (@ # (node[q] # "none"))]
  /\ LET fws == [fw EXCEPT ![q] = Without(@)]
     IN  IF Tail(lock.left) = <<>>
           THEN Return(TRUE, fws)
           ELSE /\ lock' = [lock EXCEPT !.left = Tail(@), !.tested = FALSE]
                /\ fw' = fws
                /\ UNCHANGED ctl
  /\ UNCHANGED <<env, goal, mem, init, sync, be, edge, intEn, isr, taken>>

\* Mutant: the state of the last pipe stays as it is.
PublishPutForgets ==
  /\ lock.tested
  /\ Put(Head(lock.left))
  /\ state' = IF Tail(lock.left) = <<>> THEN state
               ELSE [state EXCEPT ![Head(lock.left)] = "INIT"]

\* Without a node there is nothing to publish, but the pipe goes on.
PublishPut ==
  /\ lock.tested
  /\ Put(Head(lock.left))
  /\ state' = [state EXCEPT ![Head(lock.left)] = "INIT"]

-----------------------------------------------------------------------------
(* HI_MPI_ISP_Run and ISP_Run.                                             *)

RunStart(p) ==
  /\ ThreadRuns
  /\ ctl[p] = "up"
  /\ fw[p] = "none"
  /\ fw' = [fw EXCEPT ![p] = "wait"]
  /\ intEn' = (intEn \/ p = Main)
  /\ UNCHANGED <<env, appVars, mem, kernVars, isr, taken, lock>>

\* The loop ends once bRunEn is reset, and masks the pipe's interrupt.
RunEnd(p) ==
  /\ ThreadRuns
  /\ fw[p] = "wait"
  /\ ~UserInit(p)
  /\ ~ExitLocked(p)
  /\ fw' = [fw EXCEPT ![p] = "none"]
  /\ intEn' = (intEn /\ p # Main)
  /\ UNCHANGED <<env, appVars, mem, kernVars, isr, taken, lock>>

\* Woken: ISP_StitchSyncRun, where the main pipe waits for all the others,
\* and ISP_GetBeFreeBuf.
FwBegin(p) ==
  /\ ThreadRuns
  /\ SyncFree
  /\ fw[p] = "wait"
  /\ edge[p]
  /\ UserInit(p)
  /\ edge' = [edge EXCEPT ![p] = FALSE]
  /\ LET ready == p = Main => \A q \in Pipe : mem[q] /\ UserInit(q)
     IN  fw' = IF ready /\ be[p] /\ node[p] # "none"
                 THEN [fw EXCEPT ![p] = "got"]
                 ELSE fw
  /\ UNCHANGED <<env, appVars, mem, init, sync, be, state, node, turn, intEn,
                 isr, taken, lock>>

\* ISP_DRV_BeBufRunState: one configuration of a pipe in each round.
RunState(p) ==
  /\ ThreadRuns
  /\ SyncFree
  /\ Starting(p)
  /\ IF state[p] = "INIT"
       THEN /\ state' = [state EXCEPT ![p] = "RUNNING"]
            /\ fw' = [fw EXCEPT ![p] = IF @ = "got" THEN "write" ELSE "stray"]
       ELSE /\ fw' = [fw EXCEPT ![p] = "wait"]
            /\ UNCHANGED state
  /\ UNCHANGED <<env, appVars, mem, init, sync, be, node, edge, turn, intEn,
                 isr, taken, lock>>

\* Without statistics ISP_Run returns before.
NoStatistics(p) ==
  /\ ThreadRuns
  /\ Starting(p)
  /\ fw' = [fw EXCEPT ![p] = "wait"]
  /\ UNCHANGED <<env, appVars, mem, kernVars, intEn, isr, taken, lock>>

\* Mutant: the first pipe that is done publishes for all.
StitchBeBufCtlEarly(p) ==
  /\ ThreadRuns
  /\ SyncFree
  /\ fw[p] \in {"write", "stray"}
  /\ node' = [node EXCEPT ![p] = IF fw[p] = "write" THEN "whole" ELSE @]
  /\ state' = [state EXCEPT ![p] = "FINISH"]
  /\ IF state[p] = "RUNNING" /\ \A q \in Pipe : init[q]
       THEN fw' = [fw EXCEPT ![p] = "publish"] /\ Begin(p, FALSE)
       ELSE fw' = [fw EXCEPT ![p] = "wait"] /\ UNCHANGED lock
  /\ UNCHANGED <<env, appVars, mem, init, sync, be, edge, turn, intEn, isr,
                 taken>>

\* The configuration is written and ISP_DRV_StitchBeBufCtl called: the last
\* pipe to finish publishes for all.
StitchBeBufCtl(p) ==
  /\ ThreadRuns
  /\ SyncFree
  /\ fw[p] \in {"write", "stray"}
  /\ node' = [node EXCEPT ![p] = IF fw[p] = "write" THEN "whole" ELSE @]
  /\ state' = [state EXCEPT ![p] = IF @ = "RUNNING" THEN "FINISH" ELSE @]
  /\ IF state[p] = "RUNNING"
         /\ \A q \in Pipe : init[q] /\ (q # p => state[q] = "FINISH")
       THEN fw' = [fw EXCEPT ![p] = "publish"] /\ Begin(p, FALSE)
       ELSE fw' = [fw EXCEPT ![p] = "wait"] /\ UNCHANGED lock
  /\ UNCHANGED <<env, appVars, mem, init, sync, be, edge, turn, intEn, isr,
                 taken>>

-----------------------------------------------------------------------------
(* HI_MPI_ISP_Exit and ISP_Exit.                                           *)

ExitCall(p) ==
  /\ ~goal[p]
  /\ \E from \in {"up", "mem"} : Goto(p, from, "stop")
  /\ UNCHANGED <<env, goal, fw, mem, kernVars, intEn, isr, taken, lock>>

\* ISP_StitchSyncExit: the others wait for the main pipe.
SyncExit(p) ==
  /\ p # Main => ~mem[Main]
  /\ Goto(p, "stop", "lock")
  /\ UNCHANGED <<env, goal, fw, mem, kernVars, intEn, isr, taken, lock>>

\* stLock; the interrupt is masked and bRunEn reset.
ExitLock(p) ==
  /\ ~FwLocked(p)
  /\ Goto(p, "lock", "exit")
  /\ intEn' = (intEn /\ p # Main)
  /\ UNCHANGED <<env, goal, fw, mem, kernVars, isr, taken, lock>>

\* ISP_DRV_BeBufExit, once VI has given the buffers back: under the lock of
\* the pipe, not that of the group.
ExitBe(p) ==
  /\ Goto(p, "exit", "forget")
  /\ be' = [be EXCEPT ![p] = FALSE]
  /\ UNCHANGED <<env, goal, fw, mem, init, sync, state, node, edge, turn,
                 intEn, isr, taken, lock>>

ExitMem(p) ==
  /\ Goto(p, "forget", "reset")
  /\ mem' = [mem EXCEPT ![p] = FALSE]
  /\ UNCHANGED <<env, goal, fw, kernVars, intEn, isr, taken, lock>>

\* ISP_DRV_ResetCtx; that of the main pipe resets bStitchSync of all.
ResetCtx(p) ==
  /\ Goto(p, "reset", "down")
  /\ init' = [init EXCEPT ![p] = FALSE]
  /\ sync' = IF p = Main THEN [q \in Pipe |-> FALSE] ELSE sync
  /\ edge' = [edge EXCEPT ![p] = FALSE]
  /\ UNCHANGED <<env, goal, fw, mem, be, state, node, turn, intEn, isr, taken,
                 lock>>

-----------------------------------------------------------------------------
(* The frame interrupt of the main pipe (ISP_DoIntBottomHalf).             *)

\* It routes nothing before all pipes are initialised.
IsrBegin ==
  /\ intEn
  /\ isr = <<>>
  /\ env.smp \/ SyncFree
  /\ env.brief => \A q \in Pipe : ~Starting(q)
  /\ \A q \in Pipe : init[q]
  /\ isr' = Bind
  /\ UNCHANGED <<env, appVars, fw, mem, kernVars, intEn, taken, lock>>

\* ISP_DRV_WakeUpThread: only the firmware of a pipe whose turn it is.
WakeUp(q) == edge' = [edge EXCEPT ![q] = @ \/ state[q] = "INIT"]

\* ISP_DRV_StitchGetUseNode: the next node for a pipe that has none.
IsrTake ==
  /\ isr # <<>>
  /\ SyncFree
  /\ ~taken
  /\ be[Head(isr)] /\ node[Head(isr)] = "none"
  /\ node' = [node EXCEPT ![Head(isr)] = "old"]
  /\ taken' = TRUE
  /\ UNCHANGED <<env, appVars, fw, mem, init, sync, be, state, edge, turn,
                 intEn, isr, lock>>

\* A pipe that has its node is woken at once, under the lock; one that gets
\* none, as VI has them all or the queue is gone, is left alone.
IsrPass ==
  /\ isr # <<>>
  /\ SyncFree
  /\ ~taken
  /\ IF be[Head(isr)] /\ node[Head(isr)] # "none"
       THEN WakeUp(Head(isr))
       ELSE UNCHANGED edge
  /\ isr' = Tail(isr)
  /\ UNCHANGED <<env, appVars, fw, mem, init, sync, be, state, node, turn,
                 intEn, taken, lock>>

\* The end of ISP_IrqRoute, without the lock.
IsrWake ==
  /\ isr # <<>>
  /\ taken
  /\ WakeUp(Head(isr))
  /\ taken' = FALSE
  /\ isr' = Tail(isr)
  /\ UNCHANGED <<env, appVars, fw, mem, init, sync, be, state, node, turn,
                 intEn, lock>>

-----------------------------------------------------------------------------
Call(p) ==
  \/ MemInit(p) \/ InitCall(p) \/ InitBe(p) \/ InitCfg(p) \/ InitSync(p)
  \/ CopyFree(p) \/ WriteAll(p) \/ InitDone(p) \/ InitFails(p)
  \/ ExitCall(p) \/ SyncExit(p) \/ ExitLock(p) \/ ExitBe(p) \/ ExitMem(p)
  \/ ResetCtx(p)

Firmware(p) ==
  RunStart(p) \/ RunEnd(p) \/ FwBegin(p) \/ RunState(p) \/ StitchBeBufCtl(p)

Publish == PublishTest \/ PublishPut

Handler == IsrBegin \/ IsrTake \/ IsrPass \/ IsrWake

Next ==
  \/ Want
  \/ \E p \in Pipe : Call(p) \/ Firmware(p) \/ NoStatistics(p)
  \/ Publish
  \/ Handler

Spec == Init /\ [][Next]_vars

(* Threads and the handler are scheduled; a thread that finds a lock free  *)
(* again and again gets it (SF).  VI gives buffers back, so that the       *)
(* handler does not find the free list empty for ever (SF of IsrTake), and *)
(* the interrupt that wakes the firmware also fills a statistics buffer    *)
(* for it (SF of RunState).                                                *)
Fairness ==
  /\ \A p \in Pipe : SF_vars(Call(p)) /\ SF_vars(Firmware(p)) /\ SF_vars(RunState(p))
  /\ WF_vars(Publish)
  /\ SF_vars(Handler)
  /\ \A p \in Pipe : SF_vars(IsrTake /\ Head(isr) = p)

FairSpec == Spec /\ Fairness

-----------------------------------------------------------------------------
(* Properties.                                                             *)

\* One processor, one thread that starts the pipes, all of them stopped before
\* one is started again, and no interrupt within the first lines of ISP_Run.
\* Without one of the four, some part of what follows fails.
Careful == env.serial /\ env.together /\ env.brief /\ ~env.smp

LeftToPublish == {lock.left[i] : i \in DOMAIN lock.left}

\* Whoever publishes for the group, at the end of a round or of the start,
\* publishes of each pipe a configuration its firmware has finished.
PutsWhole ==
  Careful => \A q \in LeftToPublish :
    be[q] /\ node[q] # "none" => node[q] = "whole" /\ fw[q] # "write"

\* The firmware writes into a node that is still its own.
WritesOwnNode == Careful => \A p \in Pipe : fw[p] # "stray"

\* Outside the lock every pipe of the group has published as often as the
\* others: VI never stitches configurations of two rounds.
InStep ==
  Careful /\ SyncFree =>
    \A p, q \in Pipe : be[p] /\ be[q] => turn[p] = turn[q]

RoundsRight == PutsWhole /\ WritesOwnNode /\ InStep

\* A group that is wanted publishes again and again, after every restart, and
\* one that is not comes to rest, every pipe of it.
RoundsGoOn ==
  Careful => \A p \in Pipe :
    []<>(~goal[p] \/ turn[p]) /\ []<>(~goal[p] \/ ~turn[p])
GroupEnds ==
  env.together => \A p \in Pipe : ~goal[p] ~> ctl[p] = "down"
GroupLives == RoundsGoOn /\ GroupEnds
=============================================================================
