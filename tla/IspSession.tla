----------------------------- MODULE IspSession -----------------------------
(***************************************************************************)
(* The life cycle of one ISP pipe: HI_MPI_ISP_MemInit, Init, Run, RunOnce  *)
(* and Exit (mpi_isp_entry.c, isp_main.c) and the kernel state they leave  *)
(* behind (isp.c).  One application thread makes the calls but Run, which  *)
(* has threads of its own; as in sample_comm_isp.c the application stops   *)
(* a pipe with Exit and then joins the Run threads.  The process may die   *)
(* anywhere and a new one start: the driver's release handler does         *)
(* nothing, so the kernel state stays.                                     *)
(***************************************************************************)
EXTENDS Integers, FiniteSets

CONSTANTS
  Thread,      \* threads that may call HI_MPI_ISP_Run
  Main,        \* the application thread, not a Thread
  None,        \* nobody
  Environment  \* the applications considered, one per behaviour

ASSUME SessionAssumption ==
  /\ Main \notin Thread
  /\ None \notin Thread \cup {Main}
  /\ Environment \subseteq
       [runners : SUBSET Thread, maxCrash : Nat, exitTimeout : BOOLEAN]

VARIABLES
  env,      \* the application, chosen once
  uMem,     \* the process: bMemInit,
  uInit,    \*   stIspParaRec.bInit,
  uRunEn,   \*   stIspParaRec.bRunEn,
  uRun,     \*   stIspParaRec.bRun
  mutex,    \* stLock: "ok" or "destroyed"
  owner,    \* who holds stLock
  kMem,     \* the kernel: bMemInit,
  kRunFlag, \*   bIspRunFlag,
  kVreg,    \*   the virtual registers are registered,
  kBe,      \*   the BE buffers: "none", "ready" or "waiting" (for VI),
  kStat,    \*   the statistics and the other buffers exist,
  intEn,    \*   the frame-start interrupt is unmasked,
  bEdge,    \*   bEdge
  main,     \* where the application thread is
  exitFor,  \* who called the exit functions: "exit", "mem" or "init"
  failed,   \* ISP_Exit returns an error
  pc,       \* where each Run thread is
  crashes   \* how often the process died

userVars == <<uMem, uInit, uRunEn, uRun>>
lockVars == <<mutex, owner>>
kernVars == <<kMem, kRunFlag, kVreg, kBe, kStat, intEn, bEdge>>
mainVars == <<main, exitFor, failed>>
vars == <<env, userVars, lockVars, kernVars, mainVars, pc, crashes>>

Runners     == env.runners      \* the threads it calls HI_MPI_ISP_Run from
MaxCrash    == env.maxCrash     \* bound: how often its process dies
ExitTimeout == env.exitTimeout  \* VI may keep its buffers until
                                \* ISP_DRV_BeBufExit times out

MainState == {"idle", "memVreg", "memSet", "initBe", "initStat", "initLock",
  "initSet", "exitLock", "exitMask", "exitState", "exitStat", "exitBe",
  "exitWait", "exitReset", "exitDestroy", "join", "onceLock", "onceTest",
  "onceRun"}
RunState == {"none", "called", "runLock", "enter", "loopLock", "loopTest",
  "switch", "wait", "clear", "fwLock", "fwTest", "fwRun", "mask"}

TypeOK ==
  /\ {uMem, uInit, uRunEn, uRun, kMem, kRunFlag, kVreg, kStat, intEn, bEdge,
      failed} \subseteq BOOLEAN
  /\ mutex \in {"ok", "destroyed"}
  /\ owner \in Thread \cup {Main, None}
  /\ kBe \in {"none", "ready", "waiting"}
  /\ main \in MainState
  /\ exitFor \in {"exit", "mem", "init"}
  /\ pc \in [Thread -> RunState]
  /\ crashes \in 0..MaxCrash

Init ==
  /\ env \in Environment
  /\ uMem = FALSE /\ uInit = FALSE /\ uRunEn = FALSE /\ uRun = FALSE
  /\ mutex = "ok"       \* zero in memory, which is an unlocked mutex
  /\ owner = None
  /\ kMem = FALSE /\ kRunFlag = FALSE /\ kVreg = FALSE
  /\ kBe = "none" /\ kStat = FALSE
  /\ intEn = FALSE /\ bEdge = FALSE
  /\ main = "idle" /\ exitFor = "exit" /\ failed = FALSE
  /\ pc = [t \in Thread |-> "none"]
  /\ crashes = 0

-----------------------------------------------------------------------------
(* pthread_mutex_lock and _unlock; their results are ignored.  Locking a   *)
(* destroyed mutex is undefined: glibc returns an error without locking,   *)
(* so the caller goes on unprotected.                                      *)

Lock(who) ==
  /\ mutex = "destroyed" \/ owner = None
  /\ owner' = IF mutex = "destroyed" THEN owner ELSE who
  /\ UNCHANGED mutex

Unlock == owner' = None /\ UNCHANGED mutex

Goto(m) == main' = m /\ UNCHANGED <<exitFor, failed>>

Joined == \A t \in Thread : pc[t] = "none"

-----------------------------------------------------------------------------
(* HI_MPI_ISP_MemInit.                                                     *)

\* The kernel's bMemInit tells that the pipe is in use, perhaps by a process
\* that died: ISP_Exit, without stLock, cleans up first.
MemInit ==
  /\ main = "idle"
  /\ ~uInit
  /\ Joined
  /\ uMem' = kMem
  /\ IF kMem
       THEN /\ main' = "exitState"
            /\ exitFor' = "mem"
            /\ failed' = FALSE
       ELSE Goto("memVreg")
  /\ UNCHANGED <<uInit, uRunEn, uRun, lockVars, kernVars, pc, crashes>>

\* VReg_Init is refused while the virtual registers are registered.
MemVreg ==
  /\ main = "memVreg"
  /\ kVreg' = TRUE
  /\ Goto(IF kVreg THEN "idle" ELSE "memSet")
  /\ UNCHANGED <<userVars, lockVars, kMem, kRunFlag, kBe, kStat, intEn,
                 bEdge, pc, crashes>>

\* The rest of MemInit succeeds ...
MemSet ==
  /\ main = "memSet"
  /\ uMem' = TRUE
  /\ kMem' = TRUE
  /\ uInit' = FALSE /\ uRunEn' = FALSE /\ uRun' = FALSE
  /\ Goto("idle")
  /\ UNCHANGED <<lockVars, kRunFlag, kVreg, kBe, kStat, intEn, bEdge, pc,
                 crashes>>

\* ... or fails and undoes VReg_Init.
MemFails ==
  /\ main = "memSet"
  /\ kVreg' = FALSE
  /\ Goto("idle")
  /\ UNCHANGED <<userVars, lockVars, kMem, kRunFlag, kBe, kStat, intEn,
                 bEdge, pc, crashes>>

-----------------------------------------------------------------------------
(* HI_ISP_Init.                                                            *)

\* ISP_CheckMemInit asks the kernel when the process does not know.
InitCall ==
  /\ main = "idle"
  /\ Joined
  /\ ~uInit
  /\ uMem' = (uMem \/ kMem)
  /\ Goto(IF uMem \/ kMem THEN "initBe" ELSE "idle")
  /\ UNCHANGED <<uInit, uRunEn, uRun, lockVars, kernVars, pc, crashes>>

\* ISP_CfgBeBufInit: "buffer is initialized, Please exit ISP!!!".
InitBe ==
  /\ main = "initBe"
  /\ IF kBe = "none"
       THEN kBe' = "ready" /\ Goto("initStat")
       ELSE UNCHANGED kBe /\ Goto("idle")
  /\ UNCHANGED <<userVars, lockVars, kMem, kRunFlag, kVreg, kStat, intEn,
                 bEdge, pc, crashes>>

\* ISP_StatisticsInit and the other buffers; refused when they exist.
InitStat ==
  /\ main = "initStat"
  /\ ~kStat
  /\ kStat' = TRUE
  /\ Goto("initLock")
  /\ UNCHANGED <<userVars, lockVars, kMem, kRunFlag, kVreg, kBe, intEn,
                 bEdge, pc, crashes>>

\* A step of ISP_Init fails: what was set up is undone.
InitFails ==
  /\ main \in {"initStat", "initLock"}
  /\ main' = "exitStat"
  /\ exitFor' = "init"
  /\ UNCHANGED <<failed, userVars, lockVars, kernVars, pc, crashes>>

\* MUTEX_INIT_LOCK, whatever state stLock is in, and MUTEX_LOCK.
InitLock ==
  /\ main = "initLock"
  /\ mutex' = "ok"
  /\ owner' = Main
  /\ Goto("initSet")
  /\ UNCHANGED <<userVars, kernVars, pc, crashes>>

\* bInit, bRunEn and the kernel's bIspRunFlag.  The two ioctls at the end of
\* ISP_Init refuse a wrong pipe, pointer or hand signal only, of which it has
\* none, so the paths that give up here are never taken.
InitSet ==
  /\ main = "initSet"
  /\ uInit' = TRUE
  /\ uRunEn' = TRUE
  /\ kRunFlag' = TRUE
  /\ Unlock
  /\ Goto("idle")
  /\ UNCHANGED <<uMem, uRun, kMem, kVreg, kBe, kStat, intEn, bEdge, pc,
                 crashes>>

-----------------------------------------------------------------------------
(* HI_MPI_ISP_Exit and ISP_Exit.                                           *)

ExitCall ==
  /\ main = "idle"
  /\ main' = "exitLock"
  /\ exitFor' = "exit"
  /\ failed' = FALSE
  /\ UNCHANGED <<userVars, lockVars, kernVars, pc, crashes>>

ExitLock ==
  /\ main = "exitLock"
  /\ Lock(Main)
  /\ Goto("exitMask")
  /\ UNCHANGED <<userVars, kernVars, pc, crashes>>

ExitMask ==
  /\ main = "exitMask"
  /\ intEn' = FALSE
  /\ Goto("exitState")
  /\ UNCHANGED <<userVars, lockVars, kMem, kRunFlag, kVreg, kBe, kStat, bEdge,
                 pc, crashes>>

\* Mutant: the kernel keeps bIspRunFlag.
ExitStateKeepsFlag ==
  /\ main = "exitState"
  /\ uInit' = FALSE /\ uRunEn' = FALSE /\ uRun' = FALSE
  /\ Goto("exitStat")
  /\ UNCHANGED <<uMem, lockVars, kernVars, pc, crashes>>

\* ISP_RUN_STATE_SET with the exit hand signal, then stIspParaRec is cleared.
ExitState ==
  /\ main = "exitState"
  /\ kRunFlag' = FALSE
  /\ uInit' = FALSE /\ uRunEn' = FALSE /\ uRun' = FALSE
  /\ Goto("exitStat")
  /\ UNCHANGED <<uMem, lockVars, kMem, kVreg, kBe, kStat, intEn, bEdge, pc,
                 crashes>>

\* The statistics and the other buffers; the kernel frees none of a pipe
\* that runs (ISP_CHECK_EXIT_STATE).
ExitStat ==
  /\ main = "exitStat"
  /\ kStat' = (kStat /\ kRunFlag)
  /\ main' = "exitBe"
  /\ failed' = kRunFlag
  /\ UNCHANGED <<exitFor, userVars, lockVars, kMem, kRunFlag, kVreg, kBe,
                 intEn, bEdge, pc, crashes>>

AfterBe == IF exitFor = "init" THEN "idle" ELSE "exitReset"

\* ISP_DRV_BeBufExit up to the wait; it returns at once without buffers.
ExitBe ==
  /\ main = "exitBe"
  /\ IF kBe = "none" \/ kRunFlag
       THEN UNCHANGED kBe /\ Goto(AfterBe)
       ELSE kBe' = "waiting" /\ Goto("exitWait")
  /\ UNCHANGED <<userVars, lockVars, kMem, kRunFlag, kVreg, kStat, intEn,
                 bEdge, pc, crashes>>

\* VI has given its buffers back.
BeFreed ==
  /\ main = "exitWait"
  /\ kBe' = "none"
  /\ Goto(AfterBe)
  /\ UNCHANGED <<userVars, lockVars, kMem, kRunFlag, kVreg, kStat, intEn,
                 bEdge, pc, crashes>>

BeTimeout ==
  /\ ExitTimeout
  /\ main = "exitWait"
  /\ main' = AfterBe
  /\ failed' = TRUE
  /\ UNCHANGED <<exitFor, userVars, lockVars, kernVars, pc, crashes>>

\* Mutant: the virtual registers stay registered.
ExitResetKeepsVreg ==
  /\ main = "exitReset"
  /\ uMem' = FALSE
  /\ kMem' = FALSE
  /\ bEdge' = FALSE
  /\ Goto(IF exitFor = "mem" THEN IF failed THEN "idle" ELSE "memVreg"
          ELSE IF failed THEN "join" ELSE "exitDestroy")
  /\ IF exitFor = "mem" THEN UNCHANGED lockVars ELSE Unlock
  /\ UNCHANGED <<uInit, uRunEn, uRun, kRunFlag, kVreg, kBe, kStat, intEn, pc,
                 crashes>>

\* The end of ISP_Exit: ISP_RESET_CTX, VReg_Exit and VReg_ReleaseAll, all
\* done whatever failed before.  HI_MPI_ISP_Exit unlocks, and destroys stLock
\* only when ISP_Exit succeeded; the application then joins its Run threads.
ExitReset ==
  /\ main = "exitReset"
  /\ uMem' = FALSE
  /\ kMem' = FALSE
  /\ bEdge' = FALSE
  /\ kVreg' = FALSE
  /\ Goto(IF exitFor = "mem" THEN IF failed THEN "idle" ELSE "memVreg"
          ELSE IF failed THEN "join" ELSE "exitDestroy")
  /\ IF exitFor = "mem" THEN UNCHANGED lockVars ELSE Unlock
  /\ UNCHANGED <<uInit, uRunEn, uRun, kRunFlag, kBe, kStat, intEn, pc,
                 crashes>>

\* MUTEX_DESTROY; a mutex somebody has locked meanwhile may stay (EBUSY).
ExitDestroy ==
  /\ main = "exitDestroy"
  /\ \/ mutex' = "destroyed"
     \/ owner # None /\ UNCHANGED mutex
  /\ Goto("join")
  /\ UNCHANGED <<owner, userVars, kernVars, pc, crashes>>

\* Mutant: the application does not wait for its Run threads.
NoJoin ==
  /\ main = "join"
  /\ pc' = [t \in Thread |-> IF pc[t] = "called" THEN "none" ELSE pc[t]]
  /\ Goto("idle")
  /\ UNCHANGED <<userVars, lockVars, kernVars, crashes>>

\* pthread_join of every Run thread.
Join ==
  /\ main = "join"
  /\ Joined
  /\ Goto("idle")
  /\ UNCHANGED <<userVars, lockVars, kernVars, pc, crashes>>

-----------------------------------------------------------------------------
(* HI_ISP_RunOnce, by the application thread.                              *)

OnceCall ==
  /\ main = "idle"
  /\ uInit
  /\ Goto("onceLock")
  /\ UNCHANGED <<userVars, lockVars, kernVars, pc, crashes>>

OnceLock ==
  /\ main = "onceLock"
  /\ Lock(Main)
  /\ Goto("onceTest")
  /\ UNCHANGED <<userVars, kernVars, pc, crashes>>

\* bRun is tested under stLock, unlike in HI_MPI_ISP_Run.
OnceTest ==
  /\ main = "onceTest"
  /\ IF uRun \/ ~uRunEn
       THEN Unlock /\ Goto("idle") /\ UNCHANGED uRun
       ELSE uRun' = TRUE /\ Goto("onceRun") /\ UNCHANGED lockVars
  /\ UNCHANGED <<uMem, uInit, uRunEn, kernVars, pc, crashes>>

OnceRun ==
  /\ main = "onceRun"
  /\ uRun' = FALSE
  /\ Unlock
  /\ Goto("idle")
  /\ UNCHANGED <<uMem, uInit, uRunEn, kernVars, pc, crashes>>

-----------------------------------------------------------------------------
(* HI_MPI_ISP_Run.                                                         *)

Step(t, from, to) == pc[t] = from /\ pc' = [pc EXCEPT ![t] = to]

\* The application starts a thread after Init; it is scheduled some time.
RunCall(t) ==
  /\ t \in Runners
  /\ main = "idle"
  /\ uInit
  /\ Step(t, "none", "called")
  /\ UNCHANGED <<userVars, lockVars, kernVars, mainVars, crashes>>

\* The checks before stLock is taken, that of bRun among them.
RunCheck(t) ==
  /\ Step(t, "called",
          IF (uMem \/ kMem) /\ uInit /\ ~uRun THEN "runLock" ELSE "none")
  /\ uMem' = (uMem \/ kMem)
  /\ UNCHANGED <<uInit, uRunEn, uRun, lockVars, kernVars, mainVars, crashes>>

RunLock(t) ==
  /\ \/ Step(t, "runLock", "enter")
     \/ Step(t, "loopLock", "loopTest")
     \/ Step(t, "fwLock", "fwTest")
  /\ Lock(t)
  /\ UNCHANGED <<userVars, kernVars, mainVars, crashes>>

\* "Sometimes ISP run thread is not scheduled to run before calling ISP exit."
RunEnter(t) ==
  /\ Step(t, "enter", IF uRunEn THEN "loopLock" ELSE "none")
  /\ intEn' = (intEn \/ uRunEn)
  /\ uRun' = (uRun \/ uRunEn)
  /\ Unlock
  /\ UNCHANGED <<uMem, uInit, uRunEn, kMem, kRunFlag, kVreg, kBe, kStat,
                 bEdge, mainVars, crashes>>

LoopTest(t) ==
  /\ IF uRunEn
       THEN Step(t, "loopTest", "switch") /\ UNCHANGED lockVars
       ELSE Step(t, "loopTest", "mask") /\ Unlock
  /\ UNCHANGED <<userVars, kernVars, mainVars, crashes>>

\* ISP_SwitchWDRMode and ISP_SwitchImageMode; an error ends the loop.
Switch(t) ==
  /\ Step(t, "switch", "wait") \/ Step(t, "switch", "mask")
  /\ Unlock
  /\ UNCHANGED <<userVars, kernVars, mainVars, crashes>>

\* Mutant: the wait has no timeout.
GetFrameEdgeNoTimeout(t) ==
  /\ bEdge
  /\ Step(t, "wait", "clear")
  /\ UNCHANGED <<userVars, lockVars, kernVars, mainVars, crashes>>

\* ISP_GetFrameEdge: woken by the interrupt, or after a timeout.
GetFrameEdge(t) ==
  /\ \/ bEdge /\ Step(t, "wait", "clear")
     \/ Step(t, "wait", "loopLock")
  /\ UNCHANGED <<userVars, lockVars, kernVars, mainVars, crashes>>

ClearEdge(t) ==
  /\ Step(t, "clear", "fwLock")
  /\ bEdge' = FALSE
  /\ UNCHANGED <<userVars, lockVars, kMem, kRunFlag, kVreg, kBe, kStat, intEn,
                 mainVars, crashes>>

\* Mutant: bRunEn is not tested again after the wait.
FwTestNot(t) ==
  /\ Step(t, "fwTest", "fwRun")
  /\ UNCHANGED <<userVars, lockVars, kernVars, mainVars, crashes>>

\* bRunEn is tested again: Exit may have come while the thread waited.
FwTest(t) ==
  /\ IF uRunEn
       THEN Step(t, "fwTest", "fwRun") /\ UNCHANGED lockVars
       ELSE Step(t, "fwTest", "mask") /\ Unlock
  /\ UNCHANGED <<userVars, kernVars, mainVars, crashes>>

\* ISP_Run ends; its result is ignored.
FwRun(t) ==
  /\ Step(t, "fwRun", "loopLock")
  /\ Unlock
  /\ UNCHANGED <<userVars, kernVars, mainVars, crashes>>

\* The end of HI_MPI_ISP_Run, outside stLock.  bRun is left as it is.
RunMask(t) ==
  /\ Step(t, "mask", "none")
  /\ intEn' = FALSE
  /\ UNCHANGED <<userVars, lockVars, kMem, kRunFlag, kVreg, kBe, kStat, bEdge,
                 mainVars, crashes>>

-----------------------------------------------------------------------------
\* ISP_DRV_WakeUpThread, from the frame-start interrupt.
Edge ==
  /\ intEn
  /\ bEdge' = TRUE
  /\ UNCHANGED <<userVars, lockVars, kMem, kRunFlag, kVreg, kBe, kStat, intEn,
                 mainVars, pc, crashes>>

\* The process dies and a new one starts: ISP_close leaves the kernel alone,
\* and BeBufExit's interruptible wait ends with an error.
Crash ==
  /\ crashes < MaxCrash
  /\ crashes' = crashes + 1
  /\ uMem' = FALSE /\ uInit' = FALSE /\ uRunEn' = FALSE /\ uRun' = FALSE
  /\ mutex' = "ok" /\ owner' = None
  /\ main' = "idle" /\ exitFor' = "exit" /\ failed' = FALSE
  /\ pc' = [t \in Thread |-> "none"]
  /\ UNCHANGED kernVars

UserCall == MemInit \/ InitCall \/ ExitCall \/ OnceCall

MainStep ==
  \/ MemVreg \/ MemSet \/ MemFails
  \/ InitBe \/ InitStat \/ InitFails \/ InitLock \/ InitSet
  \/ ExitLock \/ ExitMask \/ ExitState \/ ExitStat \/ ExitBe \/ BeFreed
  \/ BeTimeout \/ ExitReset \/ ExitDestroy \/ Join
  \/ OnceLock \/ OnceTest \/ OnceRun

RunStep(t) ==
  \/ RunCheck(t) \/ RunLock(t) \/ RunEnter(t) \/ LoopTest(t) \/ Switch(t)
  \/ GetFrameEdge(t) \/ ClearEdge(t) \/ FwTest(t) \/ FwRun(t) \/ RunMask(t)

Next ==
  /\ \/ UserCall \/ MainStep \/ Edge \/ Crash
     \/ \E t \in Thread : RunCall(t) \/ RunStep(t)
  /\ UNCHANGED env

Spec == Init /\ [][Next]_vars

\* Threads are scheduled; who waits for stLock gets it if it is free again
\* and again.
Fixed(A) == A /\ UNCHANGED env

Fairness ==
  /\ WF_vars(Fixed(MainStep))
  /\ SF_vars(Fixed(ExitLock)) /\ SF_vars(Fixed(OnceLock))
  /\ \A t \in Thread : WF_vars(Fixed(RunStep(t))) /\ SF_vars(Fixed(RunLock(t)))

FairSpec == Spec /\ Fairness

\* The application keeps trying, VI lets go of its buffers some time, and
\* what fails for want of memory does not fail for ever.
RetrySpec ==
  /\ FairSpec
  /\ SF_vars(Fixed(MemInit)) /\ SF_vars(Fixed(InitCall))
  /\ SF_vars(Fixed(ExitCall)) /\ SF_vars(Fixed(BeFreed))
  /\ SF_vars(Fixed(MemSet)) /\ SF_vars(Fixed(InitStat))
  /\ SF_vars(Fixed(InitLock))

-----------------------------------------------------------------------------
(* Properties.                                                             *)

InFirmware(t) == pc[t] \in {"switch", "fwRun"}

\* The firmware runs only while the kernel buffers it uses exist and with
\* stLock held, although Exit may free them whenever a Run thread waits, and
\* although Exit destroys the mutex Run threads go on locking.
FwSafe ==
  /\ \A t \in Thread : InFirmware(t) =>
       /\ kBe = "ready" /\ kStat /\ kMem
       /\ owner = t
  /\ main = "onceRun" => kBe = "ready" /\ kStat /\ kMem /\ owner = Main

\* The kernel's bIspRunFlag, which forbids that buffers are freed, is set only
\* while they all exist, also when a process died half-way.
RunFlagMeansReady == kRunFlag => kBe = "ready" /\ kStat /\ kMem

\* Whoever runs the firmware, or says that it runs, has the buffers for it.
BuffersWhenUsed == FwSafe /\ RunFlagMeansReady

\* The interrupt is unmasked only while a Run thread is there to mask it
\* again: no handler runs in a pipe that is set up or torn down.  (After a
\* crash nothing masks it before the next Exit, see the README.)
IntOwned ==
  crashes = 0 /\ intEn =>
    \E t \in Thread : pc[t] \notin {"none", "called", "runLock", "enter"}

\* A Run thread never waits for an interrupt that is masked, unless Exit has
\* begun: with one Run thread at a time, each joined after Exit, no thread
\* that ends late masks the interrupt of the one that runs.
WaitsUnmasked ==
  /\ \A s, t \in Runners : s = t
  /\ \E t \in Thread : pc[t] \in {"wait", "clear"}
  /\ ~intEn
  =>
    main \in {"exitState", "exitStat", "exitBe", "exitWait", "exitReset",
              "exitDestroy", "join"}

\* The frame interrupt is unmasked when a thread waits for it, and only then.
IntGuarded == IntOwned /\ WaitsUnmasked

\* "isp firmware recurrent task, always run in a single thread."
\* (HI_MPI_ISP_Run): a second call is refused while bRun is set.
SingleRunTask ==
  Cardinality({t \in Thread :
    pc[t] \in {"loopTest", "switch", "wait", "clear", "fwTest", "fwRun"}}) <= 1

\* After MemInit nothing a dead process was running with is left in the
\* kernel, wherever it died: only BE buffers VI has not given back.
MemInitCleans == [][MemSet => kBe # "ready" /\ ~kStat /\ ~kRunFlag]_vars

\* Stopping a pipe comes to an end: Exit gets stLock from a loop that takes it
\* again and again, and the joined threads return although their interrupt
\* is masked.
StopCompletes == (main = "exitLock") ~> (main = "idle")

\* Wherever a process dies and whatever times out, an application that keeps
\* trying gets the pipe initialised again.
Recovers == (main = "idle" /\ ~uInit) ~> uInit
=============================================================================
