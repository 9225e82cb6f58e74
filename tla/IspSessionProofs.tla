-------------------------- MODULE IspSessionProofs --------------------------
(***************************************************************************)
(* Theorems about the life cycle of a pipe, for any number of Run threads  *)
(* and of deaths of the process, whatever times out or fails: the firmware *)
(* runs only while the kernel's buffers for it exist.                      *)
(***************************************************************************)
EXTENDS IspSession, TLAPS

InitChain == {"memVreg", "memSet", "initBe", "initStat", "initLock", "initSet"}
FreeChain == {"exitStat", "exitBe", "exitWait", "exitReset", "exitDestroy"}
ExitChain == {"exitMask", "exitState", "exitStat", "exitBe", "exitWait",
              "exitReset"}

\* Who has stLock.
MainHolds == \/ main \in {"initSet", "onceTest", "onceRun"}
             \/ exitFor = "exit" /\ main \in ExitChain
RunHolds(t) == pc[t] \in {"enter", "loopTest", "switch", "fwTest", "fwRun"}

\* stLock works while it is not destroyed, and it is destroyed only when the
\* session is over.
LockInv ==
  /\ mutex = "ok" => /\ MainHolds => owner = Main
                     /\ \A t \in Thread : RunHolds(t) => owner = t
  /\ mutex = "destroyed" => ~uRunEn /\ ~kRunFlag
  /\ main = "initSet" => mutex = "ok"

\* What the process believes is true of the kernel.
UserInv ==
  /\ uInit = uRunEn
  /\ uInit => kRunFlag
  /\ uMem => kMem

\* The kernel's buffers, from the first step of Init to the end of Exit.
StageInv ==
  /\ main \in InitChain => Joined
  /\ main \in InitChain \cup FreeChain \cup {"join"} => ~uInit
  /\ exitFor # "exit" /\ main \in ExitChain => ~uInit /\ Joined
  /\ main \in {"exitLock", "exitMask"} => exitFor = "exit"
  /\ main = "exitReset" => exitFor # "init"
  /\ main \in FreeChain \cup {"initStat", "initLock", "initSet"} => ~kRunFlag
  /\ main \in {"initBe", "initStat", "initLock", "initSet"} => kMem
  /\ main \in {"initStat", "initLock", "initSet"} => kBe = "ready"
  /\ main \in {"initLock", "initSet"} => kStat

\* The firmware runs in a session only.
FwInv ==
  /\ \A t \in Thread : InFirmware(t) => uRunEn
  /\ main = "onceRun" => uRunEn

\* Nothing of the kernel's is in use without its bMemInit, and the exit leaves
\* no buffer to the next session but those VI has not given back.
CleanInv ==
  /\ kStat \/ kBe = "ready" => kMem
  /\ main \in {"memVreg", "memSet"} => ~kMem
  /\ main \in {"exitBe", "exitWait", "exitReset"} => ~kStat
  /\ main \in {"exitWait", "exitReset"} => kBe # "ready"

\* The interrupt is unmasked when a Run thread enters its loop and masked when
\* one leaves it.
Looping(t) == pc[t] \notin {"none", "called", "runLock", "enter"}

IntInv ==
  /\ IntOwned
  /\ \A t \in Thread : pc[t] # "none" => t \in Runners
  /\ (\A s, t \in Runners : s = t) /\ ~intEn =>
       \A t \in Thread : Looping(t) =>
         main \in {"exitState", "exitStat", "exitBe", "exitWait", "exitReset",
                  "exitDestroy", "join"}

SessionInv ==
  /\ env \in Environment /\ TypeOK
  /\ LockInv /\ UserInv /\ StageInv /\ FwInv /\ CleanInv /\ RunFlagMeansReady

-----------------------------------------------------------------------------
LEMMA Bound == \A e \in Environment : e.maxCrash \in Nat
BY SessionAssumption

LEMMA SessionInit == Init => SessionInv
<1> SUFFICES ASSUME Init PROVE SessionInv
  OBVIOUS
<1>1. TypeOK
  <2>1. crashes \in 0..MaxCrash
    BY Bound DEF Init, MaxCrash
  <2> QED
    BY <2>1 DEF Init, TypeOK, MainState, RunState
<1>2. LockInv /\ UserInv /\ FwInv
  BY DEF Init, LockInv, UserInv, FwInv, MainHolds, RunHolds, InFirmware, ExitChain
<1>3. StageInv /\ CleanInv /\ RunFlagMeansReady /\ env \in Environment
  BY DEF Init, StageInv, CleanInv, RunFlagMeansReady, InitChain, FreeChain,
     ExitChain
<1> QED
  BY <1>1, <1>2, <1>3 DEF SessionInv

\* The calls of the application thread, and the interrupt.
LEMMA MainInv ==
  ASSUME SessionInv, UNCHANGED env, UserCall \/ MainStep \/ Edge
  PROVE  SessionInv'
<1> USE SessionAssumption
    DEF SessionInv, TypeOK, LockInv, UserInv, StageInv, FwInv, CleanInv,
        RunFlagMeansReady, MainHolds, RunHolds, InitChain, FreeChain, ExitChain,
        MaxCrash, MainState, InFirmware, userVars, lockVars, kernVars, mainVars,
        Goto, Joined
<1>1. CASE MemInit BY <1>1 DEF MemInit
<1>2. CASE InitCall BY <1>2 DEF InitCall
<1>3. CASE ExitCall BY <1>3 DEF ExitCall
<1>4. CASE OnceCall BY <1>4 DEF OnceCall
<1>5. CASE MemVreg BY <1>5 DEF MemVreg
<1>6. CASE MemSet BY <1>6 DEF MemSet
<1>7. CASE MemFails BY <1>7 DEF MemFails
<1>8. CASE InitBe BY <1>8 DEF InitBe
<1>9. CASE InitStat BY <1>9 DEF InitStat
<1>10. CASE InitFails BY <1>10 DEF InitFails
<1>11. CASE InitLock BY <1>11 DEF InitLock
<1>12. CASE InitSet BY <1>12 DEF InitSet, Unlock
<1>13. CASE ExitLock
  <2> USE <1>13 DEF ExitLock, Lock
  <2>1. TypeOK' /\ UserInv' /\ StageInv' /\ CleanInv' /\ RunFlagMeansReady'
    OBVIOUS
  <2>2. FwInv'
    OBVIOUS
  <2>3. mutex = "ok" => owner' = Main /\ \A t \in Thread : ~RunHolds(t)
    OBVIOUS
  <2>4. LockInv'
    BY <2>3
  <2> QED
    BY <2>1, <2>2, <2>4
<1>14. CASE ExitMask BY <1>14 DEF ExitMask
<1>15. CASE ExitState BY <1>15 DEF ExitState
<1>16. CASE ExitStat BY <1>16 DEF ExitStat
<1>17. CASE ExitBe BY <1>17 DEF ExitBe, AfterBe
<1>18. CASE BeFreed BY <1>18 DEF BeFreed, AfterBe
<1>19. CASE BeTimeout BY <1>19 DEF BeTimeout, AfterBe
<1>20. CASE ExitReset
  <2>1. /\ main' \in {"idle", "memVreg", "join", "exitDestroy"}
        /\ exitFor = "mem" => main' \in {"idle", "memVreg"}
        /\ exitFor # "mem" => main' \in {"join", "exitDestroy"}
    BY <1>20 DEF ExitReset
  <2>2. /\ owner' \in {owner, None} /\ UNCHANGED <<mutex, exitFor, failed>>
        /\ exitFor = "mem" => owner' = owner
    BY <1>20 DEF ExitReset, Unlock
  <2>3. /\ main = "exitReset" /\ ~uMem' /\ ~kMem' /\ ~bEdge' /\ ~kVreg'
        /\ UNCHANGED <<uInit, uRunEn, uRun, kRunFlag, kBe, kStat, intEn, pc,
                       crashes>>
    BY <1>20 DEF ExitReset
  <2>4. uMem' = FALSE /\ kMem' = FALSE /\ bEdge' = FALSE /\ kVreg' = FALSE
    BY <1>20 DEF ExitReset
  <2>5. TypeOK'
    BY <2>1, <2>2, <2>3, <2>4
  <2>6. UserInv' /\ FwInv' /\ CleanInv' /\ RunFlagMeansReady'
    <3>1. ~kRunFlag /\ ~uInit /\ ~uRunEn /\ ~kStat /\ kBe # "ready"
      BY <2>3
    <3>2. UserInv' /\ RunFlagMeansReady'
      BY <2>3, <3>1
    <3>3. CleanInv'
      BY <2>1, <2>3, <3>1
    <3>4. FwInv'
      BY <2>1, <2>3
    <3> QED
      BY <3>2, <3>3, <3>4
  <2>7. StageInv'
    <3>1. main = "exitReset" /\ ~uInit' /\ ~kRunFlag'
      BY <2>3
    <3>2. CASE main' = "memVreg"
      <4>1. Joined
        BY <2>1, <2>3, <3>2
      <4> QED
        BY <2>2, <2>3, <3>1, <3>2, <4>1
    <3>3. CASE main' # "memVreg"
      BY <2>1, <2>2, <2>3, <3>1, <3>3
    <3> QED
      BY <3>2, <3>3
  <2>8. CASE exitFor = "mem"
    <3>1. LockInv'
      BY <2>1, <2>2, <2>3, <2>8
    <3> QED
      BY <2>5, <2>6, <2>7, <3>1
  <2>9. CASE exitFor # "mem"
    <3>1. mutex = "ok" => \A t \in Thread : ~RunHolds(t)
      BY <2>3, <2>9
    <3>2. LockInv'
      BY <2>1, <2>2, <2>3, <2>9, <3>1
    <3> QED
      BY <2>5, <2>6, <2>7, <3>2
  <2> QED
    BY <2>8, <2>9
<1>21. CASE ExitDestroy BY <1>21 DEF ExitDestroy
<1>22. CASE Join BY <1>22 DEF Join
<1>23. CASE OnceLock BY <1>23 DEF OnceLock, Lock
<1>24. CASE OnceTest BY <1>24 DEF OnceTest, Unlock
<1>25. CASE OnceRun BY <1>25 DEF OnceRun, Unlock
<1>26. CASE Edge BY <1>26 DEF Edge
<1> QED
  BY <1>1, <1>2, <1>3, <1>4, <1>5, <1>6, <1>7, <1>8, <1>9, <1>10, <1>11,
     <1>12, <1>13, <1>14, <1>15, <1>16, <1>17, <1>18, <1>19, <1>20, <1>21,
     <1>22, <1>23, <1>24, <1>25, <1>26
  DEF UserCall, MainStep

\* The steps of a Run thread.
LEMMA RunInv ==
  ASSUME SessionInv, UNCHANGED env, NEW t \in Thread, RunCall(t) \/ RunStep(t)
  PROVE  SessionInv'
<1> USE SessionAssumption
    DEF SessionInv, TypeOK, LockInv, UserInv, StageInv, FwInv, CleanInv,
        RunFlagMeansReady, MainHolds, RunHolds, InitChain, FreeChain, ExitChain,
        MaxCrash, RunState, InFirmware, userVars, lockVars, kernVars, mainVars,
        Step, Joined
<1>1. CASE RunCall(t) BY <1>1 DEF RunCall
<1>2. CASE RunCheck(t) BY <1>2 DEF RunCheck
<1>3. CASE RunLock(t) BY <1>3 DEF RunLock, Lock
<1>4. CASE RunEnter(t) BY <1>4 DEF RunEnter, Unlock
<1>5. CASE LoopTest(t) BY <1>5 DEF LoopTest, Unlock
<1>6. CASE Switch(t) BY <1>6 DEF Switch, Unlock
<1>7. CASE GetFrameEdge(t) BY <1>7 DEF GetFrameEdge
<1>8. CASE ClearEdge(t) BY <1>8 DEF ClearEdge
<1>9. CASE FwTest(t) BY <1>9 DEF FwTest, Unlock
<1>10. CASE FwRun(t) BY <1>10 DEF FwRun, Unlock
<1>11. CASE RunMask(t) BY <1>11 DEF RunMask
<1> QED
  BY <1>1, <1>2, <1>3, <1>4, <1>5, <1>6, <1>7, <1>8, <1>9, <1>10, <1>11 DEF
     RunStep

LEMMA SessionStep == SessionInv /\ [Next]_vars => SessionInv'
<1> SUFFICES ASSUME SessionInv, [Next]_vars PROVE SessionInv'
  OBVIOUS
<1> USE SessionAssumption
<1>1. CASE (UserCall \/ MainStep \/ Edge) /\ UNCHANGED env
  BY <1>1, MainInv
<1>2. CASE Crash /\ UNCHANGED env
  <2> USE <1>2 DEF Crash, kernVars
  <2>1. env' \in Environment /\ crashes' \in 0..MaxCrash'
    BY Bound DEF SessionInv, TypeOK, MaxCrash
  <2>2. TypeOK'
    BY <2>1 DEF SessionInv, TypeOK, MainState, RunState
  <2>3. LockInv' /\ UserInv' /\ FwInv'
    BY DEF SessionInv, LockInv, UserInv, FwInv, MainHolds, RunHolds, InFirmware,
       ExitChain
  <2>4. StageInv' /\ CleanInv' /\ RunFlagMeansReady'
    BY DEF SessionInv, StageInv, CleanInv, RunFlagMeansReady, InitChain,
       FreeChain, ExitChain
  <2> QED
    BY <2>1, <2>2, <2>3, <2>4 DEF SessionInv
<1>3. ASSUME NEW t \in Thread, RunCall(t) \/ RunStep(t), UNCHANGED env
      PROVE  SessionInv'
  BY <1>3, RunInv
<1>4. CASE UNCHANGED vars
  BY <1>4
  DEF vars, userVars, lockVars, kernVars, mainVars, SessionInv, TypeOK, LockInv,
      UserInv, StageInv, FwInv, CleanInv, RunFlagMeansReady, MainHolds,
      RunHolds, MaxCrash, InFirmware, Joined
<1> QED
  BY <1>1, <1>2, <1>3, <1>4 DEF Next

LEMMA Session == Spec => []SessionInv
BY SessionInit, SessionStep, PTL DEF Spec

\* The application thread masks the interrupt in Exit only, and leaves Exit
\* when no Run thread is left.
LEMMA MainInt ==
  ASSUME SessionInv, IntInv, UNCHANGED env, UserCall \/ MainStep \/ Edge
  PROVE  IntInv'
<1> USE DEF IntInv, IntOwned, Looping, SessionInv, TypeOK, StageInv, InitChain,
        FreeChain, ExitChain, Runners, Joined, userVars, lockVars, kernVars,
        mainVars, Goto
<1>1. CASE MemInit BY <1>1 DEF MemInit
<1>2. CASE InitCall BY <1>2 DEF InitCall
<1>3. CASE ExitCall BY <1>3 DEF ExitCall
<1>4. CASE OnceCall BY <1>4 DEF OnceCall
<1>5. CASE MemVreg BY <1>5 DEF MemVreg
<1>6. CASE MemSet BY <1>6 DEF MemSet
<1>7. CASE MemFails BY <1>7 DEF MemFails
<1>8. CASE InitBe BY <1>8 DEF InitBe
<1>9. CASE InitStat BY <1>9 DEF InitStat
<1>10. CASE InitFails BY <1>10 DEF InitFails
<1>11. CASE InitLock BY <1>11 DEF InitLock
<1>12. CASE InitSet BY <1>12 DEF InitSet
<1>13. CASE ExitLock BY <1>13 DEF ExitLock
<1>14. CASE ExitMask BY <1>14 DEF ExitMask
<1>15. CASE ExitState BY <1>15 DEF ExitState
<1>16. CASE ExitStat BY <1>16 DEF ExitStat
<1>17. CASE ExitBe BY <1>17 DEF ExitBe, AfterBe
<1>18. CASE BeFreed BY <1>18 DEF BeFreed, AfterBe
<1>19. CASE BeTimeout BY <1>19 DEF BeTimeout, AfterBe
<1>20. CASE ExitReset BY <1>20 DEF ExitReset
<1>21. CASE ExitDestroy BY <1>21 DEF ExitDestroy
<1>22. CASE Join BY <1>22 DEF Join
<1>23. CASE OnceLock BY <1>23 DEF OnceLock
<1>24. CASE OnceTest BY <1>24 DEF OnceTest
<1>25. CASE OnceRun BY <1>25 DEF OnceRun
<1>26. CASE Edge BY <1>26 DEF Edge
<1> QED
  BY <1>1, <1>2, <1>3, <1>4, <1>5, <1>6, <1>7, <1>8, <1>9, <1>10, <1>11,
     <1>12, <1>13, <1>14, <1>15, <1>16, <1>17, <1>18, <1>19, <1>20, <1>21,
     <1>22, <1>23, <1>24, <1>25, <1>26
  DEF UserCall, MainStep

LEMMA RunInt ==
  ASSUME SessionInv, IntInv, UNCHANGED env, NEW t \in Thread,
         RunCall(t) \/ RunStep(t)
  PROVE  IntInv'
<1> USE DEF IntInv, IntOwned, Looping, SessionInv, TypeOK, RunState, Runners,
        userVars, lockVars, kernVars, mainVars, Step
<1>1. CASE RunCall(t) BY <1>1 DEF RunCall
<1>2. CASE RunCheck(t) BY <1>2 DEF RunCheck
<1>3. CASE RunLock(t) BY <1>3 DEF RunLock
<1>4. CASE RunEnter(t) BY <1>4 DEF RunEnter
<1>5. CASE LoopTest(t) BY <1>5 DEF LoopTest
<1>6. CASE Switch(t) BY <1>6 DEF Switch
<1>7. CASE GetFrameEdge(t) BY <1>7 DEF GetFrameEdge
<1>8. CASE ClearEdge(t) BY <1>8 DEF ClearEdge
<1>9. CASE FwTest(t) BY <1>9 DEF FwTest
<1>10. CASE FwRun(t) BY <1>10 DEF FwRun
<1>11. CASE RunMask(t) BY <1>11 DEF RunMask
<1> QED
  BY <1>1, <1>2, <1>3, <1>4, <1>5, <1>6, <1>7, <1>8, <1>9, <1>10, <1>11 DEF
     RunStep

LEMMA IntStep == SessionInv /\ IntInv /\ [Next]_vars => IntInv'
<1> SUFFICES ASSUME SessionInv, IntInv, [Next]_vars PROVE IntInv'
  OBVIOUS
<1>1. CASE (UserCall \/ MainStep \/ Edge) /\ UNCHANGED env
  BY <1>1, MainInt
<1>2. CASE Crash /\ UNCHANGED env
  <2>1. crashes \in Nat
    BY Bound DEF SessionInv, TypeOK, MaxCrash
  <2> QED
    BY <1>2, <2>1 DEF Crash, IntInv, IntOwned, Looping
<1>3. ASSUME NEW t \in Thread, RunCall(t) \/ RunStep(t), UNCHANGED env
      PROVE  IntInv'
  BY <1>3, RunInt
<1>4. CASE UNCHANGED vars
  BY <1>4
  DEF vars, userVars, lockVars, kernVars, mainVars, IntInv, IntOwned, Looping,
      Runners
<1> QED
  BY <1>1, <1>2, <1>3, <1>4 DEF Next

-----------------------------------------------------------------------------
(* Theorems.                                                               *)

\* Every variable keeps its type.
THEOREM TypeCorrect == Spec => []TypeOK
<1>1. SessionInv => TypeOK
  BY DEF SessionInv
<1> QED
  BY <1>1, Session, PTL

\* The firmware runs only while the kernel buffers it uses exist and with
\* stLock held (HI_MPI_ISP_Exit, HI_MPI_ISP_Run, HI_ISP_RunOnce), and the
\* kernel's bIspRunFlag is set only while they exist, for any number of
\* Run threads, of deaths of the process and of time-outs.
THEOREM BuffersThere == Spec => []BuffersWhenUsed
<1>1. SessionInv => BuffersWhenUsed
  <2> SUFFICES ASSUME SessionInv PROVE FwSafe
    BY DEF SessionInv, BuffersWhenUsed
  <2>1. ASSUME uRunEn PROVE kBe = "ready" /\ kStat /\ kMem /\ mutex = "ok"
    BY <2>1 DEF SessionInv, UserInv, LockInv, RunFlagMeansReady, TypeOK
  <2>2. ASSUME NEW t \in Thread, InFirmware(t)
        PROVE  kBe = "ready" /\ kStat /\ kMem /\ owner = t
    BY <2>1, <2>2 DEF SessionInv, FwInv, LockInv, InFirmware, RunHolds
  <2>3. ASSUME main = "onceRun"
        PROVE  kBe = "ready" /\ kStat /\ kMem /\ owner = Main
    <3>1. uRunEn
      BY <2>3 DEF SessionInv, FwInv
    <3>2. MainHolds
      BY <2>3 DEF MainHolds
    <3> QED
      BY <2>1, <3>1, <3>2 DEF SessionInv, LockInv
  <2> QED
    BY <2>2, <2>3 DEF FwSafe
<1> QED
  BY <1>1, Session, PTL

\* The interrupt is unmasked only while a Run thread is there to mask it again,
\* and with one Run thread at a time no thread waits for a masked interrupt
\* but one that Exit is about to end (HI_MPI_ISP_Run, HI_MPI_ISP_Exit).
THEOREM IntGuardedAlways == Spec => []IntGuarded
<1>1. Init => IntInv
  BY DEF Init, IntInv, IntOwned, Looping
<1>2. IntInv => IntGuarded
  BY DEF IntInv, IntGuarded, WaitsUnmasked, Looping
<1> QED
  BY <1>1, <1>2, IntStep, Session, PTL DEF Spec

\* Wherever a process died, the MemInit of the next one leaves nothing in the
\* kernel that the dead one was running with (HI_MPI_ISP_MemInit).
THEOREM MemInitCleansUp == Spec => MemInitCleans
<1>1. SessionInv /\ MemSet => kBe # "ready" /\ ~kStat /\ ~kRunFlag
  BY DEF SessionInv, CleanInv, RunFlagMeansReady, MemSet
<1> QED
  BY <1>1, Session, PTL DEF Spec, MemInitCleans
=============================================================================
