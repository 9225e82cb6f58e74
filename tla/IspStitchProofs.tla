-------------------------- MODULE IspStitchProofs ---------------------------
(***************************************************************************)
(* Theorems about a group of stitched pipes, for any group and in every    *)
(* environment: type correctness, that whoever publishes for the group     *)
(* holds the lock and has a pipe left to publish, and that a careful       *)
(* application never has VI stitch configurations of two rounds.           *)
(***************************************************************************)
EXTENDS IspStitch, TLAPS

\* The lock of the group belongs to the one call or the one firmware that is
\* publishing, and that one has not come to the end of the group.
LockOwned ==
  /\ \A p \in Pipe : fw[p] = "publish" <=> (lock.by = p /\ ~lock.all)
  /\ \A p \in Pipe : ctl[p] = "publish" <=> (lock.by = p /\ lock.all)
  /\ lock.by = Nobody <=> lock = Released
  /\ lock.by # Nobody => lock.left # <<>>

StitchInv == TypeOK /\ LockOwned

LEMMA Group ==
  /\ Bind \in Seq(Pipe) /\ Bind # <<>> /\ Main \in Pipe /\ Nobody \notin Pipe
  /\ \A s \in Seq(Pipe) : s # <<>> => Head(s) \in Pipe /\ Tail(s) \in Seq(Pipe)
  /\ <<>> \in Seq(Pipe)
<1>1. Bind \in Seq(Pipe) /\ Bind # <<>> /\ Nobody \notin Pipe
  BY StitchAssumption
<1>2. 1 \in DOMAIN Bind
  BY <1>1
<1>3. Main \in Pipe
  BY <1>2 DEF Main, Pipe
<1> QED
  BY <1>1, <1>3

Lock == [by : Pipe \cup {Nobody}, all : BOOLEAN, left : Seq(Pipe),
         tested : BOOLEAN]

LEMMA Locks ==
  /\ Released \in Lock /\ Released.by = Nobody
  /\ ~Released.all /\ ~Released.tested
  /\ \A p \in Pipe, all \in BOOLEAN :
       Begin(p, all) => /\ lock' \in Lock
                        /\ lock'.by = p /\ lock'.all = all /\ lock'.left # <<>>
                        /\ lock' # Released
<1>1. Released \in Lock /\ Released.by = Nobody /\ ~Released.all
      /\ ~Released.tested
  BY Group DEF Released, Lock
<1>2. ASSUME NEW p \in Pipe, NEW all \in BOOLEAN, Begin(p, all)
      PROVE  /\ lock' \in Lock
             /\ lock'.by = p /\ lock'.all = all /\ lock'.left # <<>>
  BY <1>2, Group DEF Begin, Lock
<1>3. \A p \in Pipe : p # Nobody
  BY Group
<1> QED
  BY <1>1, <1>2, <1>3

LEMMA InitInv == Init => StitchInv
<1> SUFFICES ASSUME Init PROVE StitchInv
  OBVIOUS
<1>1. TypeOK
  BY Group, Locks DEF Init, TypeOK, InitState, ExitState, Lock
<1>2. LockOwned
  BY Group, Locks DEF Init, LockOwned
<1> QED
  BY <1>1, <1>2 DEF StitchInv

\* The calls that neither take nor release the lock.
LEMMA CallInv ==
  ASSUME StitchInv, NEW p \in Pipe,
         \/ MemInit(p) \/ InitCall(p) \/ InitBe(p) \/ InitCfg(p)
         \/ InitSync(p) \/ CopyFree(p) \/ InitDone(p) \/ InitFails(p)
         \/ ExitCall(p) \/ SyncExit(p) \/ ExitLock(p) \/ ExitBe(p)
         \/ ExitMem(p) \/ ResetCtx(p)
  PROVE  StitchInv'
<1> USE DEF StitchInv, TypeOK, LockOwned, Goto, kernVars, InitState, ExitState
<1>1. CASE MemInit(p) BY <1>1 DEF MemInit
<1>2. CASE InitCall(p) BY <1>2 DEF InitCall
<1>3. CASE InitBe(p) BY <1>3 DEF InitBe
<1>4. CASE InitCfg(p) BY <1>4 DEF InitCfg
<1>5. CASE InitSync(p) BY <1>5 DEF InitSync
<1>6. CASE CopyFree(p) BY <1>6 DEF CopyFree
<1>7. CASE InitDone(p) BY <1>7 DEF InitDone
<1>8. CASE InitFails(p) BY <1>8 DEF InitFails
<1>9. CASE ExitCall(p) BY <1>9 DEF ExitCall
<1>10. CASE SyncExit(p) BY <1>10 DEF SyncExit
<1>11. CASE ExitLock(p) BY <1>11 DEF ExitLock
<1>12. CASE ExitBe(p) BY <1>12 DEF ExitBe
<1>13. CASE ExitMem(p) BY <1>13 DEF ExitMem
<1>14. CASE ResetCtx(p) BY <1>14 DEF ResetCtx
<1> QED
  BY <1>1, <1>2, <1>3, <1>4, <1>5, <1>6, <1>7, <1>8, <1>9, <1>10, <1>11,
     <1>12, <1>13, <1>14

\* The last pipe to be initialised takes the lock when it is free.
LEMMA WriteAllInv ==
  ASSUME StitchInv, NEW p \in Pipe, WriteAll(p)
  PROVE  StitchInv'
<1> USE DEF WriteAll, Goto, kernVars, SyncFree
<1>1. CASE \A q \in Pipe : sync[q]
  <2>1. Begin(p, TRUE) /\ ctl' = [ctl EXCEPT ![p] = "publish"]
    BY <1>1
  <2>2. lock' \in Lock /\ lock'.by = p /\ lock'.all /\ lock'.left # <<>>
        /\ lock' # Released
    BY <2>1, Locks
  <2>3. TypeOK'
    BY <2>1, <2>2 DEF StitchInv, TypeOK, Lock, InitState, ExitState
  <2>4. LockOwned'
    BY <2>1, <2>2, Group, Locks DEF StitchInv, TypeOK, LockOwned
  <2> QED
    BY <2>3, <2>4 DEF StitchInv
<1>2. CASE ~ \A q \in Pipe : sync[q]
  BY <1>2 DEF StitchInv, TypeOK, LockOwned, InitState, ExitState
<1> QED
  BY <1>1, <1>2

LEMMA FirmwareInv ==
  ASSUME StitchInv, NEW p \in Pipe, Firmware(p) \/ NoStatistics(p)
  PROVE  StitchInv'
<1> USE DEF StitchInv, TypeOK, LockOwned, appVars, kernVars, InitState,
            ExitState, SyncFree, Starting
<1>1. CASE RunStart(p) BY <1>1 DEF RunStart
<1>2. CASE RunEnd(p) BY <1>2 DEF RunEnd
<1>3. CASE FwBegin(p) BY <1>3 DEF FwBegin
<1>4. CASE RunState(p)
  <2> USE <1>4 DEF RunState
  <2>1. CASE state[p] = "INIT"
    BY <2>1
  <2>2. CASE state[p] # "INIT"
    BY <2>2
  <2> QED
    BY <2>1, <2>2
<1>5. CASE NoStatistics(p) BY <1>5 DEF NoStatistics
<1>6. CASE StitchBeBufCtl(p)
  <2> USE <1>6 DEF StitchBeBufCtl
  <2>1. CASE state[p] = "RUNNING"
               /\ \A q \in Pipe : init[q] /\ (q # p => state[q] = "FINISH")
    <3>1. fw' = [fw EXCEPT ![p] = "publish"] /\ Begin(p, FALSE)
      BY <2>1
    <3>2. lock' \in Lock /\ lock'.by = p /\ ~lock'.all /\ lock'.left # <<>>
          /\ lock' # Released
      BY <3>1, Locks
    <3>3. TypeOK'
      BY <3>1, <3>2 DEF Lock
    <3>4. LockOwned'
      BY <3>1, <3>2, Group, Locks
    <3> QED
      BY <3>3, <3>4
  <2>2. CASE ~(state[p] = "RUNNING"
                 /\ \A q \in Pipe : init[q] /\ (q # p => state[q] = "FINISH"))
    <3>1. fw' = [fw EXCEPT ![p] = "wait"] /\ UNCHANGED lock
      BY <2>2
    <3> QED
      BY <3>1
  <2> QED
    BY <2>1, <2>2
<1> QED
  BY <1>1, <1>2, <1>3, <1>4, <1>5, <1>6 DEF Firmware

\* A publisher that leaves its loop releases the lock and goes on.
LEMMA ReturnInv ==
  ASSUME StitchInv, lock.by # Nobody, NEW ok \in BOOLEAN,
         NEW fws \in [Pipe -> {"none", "wait", "got", "lost", "write", "stray",
                               "publish"}],
         \A p \in Pipe : fws[p] = "publish" <=> fw[p] = "publish",
         Return(ok, fws)
  PROVE  /\ lock' \in Lock
         /\ ctl' \in [Pipe -> {"down", "mem", "up"} \cup InitState \cup ExitState]
         /\ fw' \in [Pipe -> {"none", "wait", "got", "lost", "write", "stray",
                              "publish"}]
         /\ LockOwned'
<1>1. lock.by \in Pipe /\ lock' = Released /\ lock' \in Lock
  BY Locks DEF Return, StitchInv, TypeOK, Lock
<1>2. lock'.by = Nobody /\ ~lock'.all /\ Nobody \notin Pipe
  BY <1>1, Locks, Group
<1>3. CASE lock.all
  <2>1. fw' = fws /\ ctl' = [ctl EXCEPT ![lock.by] = IF ok THEN "done" ELSE "fail"]
    BY <1>3 DEF Return
  <2>2. \A p \in Pipe : fw'[p] # "publish" /\ ctl'[p] # "publish"
    BY <1>1, <1>3, <2>1 DEF StitchInv, TypeOK, LockOwned
  <2> QED
    BY <1>1, <1>2, <2>1, <2>2 DEF StitchInv, TypeOK, LockOwned, InitState, Lock
<1>4. CASE ~lock.all
  <2>1. fw' = [fws EXCEPT ![lock.by] = "wait"] /\ ctl' = ctl
    BY <1>4 DEF Return
  <2>2. \A p \in Pipe : fw'[p] # "publish" /\ ctl'[p] # "publish"
    BY <1>1, <1>4, <2>1 DEF StitchInv, TypeOK, LockOwned
  <2> QED
    BY <1>1, <1>2, <2>1, <2>2 DEF StitchInv, TypeOK, LockOwned, Lock
<1> QED
  BY <1>3, <1>4

LEMMA PublishInv ==
  ASSUME StitchInv, Publish
  PROVE  StitchInv'
<1> DEFINE q == Head(lock.left)
<1>1. CASE PublishTest
  <2>1. lock.by # Nobody
    BY <1>1 DEF StitchInv, LockOwned, PublishTest, SyncFree
  <2>2. CASE be[q] /\ (lock.all => node[q] # "none")
    <3>1. lock' = [lock EXCEPT !.tested = TRUE] /\ UNCHANGED <<ctl, fw>>
      BY <1>1, <2>2 DEF PublishTest
    <3>2. lock' \in Lock /\ lock'.by = lock.by /\ lock'.all = lock.all
          /\ lock'.left = lock.left
      BY <3>1 DEF StitchInv, TypeOK, Lock
    <3>3. lock' # Released
      BY <2>1, <3>2, Locks
    <3>4. TypeOK'
      BY <1>1, <3>1, <3>2 DEF StitchInv, TypeOK, PublishTest, kernVars, Lock
    <3> QED
      BY <2>1, <3>1, <3>2, <3>3, <3>4 DEF StitchInv, LockOwned
  <2>3. CASE ~(be[q] /\ (lock.all => node[q] # "none"))
    <3>1. Return(FALSE, fw)
      BY <1>1, <2>3 DEF PublishTest
    <3> QED
      BY <1>1, <2>1, <3>1, ReturnInv DEF StitchInv, TypeOK, PublishTest,
         kernVars, Lock
  <2> QED
    BY <2>2, <2>3
<1>2. CASE PublishPut
  <2> DEFINE fws == [fw EXCEPT ![q] = Without(@)]
  <2>1. lock.by # Nobody /\ lock.left # <<>> /\ q \in Pipe
        /\ Tail(lock.left) \in Seq(Pipe)
    BY <1>2, Group, Locks DEF StitchInv, TypeOK, LockOwned, PublishPut
  <2>2. /\ fws \in [Pipe -> {"none", "wait", "got", "lost", "write", "stray",
                             "publish"}]
        /\ \A p \in Pipe : fws[p] = "publish" <=> fw[p] = "publish"
    BY <2>1 DEF StitchInv, TypeOK, Without
  <2>3. /\ env' \in Environment /\ goal' \in [Pipe -> BOOLEAN]
        /\ mem' \in [Pipe -> BOOLEAN] /\ init' \in [Pipe -> BOOLEAN]
        /\ sync' \in [Pipe -> BOOLEAN] /\ be' \in [Pipe -> BOOLEAN]
        /\ state' \in [Pipe -> {"INIT", "RUNNING", "FINISH", "SWITCH"}]
        /\ node' \in [Pipe -> {"none", "old", "whole"}]
        /\ edge' \in [Pipe -> BOOLEAN] /\ turn' \in [Pipe -> BOOLEAN]
        /\ intEn' \in BOOLEAN /\ isr' \in Seq(Pipe) /\ taken' \in BOOLEAN
    BY <1>2, <2>1 DEF StitchInv, TypeOK, PublishPut, Put
  <2>4. CASE Tail(lock.left) = <<>>
    <3> HIDE DEF fws
    <3>1. Return(TRUE, fws)
      BY <1>2, <2>4 DEF PublishPut, Put, fws
    <3> QED
      BY <2>1, <2>2, <2>3, <3>1, ReturnInv DEF StitchInv, TypeOK, Lock
  <2>5. CASE Tail(lock.left) # <<>>
    <3> HIDE DEF fws
    <3>1. /\ lock' = [lock EXCEPT !.left = Tail(@), !.tested = FALSE]
          /\ fw' = fws /\ UNCHANGED ctl
      BY <1>2, <2>5 DEF PublishPut, Put, fws
    <3> QED
      <4>1. lock' \in Lock /\ lock'.by = lock.by /\ lock'.all = lock.all
            /\ lock'.left = Tail(lock.left)
        BY <2>1, <3>1 DEF StitchInv, TypeOK, Lock
      <4>2. lock' # Released
        BY <2>1, <4>1, Locks
      <4>3. TypeOK'
        BY <2>2, <2>3, <3>1, <4>1 DEF StitchInv, TypeOK, Lock
      <4> QED
        BY <2>1, <2>2, <2>5, <3>1, <4>1, <4>2, <4>3
        DEF StitchInv, LockOwned
  <2> QED
    BY <2>4, <2>5
<1> QED
  BY <1>1, <1>2 DEF Publish

LEMMA HandlerInv ==
  ASSUME StitchInv, Handler
  PROVE  StitchInv'
<1> USE DEF StitchInv, TypeOK, LockOwned, appVars, kernVars, InitState,
            ExitState
<1>1. CASE IsrBegin BY <1>1, Group DEF IsrBegin
<1>2. CASE IsrTake BY <1>2, Group DEF IsrTake
<1>3. CASE IsrPass BY <1>3, Group DEF IsrPass, WakeUp
<1>4. CASE IsrWake BY <1>4, Group DEF IsrWake, WakeUp
<1> QED
  BY <1>1, <1>2, <1>3, <1>4 DEF Handler

LEMMA StepInv == StitchInv /\ [Next]_vars => StitchInv'
<1> SUFFICES ASSUME StitchInv, [Next]_vars PROVE StitchInv'
  OBVIOUS
<1>1. CASE Want
  <2>1. PICK ps : Change(ps)
    BY <1>1 DEF Want
  <2>2. goal' \in [Pipe -> BOOLEAN]
    BY <2>1 DEF Change, StitchInv, TypeOK
  <2> QED
    BY <2>1, <2>2 DEF Change, StitchInv, TypeOK, LockOwned, kernVars
<1>2. ASSUME NEW p \in Pipe, Call(p) \/ Firmware(p) \/ NoStatistics(p)
      PROVE  StitchInv'
  BY <1>2, CallInv, WriteAllInv, FirmwareInv DEF Call
<1>3. CASE Publish BY <1>3, PublishInv
<1>4. CASE Handler BY <1>4, HandlerInv
<1>5. CASE UNCHANGED vars
  BY <1>5 DEF vars, appVars, kernVars, StitchInv, TypeOK, LockOwned
<1> QED
  BY <1>1, <1>2, <1>3, <1>4, <1>5 DEF Next

\* Every variable keeps its type, for a group of any size.
THEOREM TypeCorrect == Spec => []TypeOK
<1>1. Spec => []StitchInv
  BY InitInv, StepInv, PTL DEF Spec
<1> QED
  BY <1>1, PTL DEF StitchInv

\* Whoever publishes for the group, a call of Init or a firmware, is the only
\* one and holds g_stIspSyncLock of the main pipe; no loop over the group runs
\* past its end (isp.c, ISP_DRV_StitchBeBufCtl, ISP_DRV_StitchWriteBeBufAll).
THEOREM OnePublisher == Spec => []LockOwned
<1>1. Spec => []StitchInv
  BY InitInv, StepInv, PTL DEF Spec
<1> QED
  BY <1>1, PTL DEF StitchInv
-----------------------------------------------------------------------------
(* The rounds of a group that is started and stopped with care.            *)

HasQueue == {"cfg", "sync", "copy", "all", "publish", "done", "up"}
Synced   == {"copy", "all", "publish", "done", "up"}

\* What the kernel and the process know of a pipe follows from where its calls
\* are; pipes are started one at a time, and the main pipe goes first when
\* the group is stopped, so that no other is missing before it is.
CallInOrder(p) ==
  /\ goal[p] = goal[Main]
  /\ goal[p] => /\ ctl[p] \notin ExitState \cup {"fail"}
                /\ sync[p] <=> ctl[p] \in Synced
  /\ ~goal[p] => ctl[p] \notin InitState
  /\ mem[p] <=> ctl[p] \notin {"reset", "down"}
  /\ ctl[p] \in HasQueue => be[p]
  /\ ctl[p] \in {"down", "mem", "be", "forget", "reset"} => ~be[p]
  /\ ctl[p] = "up" => init[p]
  /\ init[p] => ctl[p] \in {"up"} \cup ExitState
  /\ init[p] /\ ctl[p] \in {"stop", "lock", "exit"} => be[p]
  /\ ~init[p] => ~edge[p]
  /\ p # Main /\ ~goal[p] => \/ ctl[p] \in {"mem", "up", "stop"}
                             \/ ctl[Main] \in {"reset", "down"}
  /\ ~goal[p] /\ ctl[Main] = "down" => ~sync[p]
  /\ ctl[p] = "publish" => \A q \in Pipe : sync[q]

CallsInv ==
  /\ \A p \in Pipe : CallInOrder(p)
  /\ \A p, q \in Pipe : ctl[p] \in InitState /\ ctl[q] \in InitState => p = q

\* While the handler routes the pipes or somebody publishes, no firmware has
\* a node in its hands.
OneRuns ==
  /\ lock # Released => isr = <<>>
  /\ taken => isr # <<>>
  /\ isr # <<>> => \A p \in Pipe : init[p] /\ ~Starting(p)
  /\ lock # Released => \A p \in Pipe : fw[p] \in {"none", "wait", "publish"}

\* The firmware of a pipe has a node, and the running state says what it does
\* with it; a pipe that has finished has a whole configuration in its node.
FirmwareOwns ==
  \A p \in Pipe :
    /\ fw[p] \notin {"lost", "stray"}
    /\ fw[p] = "got" => state[p] = "INIT" /\ node[p] # "none"
    /\ fw[p] = "write" <=> state[p] = "RUNNING"
    /\ fw[p] = "write" => node[p] # "none"
    /\ state[p] = "FINISH" => node[p] = "whole"
    /\ edge[p] => state[p] = "INIT" /\ ~Starting(p)
    /\ goal[p] /\ (\E q \in Pipe : ~init[q])
         => fw[p] \in {"none", "wait"} /\ ~edge[p]

\* While a group is being started nothing is published before all pipes are
\* ready for it.
Rising ==
  goal[Main] /\ \E q \in Pipe : ~sync[q] \/ ctl[q] \in {"copy", "all"}

RisingInv ==
  Rising => \A p \in Pipe :
    /\ ctl[p] \in {"sync"} \cup Synced => node[p] = "whole"
    /\ be[p] => ~turn[p]

\* The loop over the group: what is left to publish is whole, and the loop
\* goes past the main pipe only when no pipe is missing.
LoopInv ==
  lock # Released =>
    /\ \A i, j \in DOMAIN lock.left : lock.left[i] = lock.left[j] => i = j
    /\ Main \in LeftToPublish => lock.left = Bind
    /\ \A q \in LeftToPublish : node[q] = "whole" /\ (lock.all => be[q])
    /\ lock.tested => be[Head(lock.left)]
    /\ ~lock.all => \A q \in Pipe : init[q]
    /\ Main \notin LeftToPublish => be[Main]

\* The turns differ between the pipes published and those left.
TurnsInv ==
  \A p, q \in Pipe : be[p] /\ be[q] =>
    (turn[p] = turn[q] <=> (p \in LeftToPublish <=> q \in LeftToPublish))

RoundInv ==
  CallsInv /\ OneRuns /\ FirmwareOwns /\ RisingInv /\ LoopInv /\ TurnsInv

LEMMA Alone ==
  ASSUME StitchInv, Careful, RoundInv, ThreadRuns
  PROVE  /\ lock = Released /\ isr = <<>> /\ ~taken
         /\ LeftToPublish = {}
         /\ \A p \in Pipe : fw[p] # "publish" /\ ctl[p] # "publish"
<1>1. lock = Released /\ isr = <<>> /\ ~taken
  BY DEF Careful, ThreadRuns, SyncFree, RoundInv, OneRuns
<1>2. lock.left = <<>> /\ lock.by = Nobody
  BY <1>1 DEF Released
<1>3. LeftToPublish = {}
  BY <1>2 DEF LeftToPublish
<1> QED
  BY <1>1, <1>2, <1>3, Group DEF StitchInv, LockOwned

LEMMA InitRounds == Init => RoundInv
<1> SUFFICES ASSUME Init PROVE RoundInv
  OBVIOUS
<1>1. lock = Released /\ LeftToPublish = {}
  BY DEF Init, Released, LeftToPublish
<1>2. CallsInv
  <2>1. \A p \in Pipe : goal[p] = TRUE /\ ctl[p] = "down" /\ ~mem[p] /\ ~init[p]
                        /\ ~sync[p] /\ ~be[p] /\ ~edge[p]
    BY DEF Init
  <2> QED
    BY <2>1, Group
    DEF CallsInv, CallInOrder, InitState, ExitState, Synced, HasQueue
<1>3. OneRuns /\ FirmwareOwns
  BY <1>1 DEF Init, OneRuns, FirmwareOwns, Starting
<1>4. RisingInv /\ LoopInv /\ TurnsInv
  <2>1. \A p \in Pipe : ctl[p] = "down" /\ ~be[p]
    BY DEF Init
  <2> QED
    BY <1>1, <2>1 DEF RisingInv, LoopInv, TurnsInv, Synced
<1> QED
  BY <1>2, <1>3, <1>4 DEF RoundInv

\* A call that neither publishes nor has to do with the configurations.
LEMMA CallCalls ==
  ASSUME StitchInv, Careful, RoundInv, NEW p \in Pipe,
         \/ MemInit(p) \/ InitCall(p) \/ InitBe(p) \/ InitCfg(p)
         \/ InitSync(p) \/ CopyFree(p) \/ WriteAll(p) \/ InitDone(p)
         \/ InitFails(p) \/ ExitCall(p) \/ SyncExit(p) \/ ExitLock(p)
         \/ ExitBe(p) \/ ExitMem(p) \/ ResetCtx(p)
  PROVE  CallsInv'
<1>0. TypeOK /\ CallsInv /\ Main \in Pipe /\ env.serial
  BY Group DEF StitchInv, RoundInv, Careful
<1> USE DEF TypeOK, CallsInv, CallInOrder, Goto, kernVars, InitState,
            ExitState, Synced, HasQueue
<1>1. CASE MemInit(p) BY <1>0, <1>1 DEF MemInit
<1>2. CASE InitCall(p) BY <1>0, <1>2 DEF InitCall
<1>3. CASE InitBe(p) BY <1>0, <1>3 DEF InitBe
<1>4. CASE InitCfg(p) BY <1>0, <1>4 DEF InitCfg
<1>5. CASE InitSync(p) BY <1>0, <1>5 DEF InitSync
<1>7. CASE InitDone(p) BY <1>0, <1>7 DEF InitDone
<1>8. CASE InitFails(p) BY <1>0, <1>8 DEF InitFails
<1>9. CASE ExitCall(p) BY <1>0, <1>9 DEF ExitCall
<1>10. CASE SyncExit(p) BY <1>0, <1>10 DEF SyncExit
<1>11. CASE ExitLock(p) BY <1>0, <1>11 DEF ExitLock
<1>12. CASE ExitBe(p) BY <1>0, <1>12 DEF ExitBe
<1>13. CASE ExitMem(p) BY <1>0, <1>13 DEF ExitMem
<1>14. CASE ResetCtx(p) BY <1>0, <1>14 DEF ResetCtx
<1>6. CASE CopyFree(p)
  <2>1. ThreadRuns /\ ctl[p] = "copy" /\ goal[Main]
    BY <1>0, <1>6 DEF CopyFree
  <2>2. node[p] = "whole" /\ be[p]
    BY <1>0, <2>1 DEF RoundInv, RisingInv, Rising
  <2>3. ctl' = [ctl EXCEPT ![p] = "all"]
    BY <1>6, <2>2 DEF CopyFree
  <2>4. UNCHANGED <<goal, mem, init, sync, be, edge>>
    BY <1>6 DEF CopyFree
  <2>5. \A q \in Pipe : ctl'[q] = IF q = p THEN "all" ELSE ctl[q]
    BY <1>0, <2>3
  <2>6. \A q \in Pipe : ctl[q] # "publish"
    BY <1>0, <2>1
  <2>7. ASSUME NEW q \in Pipe PROVE CallInOrder(q)'
    <3>1. CASE q = p
      BY <1>0, <2>1, <2>4, <2>5, <3>1
    <3>2. CASE q # p
      BY <1>0, <2>1, <2>4, <2>5, <2>6, <3>2
    <3> QED
      BY <3>1, <3>2
  <2>8. \A q, r \in Pipe :
          ctl'[q] \in InitState /\ ctl'[r] \in InitState => q = r
    <3>1. \A q \in Pipe : ctl'[q] \in InitState => ctl[q] \in InitState
      BY <2>1, <2>5
    <3> QED
      BY <1>0, <3>1
  <2> QED
    BY <2>7, <2>8
<1>15. CASE WriteAll(p)
  <2>0. UNCHANGED <<goal, mem, init, sync, be, edge>> /\ ctl[p] = "all"
    BY <1>15 DEF WriteAll
  <2>1. CASE \A q \in Pipe : sync[q]
    <3>1. ctl' = [ctl EXCEPT ![p] = "publish"]
      BY <1>15, <2>1 DEF WriteAll
    <3> QED
      BY <1>0, <2>0, <2>1, <3>1
  <2>2. CASE ~ \A q \in Pipe : sync[q]
    BY <1>0, <1>15, <2>2 DEF WriteAll
  <2> QED
    BY <2>1, <2>2
<1> QED
  BY <1>1, <1>2, <1>3, <1>4, <1>5, <1>6, <1>7, <1>8, <1>9, <1>10, <1>11,
     <1>12, <1>13, <1>14, <1>15

\* Outside the loop over the group only these matter.
LEMMA NobodyPublishes ==
  ASSUME lock' = Released, UNCHANGED <<isr, taken>>, isr = <<>>, ~taken,
         FirmwareOwns', RisingInv',
         \A p, q \in Pipe : be'[p] /\ be'[q] => turn'[p] = turn'[q]
  PROVE  OneRuns' /\ FirmwareOwns' /\ RisingInv' /\ LoopInv' /\ TurnsInv'
<1>1. lock'.left = <<>>
  BY DEF Released
<1>2. LeftToPublish' = {}
  BY <1>1 DEF LeftToPublish
<1> QED
  BY <1>2 DEF OneRuns, LoopInv, TurnsInv

\* What every call but WriteAll leaves.
LEMMA CallRounds ==
  ASSUME StitchInv, StitchInv', Careful, RoundInv, NEW p \in Pipe,
         \/ MemInit(p) \/ InitCall(p) \/ InitBe(p) \/ InitCfg(p)
         \/ InitSync(p) \/ CopyFree(p) \/ InitDone(p) \/ InitFails(p)
         \/ ExitCall(p) \/ SyncExit(p) \/ ExitLock(p) \/ ExitBe(p)
         \/ ExitMem(p) \/ ResetCtx(p)
  PROVE  OneRuns' /\ FirmwareOwns' /\ RisingInv' /\ LoopInv' /\ TurnsInv'
<1>0. /\ TypeOK /\ CallsInv /\ FirmwareOwns /\ RisingInv /\ TurnsInv
      /\ Main \in Pipe
  BY Group DEF StitchInv, RoundInv
<1>1. ThreadRuns /\ UNCHANGED <<isr, taken, lock, goal, fw>>
  BY DEF MemInit, InitCall, InitBe, InitCfg, InitSync, CopyFree, InitDone,
     InitFails, ExitCall, SyncExit, ExitLock, ExitBe, ExitMem, ResetCtx, Goto,
     kernVars
<1>2. /\ lock = Released /\ isr = <<>> /\ ~taken /\ LeftToPublish = {}
      /\ \A q \in Pipe : fw[q] # "publish" /\ ctl[q] # "publish"
  BY <1>1, Alone
<1>3. \A q, r \in Pipe : be[q] /\ be[r] => turn[q] = turn[r]
  BY <1>0, <1>2 DEF TurnsInv
<1> DEFINE Turns == \A q, r \in Pipe : be'[q] /\ be'[r] => turn'[q] = turn'[r]
<1>4. SUFFICES FirmwareOwns' /\ RisingInv' /\ Turns
  BY <1>1, <1>2, NobodyPublishes
<1>5. CASE \/ MemInit(p) \/ InitCall(p) \/ CopyFree(p) \/ ExitCall(p)
           \/ SyncExit(p) \/ ExitLock(p) \/ ExitMem(p)
  <2>1. UNCHANGED <<state, node, edge, turn, be, init, sync>>
    BY <1>5 DEF MemInit, InitCall, CopyFree, ExitCall, SyncExit, ExitLock,
       ExitMem, kernVars
  <2>2. FirmwareOwns' /\ Turns
    BY <1>0, <1>1, <1>3, <2>1 DEF FirmwareOwns, Starting
  <2>3. /\ \A q \in Pipe : ctl'[q] \in {"copy", "all"}
                             => ctl[q] \in {"copy", "all"}
        /\ \A q \in Pipe : ctl'[q] \in {"sync"} \cup Synced
                             => ctl[q] \in {"sync"} \cup Synced
    <3> USE <1>0 DEF TypeOK, Goto, Synced, CallsInv, CallInOrder, InitState,
                     ExitState
    <3>1. CASE MemInit(p) BY <3>1 DEF MemInit
    <3>2. CASE InitCall(p) BY <3>2 DEF InitCall
    <3>3. CASE CopyFree(p) BY <3>3 DEF CopyFree
    <3>4. CASE ExitCall(p) BY <3>4 DEF ExitCall
    <3>5. CASE SyncExit(p) BY <3>5 DEF SyncExit
    <3>6. CASE ExitLock(p) BY <3>6 DEF ExitLock
    <3>7. CASE ExitMem(p) BY <3>7 DEF ExitMem
    <3> QED
      BY <1>5, <3>1, <3>2, <3>3, <3>4, <3>5, <3>6, <3>7
  <2>4. Rising' => Rising
    BY <1>1, <2>1, <2>3 DEF Rising
  <2> QED
    BY <1>0, <2>1, <2>2, <2>3, <2>4 DEF RisingInv
<1>6. CASE InitBe(p)
  <2>1. /\ ctl[p] = "be" /\ ctl' = [ctl EXCEPT ![p] = "cfg"]
        /\ be' = [be EXCEPT ![p] = TRUE]
        /\ node' = [node EXCEPT ![p] = "old"]
        /\ state' = [state EXCEPT ![p] = "INIT"]
        /\ turn' = [turn EXCEPT ![p] = FALSE]
        /\ UNCHANGED <<edge, init, sync>>
    BY <1>6 DEF InitBe, Goto
  <2>2. goal[p] /\ goal[Main] /\ ~sync[p] /\ ~init[p] /\ ~edge[p]
    BY <1>0, <2>1
    DEF CallsInv, CallInOrder, InitState, ExitState, Synced
  <2>3. fw[p] \in {"none", "wait"}
    BY <1>0, <2>2 DEF FirmwareOwns
  <2>4. Rising
    BY <2>2 DEF Rising
  <2>5. FirmwareOwns'
    BY <1>0, <1>1, <2>1, <2>2, <2>3 DEF FirmwareOwns, Starting, TypeOK
  <2>6. RisingInv'
    BY <1>0, <2>1, <2>4 DEF RisingInv, TypeOK, Synced
  <2>7. Turns
    BY <1>0, <2>1, <2>4 DEF RisingInv, TypeOK
  <2> QED
    BY <2>5, <2>6, <2>7
<1>7. CASE InitCfg(p)
  <2>1. /\ ctl[p] = "cfg" /\ ctl' = [ctl EXCEPT ![p] = "sync"]
        /\ node' = [node EXCEPT ![p] = "whole"]
        /\ state' = [state EXCEPT ![p] = "SWITCH"]
        /\ UNCHANGED <<edge, init, sync, be, turn>>
    BY <1>7 DEF InitCfg, Goto
  <2>2. goal[p] /\ goal[Main] /\ ~sync[p] /\ ~init[p] /\ ~edge[p]
    BY <1>0, <2>1
    DEF CallsInv, CallInOrder, InitState, ExitState, Synced
  <2>3. fw[p] \in {"none", "wait"}
    BY <1>0, <2>2 DEF FirmwareOwns
  <2>4. Rising
    BY <2>2 DEF Rising
  <2>5. FirmwareOwns'
    BY <1>0, <1>1, <2>1, <2>2, <2>3 DEF FirmwareOwns, Starting, TypeOK
  <2>6. RisingInv'
    BY <1>0, <2>1, <2>4 DEF RisingInv, TypeOK, Synced
  <2> QED
    BY <1>3, <2>1, <2>5, <2>6
<1>8. CASE InitSync(p)
  <2>1. /\ ctl[p] = "sync" /\ ctl' = [ctl EXCEPT ![p] = "copy"]
        /\ UNCHANGED <<edge, init, state, node, be, turn>>
    BY <1>8 DEF InitSync, Goto
  <2>2. goal[Main] /\ ~sync[p]
    BY <1>0, <2>1
    DEF CallsInv, CallInOrder, InitState, ExitState, Synced
  <2>3. Rising
    BY <2>2 DEF Rising
  <2>4. FirmwareOwns'
    BY <1>0, <1>1, <2>1 DEF FirmwareOwns, Starting
  <2>5. RisingInv'
    BY <1>0, <2>1, <2>3 DEF RisingInv, TypeOK, Synced
  <2> QED
    BY <1>3, <2>1, <2>4, <2>5
<1>9. CASE InitDone(p)
  <2>1. /\ ctl[p] = "done" /\ ctl' = [ctl EXCEPT ![p] = "up"]
        /\ init' = [init EXCEPT ![p] = TRUE]
        /\ UNCHANGED <<edge, sync, state, node, be, turn>>
    BY <1>9 DEF InitDone, Goto
  <2>2. FirmwareOwns'
    BY <1>0, <1>1, <2>1 DEF FirmwareOwns, Starting, TypeOK
  <2>3. Rising' => Rising
    BY <1>0, <1>1, <2>1 DEF Rising, TypeOK
  <2>4. RisingInv'
    BY <1>0, <2>1, <2>3 DEF RisingInv, TypeOK, Synced
  <2> QED
    BY <1>3, <2>1, <2>2, <2>4
<1>10. ~InitFails(p)
  BY <1>0 DEF InitFails, Goto, CallsInv, CallInOrder, InitState
<1>11. CASE ExitBe(p) \/ ResetCtx(p)
  <2>1. ctl[p] \in ExitState
    BY <1>11 DEF ExitBe, ResetCtx, Goto, ExitState
  <2>2. \A q \in Pipe : ~goal[q]
    BY <1>0, <2>1 DEF CallsInv, CallInOrder
  <2>3. ~Rising'
    BY <1>0, <1>1, <2>2 DEF Rising
  <2>4. /\ UNCHANGED <<state, node, turn>>
        /\ \A q \in Pipe : (edge'[q] => edge[q]) /\ (be'[q] => be[q])
    BY <1>0, <1>11 DEF ExitBe, ResetCtx, TypeOK
  <2>5. FirmwareOwns'
    BY <1>0, <1>1, <2>2, <2>4 DEF FirmwareOwns, Starting
  <2> QED
    BY <1>3, <2>3, <2>4, <2>5 DEF RisingInv
<1> QED
  BY <1>5, <1>6, <1>7, <1>8, <1>9, <1>10, <1>11

\* A publisher begins with the whole group.
LEMMA LoopBegins ==
  ASSUME NEW p \in Pipe, NEW all \in BOOLEAN, Begin(p, all)
  PROVE  /\ lock' # Released /\ lock'.left = Bind /\ lock'.all = all
         /\ ~lock'.tested
         /\ LeftToPublish' = Pipe
         /\ \A i, j \in DOMAIN lock'.left :
              lock'.left[i] = lock'.left[j] => i = j
<1>1. lock' # Released /\ lock'.left = Bind /\ lock'.all = all /\ ~lock'.tested
  BY Locks DEF Begin
<1>2. LeftToPublish' = Pipe
  BY <1>1 DEF LeftToPublish, Pipe
<1> QED
  BY <1>1, <1>2, StitchAssumption

\* The last pipe of the group to be initialised finds all of them whole.
LEMMA WriteAllRounds ==
  ASSUME StitchInv, StitchInv', Careful, RoundInv, NEW p \in Pipe, WriteAll(p)
  PROVE  OneRuns' /\ FirmwareOwns' /\ RisingInv' /\ LoopInv' /\ TurnsInv'
<1>0. /\ TypeOK /\ CallsInv /\ FirmwareOwns /\ RisingInv /\ TurnsInv
      /\ Main \in Pipe
  BY Group DEF StitchInv, RoundInv
<1>1. /\ ThreadRuns /\ ctl[p] = "all"
      /\ UNCHANGED <<isr, taken, goal, fw, init, sync, be, state, node, edge,
                     turn>>
  BY DEF WriteAll, Goto, kernVars
<1>2. /\ lock = Released /\ isr = <<>> /\ ~taken /\ LeftToPublish = {}
      /\ \A q \in Pipe : fw[q] # "publish" /\ ctl[q] # "publish"
  BY <1>1, Alone
<1>3. goal[Main] /\ goal[p] /\ ~init[p]
  BY <1>0, <1>1 DEF CallsInv, CallInOrder, InitState, ExitState
<1>4. Rising
  BY <1>1, <1>3 DEF Rising
<1>5. FirmwareOwns'
  BY <1>0, <1>1 DEF FirmwareOwns, Starting
<1>6. CASE \A q \in Pipe : sync[q]
  <2>1. Begin(p, TRUE) /\ ctl' = [ctl EXCEPT ![p] = "publish"]
    BY <1>6 DEF WriteAll, Goto
  <2>2. \A q \in Pipe : node[q] = "whole" /\ be[q] /\ ~turn[q]
                        /\ fw[q] \in {"none", "wait"}
    BY <1>0, <1>3, <1>4, <1>6
    DEF RisingInv, FirmwareOwns, CallsInv, CallInOrder, Synced, HasQueue
  <2>3. /\ lock' # Released /\ lock'.left = Bind /\ lock'.all
        /\ ~lock'.tested
        /\ LeftToPublish' = Pipe
        /\ \A i, j \in DOMAIN lock'.left :
             lock'.left[i] = lock'.left[j] => i = j
    BY <2>1, LoopBegins
  <2>4. \A q \in Pipe : ctl'[q] \notin {"copy", "all"}
    BY <1>0, <1>1, <2>1 DEF CallsInv, InitState, TypeOK
  <2>5. ~Rising'
    BY <1>1, <1>6, <2>4 DEF Rising
  <2>6. OneRuns'
    BY <1>1, <1>2, <2>2 DEF OneRuns
  <2>7. LoopInv'
    BY <1>0, <1>1, <2>2, <2>3 DEF LoopInv
  <2>8. TurnsInv'
    BY <1>0, <1>1, <2>2, <2>3 DEF TurnsInv, TypeOK
  <2> QED
    BY <1>5, <2>5, <2>6, <2>7, <2>8 DEF RisingInv
<1>7. CASE ~ \A q \in Pipe : sync[q]
  <2>1. lock' = Released /\ ctl' = [ctl EXCEPT ![p] = "done"]
    BY <1>2, <1>7 DEF WriteAll, Goto
  <2>2. RisingInv'
    BY <1>0, <1>1, <1>4, <2>1 DEF RisingInv, TypeOK, Synced
  <2>3. \A q, r \in Pipe : be'[q] /\ be'[r] => turn'[q] = turn'[r]
    BY <1>0, <1>1, <1>2 DEF TurnsInv
  <2> QED
    BY <1>1, <1>2, <1>5, <2>1, <2>2, <2>3, NobodyPublishes
<1> QED
  BY <1>6, <1>7

\* The application changes its mind about the whole group.
LEMMA WantRounds ==
  ASSUME StitchInv, Careful, RoundInv, Want
  PROVE  RoundInv'
<1>0. /\ TypeOK /\ CallsInv /\ FirmwareOwns /\ RisingInv /\ TurnsInv
      /\ Main \in Pipe
  BY Group DEF StitchInv, RoundInv
<1>1. /\ ThreadRuns
      /\ \/ \A p \in Pipe : goal[p] /\ ctl[p] \in {"mem", "up"}
         \/ \A p \in Pipe : ~goal[p] /\ Stopped(p)
      /\ Change(Pipe)
  BY DEF Want, Careful
<1>2. /\ \A p \in Pipe : goal'[p] = ~goal[p]
      /\ UNCHANGED <<ctl, fw, mem, init, sync, be, state, node, edge, turn,
                     isr, taken, lock>>
  BY <1>1 DEF Change, kernVars
<1>3. lock = Released /\ isr = <<>> /\ ~taken /\ LeftToPublish = {}
  BY <1>1, Alone
<1>4. \A q, r \in Pipe : be'[q] /\ be'[r] => turn'[q] = turn'[r]
  BY <1>0, <1>2, <1>3 DEF TurnsInv
<1>5. CASE \A p \in Pipe : goal[p] /\ ctl[p] \in {"mem", "up"}
  <2>1. CallsInv'
    BY <1>0, <1>2, <1>5 DEF CallsInv, CallInOrder, InitState, ExitState,
       Synced, HasQueue
  <2>2. FirmwareOwns' /\ ~Rising'
    BY <1>0, <1>2, <1>5 DEF FirmwareOwns, Rising, Starting
  <2> QED
    BY <1>2, <1>3, <1>4, <2>1, <2>2, NobodyPublishes DEF RoundInv, RisingInv
<1>6. CASE \A p \in Pipe : ~goal[p] /\ Stopped(p)
  <2>1. \A p \in Pipe : /\ ctl[p] = "down" /\ fw[p] = "none"
                        /\ ~sync[p] /\ ~be[p] /\ ~init[p] /\ ~edge[p]
    BY <1>0, <1>6 DEF Stopped, CallsInv, CallInOrder, ExitState
  <2>2. CallsInv'
    BY <1>0, <1>2, <1>6, <2>1 DEF CallsInv, CallInOrder, InitState, ExitState,
       Synced, HasQueue
  <2>3. FirmwareOwns' /\ RisingInv'
    BY <1>0, <1>2, <2>1 DEF FirmwareOwns, RisingInv, Synced, Starting
  <2> QED
    BY <1>2, <1>3, <1>4, <2>2, <2>3, NobodyPublishes DEF RoundInv
<1> QED
  BY <1>1, <1>5, <1>6

\* The threads of the firmware; the last one to finish a round finds the
\* configurations of all pipes whole and no firmware at work.
LEMMA FirmwareRounds ==
  ASSUME StitchInv, StitchInv', Careful, RoundInv, NEW p \in Pipe,
         Firmware(p) \/ NoStatistics(p)
  PROVE  RoundInv'
<1>0. /\ TypeOK /\ CallsInv /\ FirmwareOwns /\ RisingInv /\ TurnsInv
      /\ Main \in Pipe
  BY Group DEF StitchInv, RoundInv
<1>1. ThreadRuns /\ UNCHANGED <<isr, taken, goal, ctl, mem, init, sync, be, turn>>
  BY DEF Firmware, RunStart, RunEnd, FwBegin, RunState, StitchBeBufCtl,
     NoStatistics, appVars, kernVars
<1>2. /\ lock = Released /\ isr = <<>> /\ ~taken /\ LeftToPublish = {}
      /\ \A q \in Pipe : fw[q] # "publish" /\ ctl[q] # "publish"
  BY <1>1, Alone
<1>3. \A q, r \in Pipe : be[q] /\ be[r] => turn[q] = turn[r]
  BY <1>0, <1>2 DEF TurnsInv
<1>4. ASSUME UNCHANGED <<lock, node>>, FirmwareOwns',
             \A q \in Pipe : edge'[q] => edge[q]
      PROVE  RoundInv'
  <2>1. CallsInv'
    BY <1>0, <1>1, <1>4 DEF CallsInv, CallInOrder
  <2>2. RisingInv'
    BY <1>0, <1>1, <1>4 DEF RisingInv, Rising
  <2> QED
    BY <1>1, <1>2, <1>3, <1>4, <2>1, <2>2, NobodyPublishes DEF RoundInv
<1>5. CASE RunStart(p) \/ RunEnd(p)
  <2>1. /\ fw[p] \in {"none", "wait"}
        /\ \E f \in {"none", "wait"} : fw' = [fw EXCEPT ![p] = f]
        /\ UNCHANGED <<lock, node, state, edge>>
    BY <1>5 DEF RunStart, RunEnd, appVars, kernVars
  <2>2. FirmwareOwns'
    BY <1>0, <1>1, <2>1 DEF FirmwareOwns, Starting, TypeOK
  <2> QED
    BY <1>4, <2>1, <2>2
<1>6. CASE FwBegin(p)
  <2>1. /\ fw[p] = "wait" /\ edge[p] /\ edge' = [edge EXCEPT ![p] = FALSE]
        /\ \/ fw' = fw
           \/ node[p] # "none" /\ fw' = [fw EXCEPT ![p] = "got"]
        /\ UNCHANGED <<lock, node, state>>
    BY <1>6 DEF FwBegin, appVars
  <2>2. FirmwareOwns'
    BY <1>0, <1>1, <2>1 DEF FirmwareOwns, Starting, TypeOK
  <2> QED
    BY <1>0, <1>4, <2>1, <2>2 DEF TypeOK
<1>7. CASE RunState(p)
  <2>1. fw[p] = "got" /\ state[p] = "INIT" /\ ~edge[p]
    BY <1>0, <1>7 DEF RunState, Starting, FirmwareOwns
  <2>2. /\ state' = [state EXCEPT ![p] = "RUNNING"]
        /\ fw' = [fw EXCEPT ![p] = "write"]
        /\ UNCHANGED <<lock, node, edge>>
    BY <1>0, <1>7, <2>1 DEF RunState, appVars, TypeOK
  <2>3. FirmwareOwns'
    BY <1>0, <1>1, <2>1, <2>2 DEF FirmwareOwns, Starting, TypeOK
  <2> QED
    BY <1>4, <2>2, <2>3
<1>8. CASE NoStatistics(p)
  <2>1. /\ fw[p] = "got" /\ fw' = [fw EXCEPT ![p] = "wait"]
        /\ UNCHANGED <<lock, node, state, edge>>
    BY <1>0, <1>8 DEF NoStatistics, Starting, FirmwareOwns, appVars, kernVars
  <2>2. FirmwareOwns'
    BY <1>0, <1>1, <2>1 DEF FirmwareOwns, Starting, TypeOK
  <2> QED
    BY <1>4, <2>1, <2>2
<1>9. CASE StitchBeBufCtl(p)
  <2>1. fw[p] = "write" /\ state[p] = "RUNNING" /\ ~edge[p]
    BY <1>0, <1>9 DEF StitchBeBufCtl, FirmwareOwns
  <2>2. /\ node' = [node EXCEPT ![p] = "whole"]
        /\ state' = [state EXCEPT ![p] = "FINISH"]
        /\ edge' = edge
    BY <1>0, <1>9, <2>1 DEF StitchBeBufCtl, TypeOK
  <2>3. CallsInv'
    BY <1>0, <1>1, <2>2 DEF CallsInv, CallInOrder
  <2>4. RisingInv'
    BY <1>0, <1>1, <2>2 DEF RisingInv, Rising, TypeOK
  <2> DEFINE last == \A q \in Pipe : init[q] /\ (q # p => state[q] = "FINISH")
  <2>5. CASE last
    <3>1. fw' = [fw EXCEPT ![p] = "publish"] /\ Begin(p, FALSE)
      BY <1>9, <2>1, <2>5 DEF StitchBeBufCtl
    <3>2. /\ lock' # Released /\ lock'.left = Bind /\ ~lock'.all
          /\ ~lock'.tested
          /\ LeftToPublish' = Pipe
          /\ \A i, j \in DOMAIN lock'.left :
               lock'.left[i] = lock'.left[j] => i = j
      BY <3>1, LoopBegins
    <3>3. \A q \in Pipe : /\ init[q]
                          /\ q # p => /\ state[q] = "FINISH"
                                      /\ node[q] = "whole"
                                      /\ fw[q] \in {"none", "wait"}
      BY <1>0, <1>2, <2>5 DEF FirmwareOwns, TypeOK
    <3>4. FirmwareOwns'
      BY <1>0, <1>1, <2>1, <2>2, <3>1, <3>3 DEF FirmwareOwns, Starting, TypeOK
    <3>5. OneRuns'
      BY <1>0, <1>1, <1>2, <3>1, <3>3 DEF OneRuns, TypeOK
    <3>6. LoopInv'
      BY <1>0, <1>1, <2>2, <3>2, <3>3 DEF LoopInv, TypeOK
    <3>7. TurnsInv'
      BY <1>1, <1>3, <3>2 DEF TurnsInv
    <3> QED
      BY <2>3, <2>4, <3>4, <3>5, <3>6, <3>7 DEF RoundInv
  <2>6. CASE ~last
    <3>1. fw' = [fw EXCEPT ![p] = "wait"] /\ UNCHANGED lock
      BY <1>9, <2>6 DEF StitchBeBufCtl
    <3>2. FirmwareOwns'
      BY <1>0, <1>1, <2>1, <2>2, <3>1 DEF FirmwareOwns, Starting, TypeOK
    <3> QED
      BY <1>1, <1>2, <1>3, <2>3, <2>4, <3>1, <3>2, NobodyPublishes DEF RoundInv
  <2> QED
    BY <2>5, <2>6
<1> QED
  BY <1>5, <1>6, <1>7, <1>8, <1>9 DEF Firmware

\* Once all pipes are initialised the group is no longer being started.
LEMMA Risen ==
  ASSUME TypeOK, CallsInv,
         (\A q \in Pipe : init[q]) \/ (\E p \in Pipe : ctl[p] = "publish")
  PROVE  ~Rising
<1>0. Main \in Pipe
  BY Group
<1>1. CASE \A q \in Pipe : init[q]
  BY <1>0, <1>1 DEF CallsInv, CallInOrder, Rising, ExitState, Synced
<1>2. CASE \E p \in Pipe : ctl[p] = "publish"
  BY <1>0, <1>2 DEF CallsInv, CallInOrder, Rising, InitState
<1> QED
  BY <1>1, <1>2

\* The handler finds no firmware at work.
LEMMA HandlerRounds ==
  ASSUME StitchInv, StitchInv', Careful, RoundInv, Handler
  PROVE  RoundInv'
<1>0. /\ TypeOK /\ CallsInv /\ OneRuns /\ FirmwareOwns /\ TurnsInv /\ LoopInv
      /\ Main \in Pipe
  BY Group DEF StitchInv, RoundInv
<1>1. /\ UNCHANGED <<fw, goal, ctl, mem, init, sync, be, state, turn, lock>>
      /\ lock = Released /\ LeftToPublish = {}
      /\ \A q \in Pipe : init[q] /\ ~Starting(q)
  <2>1. UNCHANGED <<fw, goal, ctl, mem, init, sync, be, state, turn, lock>>
    BY DEF Handler, IsrBegin, IsrTake, IsrPass, IsrWake, appVars, kernVars
  <2>2. lock = Released
    BY <1>0 DEF Handler, IsrBegin, IsrTake, IsrPass, IsrWake, SyncFree,
       Careful, OneRuns
  <2>3. LeftToPublish = {}
    BY <2>2 DEF LeftToPublish, Released
  <2>4. \A q \in Pipe : init[q] /\ ~Starting(q)
    BY <1>0 DEF Handler, IsrBegin, IsrTake, IsrPass, IsrWake, Careful, OneRuns
  <2> QED
    BY <2>1, <2>2, <2>3, <2>4
<1>2. ~Rising /\ ~Rising'
  BY <1>0, <1>1, Risen DEF Rising
<1>3. LoopInv' /\ TurnsInv' /\ RisingInv'
  <2>1. LeftToPublish' = LeftToPublish
    BY <1>1 DEF LeftToPublish
  <2> QED
    BY <1>0, <1>1, <1>2, <2>1 DEF LoopInv, TurnsInv, RisingInv
<1>4. CallsInv'
  BY <1>0, <1>1 DEF CallsInv, CallInOrder
<1>5. OneRuns'
  BY <1>0, <1>1, Group
  DEF OneRuns, Starting, Handler, IsrBegin, IsrTake, IsrPass, IsrWake
<1>6. FirmwareOwns'
  <2>1. CASE IsrBegin
    BY <1>0, <1>1, <2>1 DEF IsrBegin, FirmwareOwns, Starting, kernVars
  <2>2. CASE IsrTake
    <3>1. PICK h \in Pipe : h = Head(isr)
      BY <1>0, <2>2, Group DEF IsrTake, TypeOK
    <3>2. node[h] = "none" /\ node' = [node EXCEPT ![h] = "old"]
          /\ edge' = edge
      BY <2>2, <3>1 DEF IsrTake
    <3> QED
      BY <1>0, <1>1, <3>2 DEF FirmwareOwns, Starting, TypeOK
  <2>3. CASE IsrPass \/ IsrWake
    <3>1. PICK h \in Pipe : h = Head(isr)
      BY <1>0, <2>3, Group DEF IsrPass, IsrWake, TypeOK
    <3>2. node' = node /\ \/ edge' = edge
                          \/ edge' = [edge EXCEPT ![h] = @ \/ state[h] = "INIT"]
      BY <2>3, <3>1 DEF IsrPass, IsrWake, WakeUp
    <3> QED
      BY <1>0, <1>1, <3>2 DEF FirmwareOwns, Starting, TypeOK
  <2> QED
    BY <2>1, <2>2, <2>3 DEF Handler
<1> QED
  BY <1>3, <1>4, <1>5, <1>6 DEF RoundInv

\* A pipe is missing from the group only when the main pipe is.
LEMMA MainGoesFirst ==
  ASSUME TypeOK, CallsInv, NEW q \in Pipe, init[q], ~be[q]
  PROVE  ~be[Main]
<1>0. Main \in Pipe
  BY Group
<1>1. ctl[q] \in {"forget", "reset"}
  BY <1>0 DEF CallsInv, CallInOrder, HasQueue, ExitState
<1>2. ~goal[q]
  BY <1>0, <1>1 DEF CallsInv, CallInOrder, ExitState
<1>3. q = Main \/ ctl[Main] \in {"reset", "down"}
  BY <1>0, <1>1, <1>2 DEF CallsInv, CallInOrder
<1> QED
  BY <1>0, <1>3 DEF CallsInv, CallInOrder

\* A publisher that leaves its loop, when the turns of all pipes are equal
\* again.
LEMMA ReturnRounds ==
  ASSUME StitchInv, RoundInv, lock # Released, NEW ok \in BOOLEAN,
         Return(ok, fw), ok \/ ~lock.all, FirmwareOwns,
         UNCHANGED <<goal, mem, init, sync, be, edge, isr, taken>>,
         \A q \in Pipe : \/ state'[q] = state[q] /\ node'[q] = node[q]
                         \/ state'[q] = "INIT" /\ fw[q] # "write",
         \A q, r \in Pipe : be[q] /\ be[r] => turn'[q] = turn'[r]
  PROVE  RoundInv'
<1>0. /\ TypeOK /\ CallsInv /\ FirmwareOwns /\ OneRuns /\ LoopInv
      /\ Main \in Pipe /\ LockOwned
  BY Group DEF StitchInv, RoundInv
<1>1. lock.by \in Pipe /\ isr = <<>> /\ ~taken /\ lock' = Released
  BY <1>0 DEF LockOwned, OneRuns, Return, TypeOK
<1>2. \A q \in Pipe : fw[q] \in {"none", "wait", "publish"}
  BY <1>0 DEF OneRuns
<1>3. \/ /\ ctl[lock.by] = "publish" /\ ctl' = [ctl EXCEPT ![lock.by] = "done"]
         /\ fw' = fw
      \/ /\ ~lock.all /\ ctl' = ctl /\ fw' = [fw EXCEPT ![lock.by] = "wait"]
  BY <1>0, <1>1 DEF Return, LockOwned
<1>4. ~Rising
  <2>1. (\A q \in Pipe : init[q]) \/ (\E p \in Pipe : ctl[p] = "publish")
    BY <1>0, <1>1, <1>3 DEF LoopInv
  <2> QED
    BY <1>0, <2>1, Risen
<1>5. CallsInv'
  <2>1. CASE ctl' = ctl
    BY <1>0, <2>1 DEF CallsInv, CallInOrder
  <2>2. CASE ctl[lock.by] = "publish" /\ ctl' = [ctl EXCEPT ![lock.by] = "done"]
    <3>1. PICK b \in Pipe : b = lock.by
      BY <1>1
    <3>2. ctl[b] = "publish" /\ ctl' = [ctl EXCEPT ![b] = "done"]
      BY <2>2, <3>1
    <3> QED
      BY <1>0, <3>2 DEF CallsInv, CallInOrder, InitState, ExitState, Synced,
         HasQueue, TypeOK
  <2> QED
    BY <1>3, <2>1, <2>2
<1>6. ~Rising'
  <2>1. \A q \in Pipe : ctl'[q] \in {"copy", "all"} => ctl[q] \in {"copy", "all"}
    BY <1>0, <1>1, <1>3 DEF TypeOK
  <2> QED
    BY <1>4, <2>1 DEF Rising
<1>7. FirmwareOwns'
  <2>1. \A q \in Pipe : fw'[q] \in {"none", "wait", "publish"}
    BY <1>0, <1>1, <1>2, <1>3 DEF TypeOK
  <2>2. \A q \in Pipe : fw'[q] = "wait" \/ fw'[q] = fw[q]
    BY <1>0, <1>1, <1>3 DEF TypeOK
  <2> QED
    BY <1>0, <1>2, <2>1, <2>2 DEF FirmwareOwns, Starting
<1> QED
  BY <1>1, <1>5, <1>6, <1>7, NobodyPublishes DEF RoundInv, RisingInv

\* The loop leaves the group with a round complete or not begun.
LEMMA PublishRounds ==
  ASSUME StitchInv, StitchInv', Careful, RoundInv, Publish
  PROVE  RoundInv'
<1>0. /\ TypeOK /\ CallsInv /\ OneRuns /\ FirmwareOwns /\ LoopInv /\ TurnsInv
      /\ Main \in Pipe /\ LockOwned
  BY Group DEF StitchInv, RoundInv
<1>1. lock # Released
  BY Locks DEF Publish, PublishTest, PublishPut, SyncFree
<1>2. lock.left \in Seq(Pipe) /\ lock.left # <<>> /\ lock.by \in Pipe
  BY <1>0, <1>1 DEF LockOwned, TypeOK
<1>3. PICK h \in Pipe : h = Head(lock.left)
  BY <1>2, Group
<1>4. h \in LeftToPublish /\ node[h] = "whole"
  <2>1. 1 \in DOMAIN lock.left /\ lock.left[1] = h
    BY <1>2, <1>3
  <2> QED
    BY <1>0, <1>1, <2>1 DEF LeftToPublish, LoopInv
<1>5. \A q \in Pipe : fw[q] \in {"none", "wait", "publish"}
  BY <1>0, <1>1 DEF OneRuns
<1>6. CASE PublishTest
  <2>1. UNCHANGED <<goal, mem, init, sync, be, state, node, edge, turn, isr,
                    taken>>
    BY <1>6 DEF PublishTest, kernVars
  <2>2. CASE be[h]
    <3>1. lock' = [lock EXCEPT !.tested = TRUE] /\ UNCHANGED <<ctl, fw>>
      BY <1>3, <1>4, <1>6, <2>2 DEF PublishTest
    <3>2. lock'.left = lock.left /\ lock'.all = lock.all
      BY <1>0, <3>1 DEF TypeOK
    <3>3. LeftToPublish' = LeftToPublish
      BY <3>2 DEF LeftToPublish
    <3>4. CallsInv' /\ FirmwareOwns' /\ TurnsInv'
      BY <1>0, <2>1, <3>1, <3>3
      DEF CallsInv, CallInOrder, FirmwareOwns, Starting, TurnsInv
    <3>5. OneRuns' /\ RisingInv'
      BY <1>0, <1>1, <2>1, <3>1
      DEF OneRuns, Starting, RoundInv, RisingInv, Rising
    <3>6. LoopInv'
      BY <1>0, <1>1, <1>3, <2>1, <2>2, <3>2, <3>3 DEF LoopInv
    <3> QED
      BY <3>4, <3>5, <3>6 DEF RoundInv
  <2>3. CASE ~be[h]
    <3>1. ~lock.all /\ init[h]
      BY <1>0, <1>1, <1>4, <2>3 DEF LoopInv
    <3>2. Return(FALSE, fw)
      BY <1>3, <1>6, <2>3 DEF PublishTest
    <3>3. ~be[Main]
      BY <1>0, <2>3, <3>1, MainGoesFirst
    <3>4. LeftToPublish = Pipe
      <4>1. lock.left = Bind
        BY <1>0, <1>1, <3>3 DEF LoopInv
      <4> QED
        BY <4>1 DEF LeftToPublish, Pipe
    <3>5. \A q, r \in Pipe : be[q] /\ be[r] => turn'[q] = turn'[r]
      BY <1>0, <2>1, <3>4 DEF TurnsInv
    <3> QED
      BY <1>0, <1>1, <2>1, <3>1, <3>2, <3>5, ReturnRounds
  <2> QED
    BY <2>2, <2>3
<1>7. CASE PublishPut
  <2>1. /\ lock.tested
        /\ node' = [node EXCEPT ![h] = "none"]
        /\ turn' = [turn EXCEPT ![h] = (@ # (node[h] # "none"))]
        /\ state' = [state EXCEPT ![h] = "INIT"]
        /\ UNCHANGED <<goal, mem, init, sync, be, edge, isr, taken>>
    BY <1>3, <1>7 DEF PublishPut, Put
  <2>2. be[h]
    BY <1>0, <1>1, <1>3, <2>1 DEF LoopInv
  <2>3. \A q \in Pipe : turn'[q] = IF q = h THEN ~turn[q] ELSE turn[q]
    BY <1>0, <1>4, <2>1 DEF TypeOK
  <2>4. [fw EXCEPT ![h] = Without(@)] = fw
    BY <1>0, <1>5 DEF Without, TypeOK
  <2>5. LeftToPublish = {h} \cup {Tail(lock.left)[i] : i \in DOMAIN Tail(lock.left)}
    <3>1. /\ Len(lock.left) \in Nat \ {0} /\ DOMAIN lock.left = 1..Len(lock.left)
          /\ DOMAIN Tail(lock.left) = 1..(Len(lock.left) - 1)
          /\ lock.left[1] = h
          /\ \A i \in DOMAIN Tail(lock.left) :
               Tail(lock.left)[i] = lock.left[i + 1]
      BY <1>2, <1>3
    <3>2. \A i \in DOMAIN lock.left :
            i = 1 \/ (i - 1 \in DOMAIN Tail(lock.left)
                       /\ Tail(lock.left)[i - 1] = lock.left[i])
      BY <3>1
    <3>3. \A i \in DOMAIN Tail(lock.left) : i + 1 \in DOMAIN lock.left
      BY <3>1
    <3>4. 1 \in DOMAIN lock.left
      BY <3>1
    <3>5. ASSUME NEW i \in DOMAIN lock.left
          PROVE  lock.left[i] \in
                   {h} \cup {Tail(lock.left)[j] : j \in DOMAIN Tail(lock.left)}
      <4>1. CASE i = 1
        BY <3>1, <4>1
      <4>2. CASE i # 1
        BY <3>2, <4>2
      <4> QED
        BY <4>1, <4>2
    <3>6. ASSUME NEW j \in DOMAIN Tail(lock.left)
          PROVE  Tail(lock.left)[j] \in {lock.left[i] : i \in DOMAIN lock.left}
      BY <3>1, <3>3
    <3>7. h \in {lock.left[i] : i \in DOMAIN lock.left}
      BY <3>1, <3>4
    <3> QED
      BY <3>5, <3>6, <3>7 DEF LeftToPublish
  <2>6. h \notin {Tail(lock.left)[i] : i \in DOMAIN Tail(lock.left)}
    <3>1. \A i, j \in DOMAIN lock.left : lock.left[i] = lock.left[j] => i = j
      BY <1>0, <1>1 DEF LoopInv
    <3> QED
      BY <1>2, <1>3, <3>1
  <2>7. FirmwareOwns' \/ fw' # fw
    BY <1>0, <1>5, <2>1 DEF FirmwareOwns, Starting, TypeOK
  <2>8. CASE Tail(lock.left) = <<>>
    <3>1. Return(TRUE, fw)
      BY <1>3, <1>7, <2>4, <2>8 DEF PublishPut, Put
    <3>2. LeftToPublish = {h}
      BY <2>5, <2>8
    <3>3. \A q, r \in Pipe : be[q] /\ be[r] => turn'[q] = turn'[r]
      <4>1. \A q \in Pipe : turn[q] \in BOOLEAN
        BY <1>0 DEF TypeOK
      <4>2. \A q, r \in Pipe : be[q] /\ be[r]
              => (turn[q] = turn[r] <=> (q = h <=> r = h))
        BY <1>0, <3>2 DEF TurnsInv
      <4> QED
        BY <2>3, <4>1, <4>2
    <3>4. \A q \in Pipe : \/ state'[q] = state[q] /\ node'[q] = node[q]
                          \/ state'[q] = "INIT" /\ fw[q] # "write"
      BY <1>0, <1>5, <2>1 DEF TypeOK
    <3> QED
      BY <1>0, <1>1, <2>1, <3>1, <3>3, <3>4, ReturnRounds
  <2>9. CASE Tail(lock.left) # <<>>
    <3>1. /\ lock' = [lock EXCEPT !.left = Tail(@), !.tested = FALSE]
          /\ UNCHANGED <<ctl, fw>>
      BY <1>3, <1>7, <2>4, <2>9 DEF PublishPut, Put
    <3>2. lock'.left = Tail(lock.left) /\ ~lock'.tested
          /\ lock'.all = lock.all /\ lock'.by = lock.by
      BY <1>0, <3>1 DEF TypeOK
    <3>3. LeftToPublish' = LeftToPublish \ {h}
      BY <2>5, <2>6, <3>2 DEF LeftToPublish
    <3>4. CallsInv' /\ FirmwareOwns'
      BY <1>0, <2>1, <2>7, <3>1 DEF CallsInv, CallInOrder
    <3>5. OneRuns'
      BY <1>0, <1>1, <2>1, <3>1 DEF OneRuns, Starting
    <3>6. RisingInv'
      <4>1. (\A q \in Pipe : init[q]) \/ (\E p \in Pipe : ctl[p] = "publish")
        BY <1>0, <1>1, <1>2 DEF LoopInv, LockOwned
      <4>2. ~Rising'
        BY <1>0, <2>1, <3>1, <4>1, Risen DEF Rising
      <4> QED
        BY <4>2 DEF RisingInv
    <3>7. TurnsInv'
      BY <1>0, <1>4, <2>1, <2>3, <3>3 DEF TurnsInv, TypeOK
    <3>8. LoopInv'
      <4>1. \A i, j \in DOMAIN lock'.left :
              lock'.left[i] = lock'.left[j] => i = j
        <5>1. \A i, j \in DOMAIN lock.left :
                lock.left[i] = lock.left[j] => i = j
          BY <1>0, <1>1 DEF LoopInv
        <5> QED
          BY <1>2, <3>2, <5>1
      <4>2. Main \notin LeftToPublish'
        <5>1. CASE Main \in LeftToPublish
          <6>1. lock.left = Bind
            BY <1>0, <1>1, <5>1 DEF LoopInv
          <6>2. h = Main
            BY <1>2, <1>3, <6>1 DEF Main
          <6> QED
            BY <3>3, <6>2
        <5>2. CASE Main \notin LeftToPublish
          BY <3>3, <5>2
        <5> QED
          BY <5>1, <5>2
      <4>3. be'[Main]
        <5>1. CASE Main \in LeftToPublish
          <6>1. lock.left = Bind
            BY <1>0, <1>1, <5>1 DEF LoopInv
          <6>2. h = Main
            BY <1>2, <1>3, <6>1 DEF Main
          <6> QED
            BY <2>1, <2>2, <6>2
        <5>2. CASE Main \notin LeftToPublish
          BY <1>0, <1>1, <2>1, <5>2 DEF LoopInv
        <5> QED
          BY <5>1, <5>2
      <4>4. \A q \in LeftToPublish' : node'[q] = "whole" /\ (lock'.all => be'[q])
        BY <1>0, <1>1, <2>1, <3>2, <3>3 DEF LoopInv, TypeOK
      <4>5. ~lock'.all => \A q \in Pipe : init'[q]
        BY <1>0, <1>1, <2>1, <3>2 DEF LoopInv
      <4> QED
        BY <3>2, <4>1, <4>2, <4>3, <4>4, <4>5 DEF LoopInv
    <3> QED
      BY <3>4, <3>5, <3>6, <3>7, <3>8 DEF RoundInv
  <2> QED
    BY <2>8, <2>9
<1> QED
  BY <1>6, <1>7 DEF Publish

LEMMA StepRounds == StitchInv /\ Careful /\ RoundInv /\ [Next]_vars => RoundInv'
<1> SUFFICES ASSUME StitchInv, Careful, RoundInv, [Next]_vars PROVE RoundInv'
  OBVIOUS
<1>0. StitchInv'
  BY StepInv
<1>1. CASE Want
  BY <1>1, WantRounds
<1>2. ASSUME NEW p \in Pipe, Call(p) PROVE RoundInv'
  <2>1. CallsInv'
    BY <1>2, CallCalls DEF Call
  <2>2. OneRuns' /\ FirmwareOwns' /\ RisingInv' /\ LoopInv' /\ TurnsInv'
    BY <1>0, <1>2, CallRounds, WriteAllRounds DEF Call
  <2> QED
    BY <2>1, <2>2 DEF RoundInv
<1>3. ASSUME NEW p \in Pipe, Firmware(p) \/ NoStatistics(p) PROVE RoundInv'
  BY <1>0, <1>3, FirmwareRounds
<1>4. CASE Publish
  BY <1>0, <1>4, PublishRounds
<1>5. CASE Handler
  BY <1>0, <1>5, HandlerRounds
<1>6. CASE UNCHANGED vars
  BY <1>6 DEF vars, appVars, kernVars, RoundInv, CallsInv, CallInOrder,
     OneRuns, FirmwareOwns, RisingInv, Rising, LoopInv, TurnsInv,
     LeftToPublish, Starting
<1> QED
  BY <1>1, <1>2, <1>3, <1>4, <1>5, <1>6 DEF Next

\* Only in careful use: on one processor, with one thread that starts the pipes
\* and stops them all before it starts one again, and with no interrupt within
\* the first lines of ISP_Run (elsewhere the code breaks it).  Whoever publishes for the
\* group publishes whole configurations only, no firmware writes into a node
\* that has been published, and VI never stitches configurations of two
\* rounds, through every start, stop and restart, for a group of any size.
THEOREM RoundsAlwaysRight == Spec => []RoundsRight
<1>1. Init => (Careful => RoundInv)
  BY InitRounds
<1>2. StitchInv /\ (Careful => RoundInv) /\ [Next]_vars
        => (Careful => RoundInv)'
  <2> SUFFICES ASSUME StitchInv, Careful => RoundInv, [Next]_vars, Careful'
               PROVE  RoundInv'
    OBVIOUS
  <2>1. env' = env
    <3>1. CASE Next
      BY <3>1 DEF Next, Want, Change, Call, MemInit, InitCall, InitBe, InitCfg,
         InitSync, CopyFree, WriteAll, InitDone, InitFails, ExitCall, SyncExit,
         ExitLock, ExitBe, ExitMem, ResetCtx, Firmware, RunStart, RunEnd,
         FwBegin, RunState, StitchBeBufCtl, NoStatistics, Publish, PublishTest,
         PublishPut, Put, Handler, IsrBegin, IsrTake, IsrPass, IsrWake
    <3> QED
      BY <3>1 DEF vars
  <2>2. Careful
    BY <2>1 DEF Careful
  <2> QED
    BY <2>2, StepRounds
<1>3. StitchInv /\ (Careful => RoundInv) => RoundsRight
  <2> SUFFICES ASSUME StitchInv, Careful => RoundInv PROVE RoundsRight
    OBVIOUS
  <2>1. PutsWhole
    <3>1. ASSUME Careful, NEW q \in LeftToPublish
          PROVE  node[q] = "whole" /\ fw[q] # "write"
      <4>1. lock # Released
        BY <3>1 DEF LeftToPublish, Released
      <4>2. q \in Pipe
        BY <3>1 DEF LeftToPublish, StitchInv, TypeOK
      <4> QED
        BY <3>1, <4>1, <4>2 DEF RoundInv, LoopInv, OneRuns
    <3> QED
      BY <3>1 DEF PutsWhole
  <2>2. WritesOwnNode
    BY DEF WritesOwnNode, RoundInv, FirmwareOwns
  <2>3. InStep
    <3>1. SyncFree => LeftToPublish = {}
      BY DEF SyncFree, LeftToPublish, Released
    <3> QED
      BY <3>1 DEF InStep, RoundInv, TurnsInv
  <2> QED
    BY <2>1, <2>2, <2>3 DEF RoundsRight
<1>4. Spec => []StitchInv
  BY InitInv, StepInv, PTL DEF Spec
<1> QED
  BY <1>1, <1>2, <1>3, <1>4, PTL DEF Spec
=============================================================================
