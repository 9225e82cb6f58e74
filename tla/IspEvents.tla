----------------------------- MODULE IspEvents ------------------------------
(***************************************************************************)
(* From the interrupts of one ISP pipe to the applications that wait for   *)
(* them (isp.c): HI_MPI_ISP_GetVDTimeOut waits for the frame start, the    *)
(* second interrupt of a frame or the end of the back end.  One flag and   *)
(* one semaphore per kind of event serve every application: a caller takes *)
(* the semaphore, clears the flag under g_stIspLock and waits for it to be *)
(* set again, with or without a timeout, and a signal ends the wait.       *)
(* The interrupt handler proper runs in the top half, or, with the module  *)
(* parameter u32IntBotHalf, in a thread that reads the status words the    *)
(* top half stored last.  The handler also reads, under g_stIspLock, the   *)
(* half of a double buffer of configurations the firmware is not filling.  *)
(***************************************************************************)
EXTENDS Integers

CONSTANTS
  Waiter,      \* application threads that call HI_MPI_ISP_GetVDTimeOut
  Nobody,      \* none of them
  Environment  \* the uses considered, one per behaviour

ASSUME EventsAssumption ==
  /\ Nobody \notin Waiter
  /\ Environment \subseteq
       [bothalf : BOOLEAN, kinds : SUBSET {"start", "end", "beEnd"},
        untimed : BOOLEAN, writes : BOOLEAN, maxExit : Nat]

VARIABLES
  env,    \* the use, chosen once
  intEn,  \* the interrupts of the pipe are unmasked
  memInit,\* bMemInit
  exits,  \* how often the pipe was shut down
  sch,    \* stIntSch: the interrupts the top half stored last
  woken,  \* the thread of the bottom half is to run
  isr,    \* where the handler is
  flag,   \* bVdStart, bVdEnd and bVdBeEnd
  sem,    \* who holds stIspSem, stIspSemVd and stIspSemBeVd
  pc,     \* where each caller is
  req,    \* what it waits for, whether with a timeout, and in its copy of
          \* ISP_VD_TIMEOUT_S: u32IntStatus is no longer 0
  fired,  \* history: the event happened while the caller waited
  act,    \* u32RegCfgInfoFlag
  cfg,    \* astKernelCfg: two halves with two parts each
  wr      \* how much of the inactive half the firmware has filled

eventVars == <<flag, fired>>
callVars  == <<sem, pc, req>>
pipeVars  == <<intEn, memInit, exits>>
isrVars   == <<sch, woken, isr>>
cfgVars   == <<act, cfg, wr>>
vars == <<env, pipeVars, isrVars, eventVars, callVars, cfgVars>>

Bothalf == env.bothalf  \* u32IntBotHalf
Kinds   == env.kinds    \* the kinds of event the applications wait for
Untimed == env.untimed  \* somebody calls with u32MilliSec = 0
Writes  == env.writes   \* the firmware writes kernel configurations
MaxExit == env.maxExit  \* bound: how often the pipe is shut down

Kind == {"start", "end", "beEnd"}
IntBit == {"1st", "2nd"}       \* ISP_1ST_INT, ISP_2ND_INT

\* What a call asked for is forgotten when it returns.
NoRequest == [kind |-> "start", timed |-> TRUE, status |-> FALSE]

TypeOK ==
  /\ env \in Environment
  /\ {intEn, memInit, woken} \subseteq BOOLEAN
  /\ exits \in 0..MaxExit
  /\ sch \subseteq IntBit
  /\ isr \in {"idle", "route", "stat", "read", "wake"}
  /\ flag \in [Kind -> BOOLEAN]
  /\ sem \in [Kind -> Waiter \cup {Nobody}]
  /\ pc \in [Waiter -> {"idle", "down", "clear", "wait", "up"}]
  /\ req \in [Waiter -> [kind : Kind, timed : BOOLEAN, status : BOOLEAN]]
  /\ fired \in [Waiter -> BOOLEAN]
  /\ act \in 0..1
  /\ cfg \in [0..1 -> (0..1) \X (0..1)]
  /\ wr \in 0..2

Init ==
  /\ env \in Environment
  /\ intEn = TRUE /\ memInit = TRUE /\ exits = 0
  /\ sch = {} /\ woken = FALSE /\ isr = "idle"
  /\ flag = [k \in Kind |-> FALSE]
  /\ sem = [k \in Kind |-> Nobody]
  /\ pc = [w \in Waiter |-> "idle"]
  /\ req = [w \in Waiter |-> NoRequest]
  /\ fired = [w \in Waiter |-> FALSE]
  /\ act = 0
  /\ cfg = [h \in 0..1 |-> <<0, 0>>]
  /\ wr = 0

\* g_stIspLock is held from one step to the next only while statistics are
\* read; every other critical section is one action.
Unlocked == isr # "read"

-----------------------------------------------------------------------------
(* HI_MPI_ISP_GetVDTimeOut and the three functions of the driver behind it *)
(* (ISP_GetVdStartTimeOut, ISP_GetVdEndTimeOut, ISP_GetVdBeEndTimeOut).    *)

Goto(w, label) == pc' = [pc EXCEPT ![w] = label]

Return(w) == Goto(w, "idle") /\ req' = [req EXCEPT ![w] = NoRequest]

\* The library checks that the pipe is open and initialised.
Call(w) ==
  /\ pc[w] = "idle"
  /\ memInit
  /\ \E k \in Kinds, timed \in BOOLEAN :
       /\ timed \/ Untimed
       /\ req' = [req EXCEPT ![w] =
                        [kind |-> k, timed |-> timed, status |-> FALSE]]
  /\ Goto(w, "down")
  /\ UNCHANGED <<pipeVars, isrVars, eventVars, sem, cfgVars>>

\* Mutant: no semaphore.
DownNot(w) ==
  /\ pc[w] = "down"
  /\ Goto(w, "clear")
  /\ UNCHANGED <<pipeVars, isrVars, eventVars, sem, req, cfgVars>>

\* osal_down_interruptible on the semaphore of the kind of event.
Down(w) ==
  /\ pc[w] = "down"
  /\ sem[req[w].kind] = Nobody
  /\ sem' = [sem EXCEPT ![req[w].kind] = w]
  /\ Goto(w, "clear")
  /\ UNCHANGED <<pipeVars, isrVars, eventVars, req, cfgVars>>

\* A signal ends the wait for the semaphore: -ERESTARTSYS, which the ioctl
\* handler drops as well.
DownSignal(w) ==
  /\ pc[w] = "down"
  /\ Return(w)
  /\ UNCHANGED <<pipeVars, isrVars, eventVars, sem, cfgVars>>

\* Under the lock the flag of an event that is over is cleared.
Clear(w) ==
  /\ pc[w] = "clear"
  /\ Unlocked
  /\ flag' = [flag EXCEPT ![req[w].kind] = FALSE]
  /\ fired' = [fired EXCEPT ![w] = FALSE]
  /\ Goto(w, "wait")
  /\ UNCHANGED <<pipeVars, isrVars, sem, req, cfgVars>>

\* ISP_DRV_WaitConditionCallback finds the flag set, and the status of the
\* interrupt, or 1, is written to the caller's copy.
WaitSucceeds(w) ==
  /\ pc[w] = "wait"
  /\ flag[req[w].kind]
  /\ Goto(w, "up")
  /\ req' = [req EXCEPT ![w].status = TRUE]
  /\ UNCHANGED <<pipeVars, isrVars, eventVars, sem, cfgVars>>

\* Mutant: the time-out path forgets the semaphore.
WaitFailsKeepsSem(w) ==
  /\ pc[w] = "wait"
  /\ ~flag[req[w].kind]
  /\ Return(w)
  /\ UNCHANGED <<pipeVars, isrVars, eventVars, sem, cfgVars>>

\* The time is over, or a signal ends the wait: the function of the driver
\* returns HI_FAILURE and writes no status.
WaitFails(w) ==
  /\ pc[w] = "wait"
  /\ ~flag[req[w].kind]
  /\ Goto(w, "up")
  /\ UNCHANGED <<pipeVars, isrVars, eventVars, sem, req, cfgVars>>

\* osal_up and the return.  The ioctl handler copies the structure back and
\* returns HI_SUCCESS whatever the wait returned, and so does the library,
\* which does not look at the status.
Up(w) ==
  /\ pc[w] = "up"
  /\ sem' = [sem EXCEPT ![req[w].kind] = Nobody]
  /\ Return(w)
  /\ fired' = [fired EXCEPT ![w] = FALSE]
  /\ UNCHANGED <<pipeVars, isrVars, flag, cfgVars>>

-----------------------------------------------------------------------------
(* The interrupts.                                                         *)

\* An event of kind k: the flag is set and the waiters are woken.
Event(k) ==
  /\ flag' = [flag EXCEPT ![k] = TRUE]
  /\ fired' = [w \in Waiter |->
                 fired[w] \/ (pc[w] = "wait" /\ req[w].kind = k)]

\* ISP_ISR: the status of every pipe is read, stored and cleared.  An
\* interrupt of another pipe stores an empty status for this one.  Without
\* the bottom half the handler follows at once and is not interrupted by
\* another ISP_ISR.
TopHalf(ints) ==
  /\ intEn \/ ints = {}
  /\ Bothalf \/ (isr = "idle" /\ ints # {})
  /\ sch' = ints
  /\ IF Bothalf
       THEN woken' = TRUE /\ UNCHANGED isr
       ELSE isr' = "route" /\ UNCHANGED woken
  /\ UNCHANGED <<pipeVars, eventVars, callVars, cfgVars>>

\* ISP_IntBottomHalf: the thread runs once for any number of wake-ups.
BottomHalf ==
  /\ Bothalf
  /\ woken
  /\ isr = "idle"
  /\ woken' = FALSE
  /\ isr' = "route"
  /\ UNCHANGED <<pipeVars, sch, eventVars, callVars, cfgVars>>

\* ISP_DoIntBottomHalf and ISP_IrqRoute up to the second interrupt: nothing
\* is done for a pipe without a status or without memory.
Route ==
  /\ isr = "route"
  /\ IF sch = {} \/ ~memInit
       THEN isr' = "idle" /\ UNCHANGED eventVars
       ELSE /\ isr' = IF "1st" \in sch THEN "stat" ELSE "idle"
            /\ IF "2nd" \in sch THEN Event("end") ELSE UNCHANGED eventVars
  /\ sch' = IF Bothalf THEN sch ELSE {}   \* not read again
  /\ UNCHANGED <<pipeVars, woken, callVars, cfgVars>>

\* ISP_DRV_StatBufBusyPut takes g_stIspLock and reads the statistics of the
\* first part with the active kernel configuration; or this is not the turn
\* of the statistics (g_StatIntvl).
StatBegin ==
  /\ isr = "stat"
  /\ isr' \in {"read", "wake"}
  /\ UNCHANGED <<pipeVars, sch, woken, eventVars, callVars, cfgVars>>

\* Then it reads u32RegCfgInfoFlag and the configuration again for the other
\* part and gives the lock back.
StatEnd ==
  /\ isr = "read"
  /\ isr' = "wake"
  /\ UNCHANGED <<pipeVars, sch, woken, eventVars, callVars, cfgVars>>

\* ISP_DRV_WakeUpThread (bEdge, which it also sets, is in IspSession).
WakeUpThread ==
  /\ isr = "wake"
  /\ Event("start")
  /\ isr' = "idle"
  /\ UNCHANGED <<pipeVars, sch, woken, callVars, cfgVars>>

\* ISP_DRV_BeEndIntProc, called by VI when the back end has finished.
BeEndIntProc ==
  /\ Unlocked
  /\ memInit
  /\ Event("beEnd")
  /\ UNCHANGED <<pipeVars, isrVars, callVars, cfgVars>>

-----------------------------------------------------------------------------
(* ISP_DRV_SetRegKernelCfgs, called by the one firmware thread, fills the  *)
(* inactive half without the lock and makes it the active one under it.    *)

Fresh == 1 - cfg[act][1]    \* a configuration other than the active one

CopyFirst ==
  /\ Writes
  /\ wr = 0
  /\ cfg' = [cfg EXCEPT ![1 - act] = <<Fresh, @[2]>>]
  /\ wr' = 1
  /\ UNCHANGED <<pipeVars, isrVars, eventVars, callVars, act>>

CopySecond ==
  /\ wr = 1
  /\ cfg' = [cfg EXCEPT ![1 - act] = <<@[1], @[1]>>]
  /\ wr' = 2
  /\ UNCHANGED <<pipeVars, isrVars, eventVars, callVars, act>>

\* Mutant: the halves are exchanged without the lock.
FlipUnlocked ==
  /\ wr = 2
  /\ act' = 1 - act
  /\ wr' = 0
  /\ UNCHANGED <<pipeVars, isrVars, eventVars, callVars, cfg>>

Flip ==
  /\ wr = 2
  /\ Unlocked
  /\ act' = 1 - act
  /\ wr' = 0
  /\ UNCHANGED <<pipeVars, isrVars, eventVars, callVars, cfg>>

-----------------------------------------------------------------------------
(* HI_MPI_ISP_Exit and the next HI_MPI_ISP_MemInit; callers stay where     *)
(* they are.                                                               *)

\* ISP_DRV_SetIntEnable with FALSE.  A handler that runs is not waited for.
MaskInt ==
  /\ intEn
  /\ exits < MaxExit
  /\ intEn' = FALSE
  /\ exits' = exits + 1
  /\ UNCHANGED <<memInit, isrVars, eventVars, callVars, cfgVars>>

\* ISP_DRV_ResetCtx: every flag is cleared under the lock.
ResetCtx ==
  /\ ~intEn
  /\ memInit
  /\ Unlocked
  /\ memInit' = FALSE
  /\ flag' = [k \in Kind |-> FALSE]
  /\ fired' = [w \in Waiter |-> fired[w] /\ pc[w] # "wait"]
  /\ UNCHANGED <<intEn, exits, isrVars, callVars, cfgVars>>

Restart ==
  /\ ~memInit
  /\ memInit' = TRUE
  /\ intEn' = TRUE
  /\ UNCHANGED <<exits, isrVars, eventVars, callVars, cfgVars>>

-----------------------------------------------------------------------------
CallStep(w) ==
  \/ Down(w) \/ Clear(w) \/ WaitSucceeds(w) \/ Up(w)
  \/ req[w].timed /\ WaitFails(w)

Signal(w) == DownSignal(w) \/ WaitFails(w)

Handler == BottomHalf \/ Route \/ StatBegin \/ StatEnd \/ WakeUpThread

Interrupt == (\E ints \in SUBSET IntBit : TopHalf(ints)) \/ BeEndIntProc

Firmware == CopyFirst \/ CopySecond \/ Flip

PipeStep == MaskInt \/ ResetCtx \/ Restart

Next ==
  /\ \/ \E w \in Waiter : Call(w) \/ CallStep(w) \/ Signal(w)
     \/ Handler \/ Interrupt \/ Firmware \/ PipeStep
  /\ UNCHANGED env

Spec == Init /\ [][Next]_vars

Fixed(A) == A /\ UNCHANGED env

\* Callers are scheduled and the time of a timed wait comes to its end; a
\* semaphore or a lock that is free again and again is got at last.
\* The frames of an unmasked pipe bring all three events.
Fairness ==
  /\ \A w \in Waiter : SF_vars(Fixed(CallStep(w)))
  /\ WF_vars(Fixed(Handler))
  /\ SF_vars(Fixed(BeEndIntProc))
  /\ \A i \in IntBit :
       SF_vars(Fixed(\E ints \in SUBSET IntBit : i \in ints /\ TopHalf(ints)))

FairSpec == Spec /\ Fairness

-----------------------------------------------------------------------------
(* Properties.                                                             *)

\* The flag a caller finds set was set while it was waiting: not by an event
\* that was over when it came, nor by one another caller waited for before it
\* got the semaphore.
VdIsFresh ==
  \A w \in Waiter : pc[w] = "wait" /\ flag[req[w].kind] => fired[w]

\* An event that happens while a caller waits is not taken away before the
\* caller has seen it, whatever other callers clear (only the exit of the
\* pipe does).
NoVdLost ==
  \A w \in Waiter : pc[w] = "wait" /\ fired[w] => flag[req[w].kind]

\* The u32IntStatus copied back is not 0 exactly when the event came while the
\* caller waited (mkp_isp.h 142: "when there is ISP interrupt, then the
\* s32IntStatus is 1").
StatusTells ==
  \A w \in Waiter : pc[w] = "up" => (req[w].status <=> fired[w])

\* While a caller waits its flag says exactly whether its event has come, and
\* afterwards the status in its ISP_VD_TIMEOUT_S does.  Nothing else does: the
\* ioctl and HI_MPI_ISP_GetVDTimeOut return HI_SUCCESS also when the time was
\* over or a signal came.
ToldExactly == VdIsFresh /\ NoVdLost /\ StatusTells

\* The configuration the handler reads during one reading of the statistics
\* is one configuration: complete, and not exchanged half way.
CfgNotTorn ==
  [][isr = "read" => /\ cfg[act][1] = cfg[act][2]
                     /\ act' = act /\ cfg'[act] = cfg[act]]_vars

\* Every call returns: timed ones without any frame as long as nobody waits
\* without a timeout (who would hold the semaphore); all of them when frames
\* come, the pipe is not shut down and the handler runs in the top half (the
\* bottom half may find every status overwritten by the next interrupt).
AllReturn == ~Untimed \/ (MaxExit = 0 /\ ~Bothalf)

CallReturns ==
  \A w \in Waiter : (pc[w] # "idle" /\ AllReturn) ~> (pc[w] = "idle")
=============================================================================
