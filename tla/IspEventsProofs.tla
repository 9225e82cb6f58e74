-------------------------- MODULE IspEventsProofs ---------------------------
(***************************************************************************)
(* Theorems about the events of a pipe, for any set of callers and every   *)
(* environment: who is told of an event waited for it, no caller takes an  *)
(* event from another, and the handler reads one complete configuration.   *)
(***************************************************************************)
EXTENDS IspEvents, TLAPS

-----------------------------------------------------------------------------
(* The types.                                                              *)

LEMMA TypeInit == Init => TypeOK
<1> SUFFICES ASSUME Init PROVE TypeOK
  OBVIOUS
<1>1. MaxExit \in Nat
  BY EventsAssumption DEF Init, MaxExit
<1>2. flag \in [Kind -> BOOLEAN] /\ sem \in [Kind -> Waiter \cup {Nobody}]
  BY DEF Init
<1>3. /\ pc \in [Waiter -> {"idle", "down", "clear", "wait", "up"}]
      /\ req \in [Waiter -> [kind : Kind, timed : BOOLEAN, status : BOOLEAN]]
      /\ fired \in [Waiter -> BOOLEAN]
  BY DEF Init, NoRequest, Kind
<1>4. cfg \in [0..1 -> (0..1) \X (0..1)]
  BY DEF Init
<1>5. exits \in 0..MaxExit
  BY <1>1 DEF Init
<1>8. {intEn, memInit, woken} \subseteq BOOLEAN
  BY DEF Init
<1>6. env \in Environment /\ sch \subseteq IntBit
      /\ isr \in {"idle", "route", "stat", "read", "wake"} /\ act \in 0..1 /\ wr \in 0..2
  BY DEF Init
<1>7. QED
  BY <1>2, <1>3, <1>4, <1>5, <1>8, <1>6 DEF TypeOK

\* An event leaves the flags and the history typed.
LEMMA EventTypes ==
  ASSUME TypeOK, NEW k \in Kind, Event(k)
  PROVE  flag' \in [Kind -> BOOLEAN] /\ fired' \in [Waiter -> BOOLEAN]
BY DEF TypeOK, Event, Kind

LEMMA TypeNext == TypeOK /\ [Next]_vars => TypeOK'
<1> SUFFICES ASSUME TypeOK, [Next]_vars PROVE TypeOK'
  OBVIOUS
<1>0. env.maxExit \in Nat /\ Kinds \subseteq Kind
  BY EventsAssumption DEF TypeOK, Kinds, Kind
<1>1. ASSUME NEW w \in Waiter,
             Fixed(Call(w) \/ CallStep(w) \/ Signal(w))
      PROVE  TypeOK'
  <2>1. CASE Call(w)
    BY <1>1, <2>1, <1>0 DEF TypeOK, Fixed, Call, Goto, pipeVars, isrVars, eventVars,
       cfgVars, MaxExit
  <2>2. CASE Down(w)
    BY <1>1, <2>2 DEF TypeOK, Fixed, Down, Goto, pipeVars, isrVars, eventVars,
       cfgVars, MaxExit
  <2>3. CASE Clear(w)
    BY <1>1, <2>3 DEF TypeOK, Fixed, Clear, Goto, pipeVars, isrVars, cfgVars, MaxExit
  <2>4. CASE WaitSucceeds(w) \/ WaitFails(w)
    <3>1. req' \in [Waiter -> [kind : Kind, timed : BOOLEAN, status : BOOLEAN]]
      <4>1. CASE WaitSucceeds(w)
        <5>0. req[w] \in [kind : Kind, timed : BOOLEAN, status : BOOLEAN]
          BY DEF TypeOK
        <5>1. [req[w] EXCEPT !.status = TRUE]
                \in [kind : Kind, timed : BOOLEAN, status : BOOLEAN]
          BY <5>0
        <5>2. QED
          BY <4>1, <5>1 DEF TypeOK, WaitSucceeds
      <4>2. CASE WaitFails(w)
        BY <4>2 DEF TypeOK, WaitFails
      <4>3. QED
        BY <2>4, <4>1, <4>2
    <3>2. pc' \in [Waiter -> {"idle", "down", "clear", "wait", "up"}]
      BY <2>4 DEF TypeOK, WaitSucceeds, WaitFails, Goto
    <3>3. QED
      BY <1>1, <2>4, <3>1, <3>2 DEF TypeOK, Fixed, WaitSucceeds, WaitFails, pipeVars,
         isrVars, eventVars, cfgVars, MaxExit
  <2>5. CASE Up(w) \/ DownSignal(w)
    <3>1. pc' \in [Waiter -> {"idle", "down", "clear", "wait", "up"}]
      BY <2>5 DEF TypeOK, Up, DownSignal, Return, Goto
    <3>2. req' \in [Waiter -> [kind : Kind, timed : BOOLEAN, status : BOOLEAN]]
      <4>1. NoRequest \in [kind : Kind, timed : BOOLEAN, status : BOOLEAN]
        BY DEF NoRequest, Kind
      <4>2. req' = [req EXCEPT ![w] = NoRequest]
        BY <2>5 DEF Up, DownSignal, Return
      <4>3. QED
        BY <4>1, <4>2 DEF TypeOK
    <3>3. sem' \in [Kind -> Waiter \cup {Nobody}]
      BY <2>5 DEF TypeOK, Up, DownSignal
    <3>4. QED
      BY <1>1, <2>5, <3>1, <3>2, <3>3 DEF TypeOK, Fixed, Up, DownSignal, pipeVars,
         isrVars, eventVars, cfgVars, MaxExit
  <2>6. QED
    BY <1>1, <2>1, <2>2, <2>3, <2>4, <2>5 DEF Fixed, CallStep, Signal
<1>2. CASE Fixed(Handler)
  <2>1. CASE BottomHalf \/ StatBegin \/ StatEnd
    BY <1>2, <2>1 DEF TypeOK, Fixed, BottomHalf, StatBegin, StatEnd, pipeVars,
       eventVars, callVars, cfgVars, MaxExit
  <2>2. CASE Route
    <3>1. flag' \in [Kind -> BOOLEAN] /\ fired' \in [Waiter -> BOOLEAN]
      BY <2>2, EventTypes DEF TypeOK, Route, eventVars, Kind
    <3>2. isr' \in {"idle", "stat"} /\ sch' \subseteq IntBit
      BY <2>2 DEF TypeOK, Route
    <3>3. QED
      BY <1>2, <2>2, <3>1, <3>2 DEF TypeOK, Fixed, Route, pipeVars, callVars, cfgVars,
         MaxExit
  <2>3. CASE WakeUpThread
    <3>1. flag' \in [Kind -> BOOLEAN] /\ fired' \in [Waiter -> BOOLEAN]
      BY <2>3, EventTypes DEF WakeUpThread, Kind
    <3>2. QED
      BY <1>2, <2>3, <3>1 DEF TypeOK, Fixed, WakeUpThread, pipeVars, callVars, cfgVars,
         MaxExit
  <2>4. QED
    BY <1>2, <2>1, <2>2, <2>3 DEF Fixed, Handler
<1>3. ASSUME NEW ints \in SUBSET IntBit, Fixed(TopHalf(ints))
      PROVE  TypeOK'
  BY <1>3 DEF TypeOK, Fixed, TopHalf, pipeVars, eventVars, callVars, cfgVars, MaxExit
<1>4. CASE Fixed(BeEndIntProc)
  <2>1. flag' \in [Kind -> BOOLEAN] /\ fired' \in [Waiter -> BOOLEAN]
    BY <1>4, EventTypes DEF Fixed, BeEndIntProc, Kind
  <2>2. QED
    BY <1>4, <2>1 DEF TypeOK, Fixed, BeEndIntProc, pipeVars, isrVars, callVars,
       cfgVars, MaxExit
<1>5. CASE Fixed(Firmware)
  <2>1. act' \in 0..1 /\ wr' \in 0..2
    BY <1>5 DEF TypeOK, Fixed, Firmware, CopyFirst, CopySecond, Flip
  <2>2. Fresh \in 0..1 /\ 1 - act \in 0..1
    BY DEF TypeOK, Fresh
  <2>3. cfg' \in [0..1 -> (0..1) \X (0..1)]
    <3>1. CASE CopyFirst
      BY <3>1, <2>2 DEF TypeOK, CopyFirst
    <3>2. CASE CopySecond
      BY <3>2, <2>2 DEF TypeOK, CopySecond
    <3>3. QED
      BY <1>5, <3>1, <3>2 DEF TypeOK, Fixed, Firmware, Flip
  <2>4. QED
    BY <1>5, <2>1, <2>3 DEF TypeOK, Fixed, Firmware, CopyFirst, CopySecond, Flip,
       pipeVars, isrVars, eventVars, callVars, MaxExit
<1>6. CASE Fixed(PipeStep)
  <2>1. env' = env /\ MaxExit' = MaxExit /\ MaxExit \in Nat
    BY <1>6, <1>0 DEF Fixed, MaxExit
  <2>2. exits' \in 0..MaxExit
    BY <1>6, <2>1 DEF TypeOK, Fixed, PipeStep, MaskInt, ResetCtx, Restart, pipeVars
  <2>3. {intEn', memInit', woken'} \subseteq BOOLEAN
    BY <1>6 DEF TypeOK, Fixed, PipeStep, MaskInt, ResetCtx, Restart, isrVars
  <2>4. flag' \in [Kind -> BOOLEAN] /\ fired' \in [Waiter -> BOOLEAN]
    BY <1>6 DEF TypeOK, Fixed, PipeStep, MaskInt, ResetCtx, Restart, eventVars
  <2>5. QED
    BY <1>6, <2>1, <2>2, <2>3, <2>4 DEF TypeOK, Fixed, PipeStep, MaskInt, ResetCtx,
       Restart, isrVars, callVars, cfgVars
<1>7. CASE UNCHANGED vars
  BY <1>7 DEF TypeOK, vars, pipeVars, isrVars, eventVars, callVars, cfgVars, MaxExit
<1>8. QED
  BY <1>1, <1>2, <1>3, <1>4, <1>5, <1>6, <1>7 DEF Next, Interrupt, Fixed

\* The variables keep their types for any number of callers: in particular
\* u32RegCfgInfoFlag names one of the two halves, and every semaphore is free
\* or held by a caller (isp.c).
THEOREM TypeCorrect == Spec => []TypeOK
<1>1. TypeOK /\ [Next]_vars => TypeOK'
  BY TypeNext
<1>2. QED
  BY TypeInit, <1>1, PTL DEF Spec

-----------------------------------------------------------------------------
(* The events.                                                             *)

\* A caller is between its osal_down and its osal_up exactly when it holds
\* the semaphore of its kind of event: no two callers wait for one flag.
Inside(w) == pc[w] \in {"clear", "wait", "up"}

SemOwned ==
  \A w \in Waiter, k \in Kind :
    sem[k] = w <=> Inside(w) /\ req[w].kind = k

\* No status is written before the wait is over.
Told ==
  /\ StatusTells
  /\ \A w \in Waiter : pc[w] # "up" => ~req[w].status

EventInv == TypeOK /\ SemOwned /\ VdIsFresh /\ NoVdLost /\ Told

\* An event sets the flag of its kind and the history of those who wait for
\* it: the two keep agreeing.
LEMMA EventKeeps ==
  ASSUME EventInv, NEW k \in Kind, Event(k), UNCHANGED callVars
  PROVE  SemOwned' /\ VdIsFresh' /\ NoVdLost' /\ Told'
<1>1. \A w \in Waiter : req[w].kind \in Kind
  BY DEF EventInv, TypeOK
<1>2. SemOwned'
  BY DEF EventInv, SemOwned, Inside, callVars
<1>3. VdIsFresh' /\ NoVdLost'
  BY <1>1 DEF EventInv, TypeOK, VdIsFresh, NoVdLost, Event, callVars
<1>5. Told'
  BY DEF EventInv, TypeOK, Told, StatusTells, Event, callVars
<1>4. QED
  BY <1>2, <1>3, <1>5

LEMMA QuietKeeps ==
  ASSUME EventInv, UNCHANGED eventVars, UNCHANGED callVars
  PROVE  SemOwned' /\ VdIsFresh' /\ NoVdLost' /\ Told'
BY DEF EventInv, SemOwned, Inside, VdIsFresh, NoVdLost, Told, StatusTells, eventVars, callVars

LEMMA EventNext == EventInv /\ [Next]_vars => EventInv'
<1> SUFFICES ASSUME EventInv, [Next]_vars PROVE EventInv'
  OBVIOUS
<1> USE DEF EventInv
<1>0. TypeOK' /\ Nobody \notin Waiter
  BY TypeNext, EventsAssumption
<1>1. ASSUME NEW w \in Waiter, Call(w) \/ CallStep(w) \/ Signal(w)
      PROVE  SemOwned' /\ VdIsFresh' /\ NoVdLost' /\ Told'
  <2> DEFINE k == req[w].kind
  <2>0. k \in Kind
    BY DEF TypeOK
  <2>1. CASE Call(w)
    BY <2>1, <1>0 DEF TypeOK, Call, Goto, SemOwned, Inside, VdIsFresh, NoVdLost,
       Told, StatusTells, eventVars
  <2>2. CASE Down(w)
    <3>1. \A v \in Waiter : v # w => pc'[v] = pc[v]
      BY <2>2 DEF TypeOK, Down, Goto
    <3>2. pc'[w] = "clear" /\ req' = req /\ sem' = [sem EXCEPT ![k] = w]
      BY <2>2 DEF TypeOK, Down, Goto
    <3>3. SemOwned'
      <4>1. \A v \in Waiter, j \in Kind : sem'[j] = v <=> (IF j = k THEN v = w ELSE sem[j] = v)
        BY <2>0, <3>2 DEF TypeOK
      <4>2. \A v \in Waiter : ~(Inside(v) /\ req[v].kind = k)
        BY <2>0, <2>2, <1>0 DEF SemOwned, Down
      <4>3. \A v \in Waiter : Inside(v)' <=> v = w \/ Inside(v)
        BY <3>1, <3>2 DEF Inside
      <4>4. QED
        BY <3>2, <4>1, <4>2, <4>3, <2>2 DEF SemOwned, Inside, Down
    <3>4. VdIsFresh' /\ NoVdLost' /\ Told'
      BY <2>2, <3>1, <3>2 DEF TypeOK, Down, VdIsFresh, NoVdLost, Told, StatusTells,
         eventVars
    <3>5. QED
      BY <3>3, <3>4
  <2>3. CASE Clear(w)
    <3>1. SemOwned'
      BY <2>3, <1>0 DEF TypeOK, Clear, Goto, SemOwned, Inside
    <3>2. \A v \in Waiter : v # w /\ pc[v] = "wait" => req[v].kind # k
      <4>1. Inside(w)
        BY <2>3 DEF Clear, Inside
      <4>2. \A v \in Waiter : pc[v] = "wait" => Inside(v)
        BY DEF Inside
      <4>3. QED
        BY <2>0, <4>1, <4>2 DEF SemOwned
    <3>3. VdIsFresh' /\ NoVdLost' /\ Told'
      BY <2>0, <2>3, <3>2 DEF TypeOK, Clear, Goto, VdIsFresh, NoVdLost, Told,
         StatusTells
    <3>4. QED
      BY <3>1, <3>3
  <2>4. CASE WaitSucceeds(w) \/ WaitFails(w)
    <3>1. pc[w] = "wait" /\ pc' = [pc EXCEPT ![w] = "up"]
      BY <2>4 DEF WaitSucceeds, WaitFails, Goto
    <3>2. flag' = flag /\ sem' = sem /\ fired' = fired
      BY <2>4 DEF WaitSucceeds, WaitFails, eventVars
    <3>3. \A v \in Waiter : /\ Inside(v)' <=> Inside(v)
                            /\ req'[v].kind = req[v].kind
                            /\ v # w => req'[v] = req[v] /\ pc'[v] = pc[v]
      BY <2>4, <3>1 DEF TypeOK, Inside, WaitSucceeds, WaitFails
    <3>4. SemOwned'
      BY <3>2, <3>3, <1>0 DEF TypeOK, SemOwned
    <3>5. VdIsFresh' /\ NoVdLost'
      BY <3>1, <3>2, <3>3 DEF TypeOK, VdIsFresh, NoVdLost
    <3>7. req'[w].status <=> fired[w]
      BY <2>4, <3>1 DEF TypeOK, WaitSucceeds, WaitFails, VdIsFresh, NoVdLost, Told
    <3>8. Told'
      BY <3>1, <3>2, <3>3, <3>7 DEF TypeOK, Told, StatusTells
    <3>6. QED
      BY <3>4, <3>5, <3>8
  <2>5. CASE DownSignal(w)
    BY <2>5, <1>0 DEF TypeOK, DownSignal, Return, NoRequest, Goto, SemOwned, Inside,
       VdIsFresh, NoVdLost, Told, StatusTells, eventVars
  <2>6. CASE Up(w)
    <3>1. sem[k] = w
      BY <2>0, <2>6 DEF Up, SemOwned, Inside
    <3>2. \A v \in Waiter : v # w => pc'[v] = pc[v] /\ req'[v] = req[v]
      BY <2>6 DEF TypeOK, Up, Return, Goto
    <3>3. pc'[w] = "idle" /\ sem' = [sem EXCEPT ![k] = Nobody]
      BY <2>6 DEF TypeOK, Up, Return, Goto
    <3>4. SemOwned'
      <4>1. \A v \in Waiter, j \in Kind : sem'[j] = v <=> j # k /\ sem[j] = v
        BY <2>0, <3>3, <1>0 DEF TypeOK
      <4>2. \A v \in Waiter : Inside(v)' <=> v # w /\ Inside(v)
        BY <3>2, <3>3 DEF Inside
      <4>3. \A v \in Waiter : v # w /\ Inside(v) => req[v].kind # k
        BY <2>0, <3>1 DEF SemOwned
      <4>4. \A j \in Kind : j # k => sem[j] # w
        BY DEF SemOwned
      <4>5. QED
        BY <3>2, <4>1, <4>2, <4>3, <4>4 DEF SemOwned, Inside
    <3>5. VdIsFresh' /\ NoVdLost'
      BY <2>6, <3>2, <3>3 DEF TypeOK, Up, VdIsFresh, NoVdLost
    <3>7. ~req'[w].status /\ \A v \in Waiter : v # w => fired'[v] = fired[v]
      BY <2>6 DEF TypeOK, Up, Return, NoRequest
    <3>8. Told'
      BY <3>2, <3>3, <3>7 DEF Told, StatusTells
    <3>6. QED
      BY <3>4, <3>5, <3>8
  <2>7. QED
    BY <1>1, <2>1, <2>2, <2>3, <2>4, <2>5, <2>6 DEF CallStep, Signal
<1>2. CASE Handler \/ Interrupt
  <2>1. CASE UNCHANGED eventVars /\ UNCHANGED callVars
    BY <1>0, <2>1, QuietKeeps
  <2>2. CASE (Event("end") \/ Event("start") \/ Event("beEnd")) /\ UNCHANGED callVars
    BY <1>0, <2>2, EventKeeps DEF Kind
  <2>3. QED
    BY <1>2, <2>1, <2>2 DEF Handler, Interrupt, BottomHalf, Route, StatBegin, StatEnd,
       WakeUpThread, TopHalf, BeEndIntProc
<1>3. CASE Firmware \/ UNCHANGED vars
  <2>1. UNCHANGED eventVars /\ UNCHANGED callVars
    BY <1>3 DEF Firmware, CopyFirst, CopySecond, Flip, vars
  <2>2. QED
    BY <1>0, <2>1, QuietKeeps
<1>4. CASE PipeStep
  <2>1. CASE ResetCtx
    <3>1. UNCHANGED callVars /\ flag' = [k \in Kind |-> FALSE]
          /\ fired' = [w \in Waiter |-> fired[w] /\ pc[w] # "wait"]
      BY <2>1 DEF ResetCtx
    <3>2. \A w \in Waiter : req[w].kind \in Kind
      BY DEF TypeOK
    <3>3. SemOwned'
      BY <3>1 DEF SemOwned, Inside, callVars
    <3>4. VdIsFresh' /\ NoVdLost' /\ Told'
      BY <3>1, <3>2 DEF VdIsFresh, NoVdLost, Told, StatusTells, callVars
    <3>5. QED
      BY <1>0, <3>3, <3>4
  <2>2. CASE MaskInt \/ Restart
    <3>1. UNCHANGED eventVars /\ UNCHANGED callVars
      BY <2>2 DEF MaskInt, Restart
    <3>2. QED
      BY <1>0, <3>1, QuietKeeps
  <2>3. QED
    BY <1>4, <2>1, <2>2 DEF PipeStep
<1>5. QED
  BY <1>0, <1>1, <1>2, <1>3, <1>4 DEF Next

LEMMA EventInvHolds == Spec => []EventInv
<1>1. Init => EventInv
  <2> SUFFICES ASSUME Init PROVE EventInv
    OBVIOUS
  <2>1. \A w \in Waiter : pc[w] = "idle"
    BY DEF Init
  <2>2. \A k \in Kind : sem[k] = Nobody
    BY DEF Init
  <2>3. QED
    BY <2>1, <2>2, TypeInit, EventsAssumption
    DEF EventInv, SemOwned, Inside, VdIsFresh, NoVdLost, Told, StatusTells, Init,
        NoRequest
<1>2. EventInv /\ [Next]_vars => EventInv'
  BY EventNext
<1>3. QED
  BY <1>1, <1>2, PTL DEF Spec

\* One flag and one semaphore per kind of event serve any number of callers,
\* and still the flag of a waiting caller, and the u32IntStatus copied back to
\* it, tell it of an event exactly when it came while the caller waited: not
\* of an old one, and none is cleared by another caller.  The HI_SUCCESS of the
\* ioctl tells nothing: timed-out callers get it too.
THEOREM ToldRight == Spec => []ToldExactly
<1>1. EventInv => ToldExactly
  BY DEF EventInv, ToldExactly, Told
<1>2. QED
  BY EventInvHolds, <1>1, PTL

-----------------------------------------------------------------------------
(* The double buffer of kernel configurations.                             *)

\* The active half is complete, and so is the other one before the exchange.
CfgInv ==
  /\ TypeOK
  /\ cfg[act][1] = cfg[act][2]
  /\ wr = 2 => cfg[1 - act][1] = cfg[1 - act][2]

LEMMA CfgNext == CfgInv /\ [Next]_vars => CfgInv'
<1> SUFFICES ASSUME CfgInv, [Next]_vars PROVE CfgInv'
  OBVIOUS
<1>0. TypeOK' /\ act \in 0..1 /\ 1 - act \in 0..1 /\ 1 - act # act
      /\ 1 - (1 - act) = act
  BY TypeNext DEF CfgInv, TypeOK
<1>1. CASE CopyFirst
  BY <1>0, <1>1 DEF CfgInv, TypeOK, CopyFirst
<1>2. CASE CopySecond
  <2>1. cfg'[act] = cfg[act] /\ act' = act
    BY <1>0, <1>2 DEF CfgInv, TypeOK, CopySecond
  <2>2. cfg'[1 - act][1] = cfg'[1 - act][2]
    BY <1>0, <1>2 DEF CfgInv, TypeOK, CopySecond
  <2>3. QED
    BY <1>0, <2>1, <2>2 DEF CfgInv
<1>3. CASE Flip
  BY <1>0, <1>3 DEF CfgInv, Flip
<1>4. CASE UNCHANGED cfgVars
  BY <1>0, <1>4 DEF CfgInv, cfgVars
<1>5. QED
  BY <1>1, <1>2, <1>3, <1>4
  DEF Next, vars, Call, CallStep, Signal, Down, DownSignal, Clear, WaitSucceeds,
      WaitFails, Up, Handler, BottomHalf, Route, StatBegin, StatEnd, WakeUpThread,
      Interrupt, TopHalf, BeEndIntProc, Firmware, PipeStep, MaskInt, ResetCtx, Restart

\* While the handler reads the statistics under g_stIspLock, the half of
\* astKernelCfg it reads is complete, stays the active one and is not written.
THEOREM ConfigNotTorn == Spec => CfgNotTorn
<1> DEFINE Whole == isr = "read" => /\ cfg[act][1] = cfg[act][2]
                                    /\ act' = act /\ cfg'[act] = cfg[act]
<1>1. Init => CfgInv
  BY TypeInit DEF Init, CfgInv
<1>2. CfgInv /\ [Next]_vars => CfgInv'
  BY CfgNext
<1>3. CfgInv /\ [Next]_vars => [Whole]_vars
  <2> SUFFICES ASSUME CfgInv, [Next]_vars, isr = "read"
               PROVE  act' = act /\ cfg'[act] = cfg[act]
    BY DEF CfgInv
  <2>1. CASE CopyFirst \/ CopySecond
    BY <2>1 DEF CfgInv, TypeOK, CopyFirst, CopySecond
  <2>2. CASE UNCHANGED cfgVars
    BY <2>2 DEF cfgVars
  <2>3. QED
    BY <2>1, <2>2
    DEF Next, vars, Call, CallStep, Signal, Down, DownSignal, Clear, WaitSucceeds,
        WaitFails, Up, Handler, BottomHalf, Route, StatBegin, StatEnd, WakeUpThread,
        Interrupt, TopHalf, BeEndIntProc, Firmware, Flip, Unlocked, PipeStep, MaskInt,
        ResetCtx, Restart
<1>4. QED
  BY <1>1, <1>2, <1>3, PTL DEF Spec, CfgNotTorn
=============================================================================
