---------------------------- MODULE PirisProofs -----------------------------
(***************************************************************************)
(* Theorems about the P-iris driver, for every range of targets, length of *)
(* the iris and hysteresis: the timer runs while the motor needs it, and   *)
(* SET_ORGIN and SET_CLOSE only overwrite the position with the truth.     *)
(***************************************************************************)
EXTENDS Piris, TLAPS

-----------------------------------------------------------------------------
(* The types.                                                              *)

\* A call that waits has set a target, and one that is to move has moves left.
PirisType ==
  /\ TypeOK
  /\ call.at = "init" => dest \in -Limit..Limit
  /\ call.at = "move" => call.left > 0

LEMMA Constants == Limit \in Nat \ {0} /\ Lens \in Nat \ {0} /\ HysSteps \in Nat
                   /\ HysSteps >= Lens - 1
BY PirisAssumption

LEMMA ClampRange ==
  ASSUME NEW p \in Int
  PROVE  /\ Clamp(p) \in -Limit..Limit
         /\ p \in -Limit..Limit => Clamp(p) = p
BY Constants DEF Clamp

LEMMA RequestTypes ==
  ASSUME NEW r \in Request
  PROVE  r.cur \in Int /\ r.total \in Nat /\ r.zeroIsMax \in BOOLEAN
BY Constants DEF Request

LEMMA NewCallTypes ==
  ASSUME TypeOK, NEW r \in Request, NEW origin \in BOOLEAN
  PROVE  LET c == NewCall(r, origin, "update")
         IN /\ c \in [at : {"none", "update", "init", "wait", "move", "set"},
                      left : 0..4, pos : Int, sign : {-1, 1}, total : Nat,
                      zeroIsMax : BOOLEAN, origin : BOOLEAN, fits : BOOLEAN]
            /\ c.at = "update"
<1>1. Fits(r, origin) \in BOOLEAN
  BY DEF Fits
<1>2. QED
  BY <1>1, RequestTypes DEF NewCall

\* One step of the motor in either direction.
LEMMA MotorStep ==
  ASSUME TypeOK, StepMotor(Direction)
  PROVE  /\ Direction \in {-1, 1}
         /\ motor' \in 0..(Lens - 1)
         /\ motor' = IF motor + Direction \in 0..(Lens - 1)
                       THEN motor + Direction ELSE motor
BY Constants DEF TypeOK, StepMotor, Direction

LEMMA TypeInit == Init => PirisType
<1> SUFFICES ASSUME Init PROVE PirisType
  OBVIOUS
<1>1. NoCall \in [at : {"none", "update", "init", "wait", "move", "set"},
                  left : 0..4, pos : Int, sign : {-1, 1}, total : Nat,
                  zeroIsMax : BOOLEAN, origin : BOOLEAN, fits : BOOLEAN]
  BY DEF NoCall
<1>2. call.at = "none"
  BY DEF Init, NoCall
<1>3. {pending, running, uaf} \subseteq BOOLEAN
  BY DEF Init
<1>4. QED
  BY <1>1, <1>2, <1>3 DEF Init, TypeOK, PirisType

\* The ioctls that may be under way.
Calls == [at : {"none", "update", "init", "wait", "move", "set"},
          left : 0..4, pos : Int, sign : {-1, 1}, total : Nat,
          zeroIsMax : BOOLEAN, origin : BOOLEAN, fits : BOOLEAN]

LEMMA TypeNext == PirisType /\ [Next]_vars => PirisType'
<1> SUFFICES ASSUME PirisType, [Next]_vars PROVE PirisType'
  OBVIOUS
<1> USE Constants DEF PirisType
<1>0. env' = env
  BY DEF Next, vars
<1>1. CASE Expire
  BY <1>0, <1>1 DEF Expire, TypeOK, posVars
<1>2. CASE Callback
  <2>1. CASE UNCHANGED posVars
    BY <1>0, <1>2, <2>1 DEF Callback, TypeOK, posVars
  <2>2. CASE src # dest /\ src' = src + Direction /\ StepMotor(Direction)
             /\ phase' = (phase + 4 + Direction) % 4 /\ dest' = dest
    <3>1. Direction \in {-1, 1} /\ motor' \in 0..(Lens - 1)
      BY <2>2, MotorStep
    <3>2. phase' \in 0..3 /\ src' \in Int
      BY <2>2, <3>1 DEF TypeOK
    <3>3. done' \in Nat /\ module' = module /\ call' = call
      BY <1>2 DEF Callback, TypeOK
    <3>5. pending' \in {TRUE, pending} /\ running' = FALSE /\ uaf' \in {TRUE, uaf}
      BY <1>2 DEF Callback
    <3>4. QED
      BY <1>0, <2>2, <3>1, <3>2, <3>3, <3>5 DEF TypeOK
  <2>3. QED
    BY <1>2, <2>1, <2>2 DEF Callback
<1>3. CASE HandlerUpdate
  <2>1. dest' = dest \/ dest' \in -Limit..Limit
    BY <1>3, ClampRange DEF HandlerUpdate, Update
  <2>2. dest' \in Int
    BY <2>1 DEF TypeOK
  <2>4. pending' \in {TRUE, pending} /\ uaf' \in {TRUE, uaf}
    BY <1>3 DEF HandlerUpdate, Update
  <2>3. QED
    BY <1>0, <1>3, <2>1, <2>2, <2>4 DEF HandlerUpdate, TypeOK
<1>4. CASE SetActArgs
  <2>1. dest' \in -Limit..Limit /\ pending' = TRUE
    BY <1>4, ClampRange DEF SetActArgs, Update
  <2>2. QED
    BY <1>0, <1>4, <2>1 DEF SetActArgs, TypeOK
<1>5. CASE SetOrgin \/ SetClose
  <2>1. call' \in Calls /\ call'.at = "update"
    BY <1>5, NewCallTypes DEF SetOrgin, SetClose, Calls
  <2>2. QED
    <3>1. done' \in {0, done} /\ module' = module /\ uaf' = uaf
      BY <1>5 DEF SetOrgin, SetClose, posVars, timerVars
    <3>2. /\ src' = src /\ dest' = dest /\ phase' = phase /\ motor' = motor
          /\ pending' = pending /\ running' = running
      BY <1>5 DEF SetOrgin, SetClose, posVars, timerVars
    <3>3. call'.at \notin {"init", "wait", "move"}
      BY <2>1
    <3>4. QED
      BY <1>0, <2>1, <3>1, <3>2, <3>3 DEF TypeOK, Calls
<1>6. CASE FirstUpdate
  <2>1. dest' \in -Limit..Limit /\ pending' = TRUE
    BY <1>6, ClampRange DEF FirstUpdate, Update, TypeOK
  <2>2. call' \in Calls /\ call'.at \in {"init", "wait"}
    BY <1>6 DEF FirstUpdate, Goto, TypeOK, Calls
  <2>3. QED
    BY <1>0, <1>6, <2>1, <2>2 DEF FirstUpdate, TypeOK, Calls
<1>7. CASE InitCompletion
  <2>1. call' \in Calls /\ call'.at = "wait"
    BY <1>7 DEF InitCompletion, Goto, TypeOK, Calls
  <2>2. QED
    BY <1>0, <1>7, <2>1 DEF InitCompletion, TypeOK, Calls, posVars, timerVars
<1>8. CASE Wait
  <2>1. call' \in Calls /\ call'.at \in {"move", "set"}
        /\ (call'.at = "move" => call'.left > 0)
    BY <1>8 DEF Wait, Goto, TypeOK, Calls
  <2>2. QED
    BY <1>0, <1>8, <2>1 DEF Wait, TypeOK, Calls, posVars, timerVars
<1>9. CASE Move
  <2> DEFINE pos == call.pos + call.sign * (IF call.left > 1 THEN HysSteps ELSE call.total)
  <2>1. call \in Calls /\ call.left \in 1..4
    BY <1>9 DEF Move, TypeOK, Calls
  <2>7. call.left \in 0..4 /\ call.left - 1 \in 0..4 /\ -call.sign \in {-1, 1}
    BY <2>1 DEF Calls
  <2>2. pos \in Int
    BY <2>1 DEF Calls
  <2>3. dest' = Clamp(pos) /\ pending' = TRUE
    BY <1>9 DEF Move, Update
  <2>4. call' = [call EXCEPT !.at = "wait", !.left = @ - 1, !.pos = pos, !.sign = -@]
    BY <1>9 DEF Move
  <2>5. call' \in Calls /\ call'.at = "wait"
    <3> HIDE DEF pos
    <3>1. QED
      BY <2>1, <2>2, <2>4, <2>7 DEF Calls
  <2>6. QED
    BY <1>0, <1>9, <2>2, <2>3, <2>5, ClampRange DEF Move, TypeOK, Calls
<1>10. CASE SetPosition
  <2>1. StopPosition \in Int
    BY DEF StopPosition, TypeOK
  <2>2. NoCall \in Calls /\ NoCall.at = "none"
    BY DEF NoCall, Calls
  <2>3. QED
    BY <1>0, <1>10, <2>1, <2>2 DEF SetPosition, TypeOK, timerVars, Calls
<1>11. CASE DelTimer \/ Free \/ UnregisterIsp \/ Load
  <2>1. CASE DelTimer
    BY <1>0, <2>1 DEF DelTimer, TypeOK, posVars
  <2>2. CASE Free \/ UnregisterIsp
    BY <1>0, <2>2 DEF Free, UnregisterIsp, TypeOK, posVars, timerVars
  <2>3. CASE Load
    BY <1>0, <2>3 DEF Load, TypeOK, timerVars
  <2>4. QED
    BY <1>11, <2>1, <2>2, <2>3
<1>12. CASE UNCHANGED vars
  BY <1>12 DEF vars, TypeOK, posVars, timerVars
<1>13. QED
  BY <1>1, <1>2, <1>3, <1>4, <1>5, <1>6, <1>7, <1>8, <1>9, <1>10, <1>11, <1>12
  DEF Next, Step, CallStep

\* The variables keep their types, and a target an ioctl waits for is within
\* the range of the motor (piris_gpio_update).
THEOREM TypeCorrect == Spec => []TypeOK
<1>1. PirisType => TypeOK
  BY DEF PirisType
<1>2. QED
  BY TypeInit, TypeNext, <1>1, PTL DEF Spec

-----------------------------------------------------------------------------
(* The timer.                                                              *)

\* An ioctl needs an open file, so none is under way while piris_exit runs;
\* on one CPU and without the handler nothing arms the timer again after it
\* was deleted.
TimerInv ==
  /\ TimerArmed
  /\ call.at # "none" => module = "live"
  /\ ~env.smp /\ ~env.handler =>
       ~uaf /\ (module # "live" => ~pending /\ ~running)

LEMMA TimerInit == Init => TimerInv
BY DEF Init, NoCall, TimerInv, TimerArmed

LEMMA TimerNext == PirisType /\ TimerInv /\ [Next]_vars => TimerInv'
<1> SUFFICES ASSUME PirisType, TimerInv, [Next]_vars PROVE TimerInv'
  OBVIOUS
<1> USE DEF TimerInv, TimerArmed
<1>0. env' = env /\ {pending, running, uaf} \subseteq BOOLEAN
  BY DEF Next, vars, PirisType, TypeOK
<1>1. CASE Expire
  BY <1>0, <1>1 DEF Expire, posVars
<1>2. CASE Callback
  BY <1>0, <1>2 DEF Callback, posVars
<1>3. CASE HandlerUpdate
  BY <1>0, <1>3 DEF HandlerUpdate, Update
<1>4. CASE SetActArgs
  BY <1>0, <1>4 DEF SetActArgs, CanCall, Idle, Update
<1>5. CASE SetOrgin \/ SetClose
  <2>1. module = "live" /\ module' = module /\ UNCHANGED posVars /\ UNCHANGED timerVars
        /\ uaf' = uaf
    BY <1>5 DEF SetOrgin, SetClose, MayMove, CanCall
  <2>2. QED
    BY <1>0, <2>1 DEF posVars, timerVars
<1>6. CASE FirstUpdate \/ Move
  BY <1>0, <1>6 DEF FirstUpdate, Move, Update, Goto
<1>7. CASE InitCompletion \/ Wait
  BY <1>0, <1>7 DEF InitCompletion, Wait, Goto, posVars, timerVars
<1>8. CASE SetPosition
  BY <1>0, <1>8 DEF SetPosition, timerVars, NoCall
<1>9. CASE DelTimer
  BY <1>0, <1>9 DEF DelTimer, Idle, Runs, posVars
<1>10. CASE Free \/ UnregisterIsp
  BY <1>0, <1>10 DEF Free, UnregisterIsp, posVars, timerVars
<1>11. CASE Load
  BY <1>0, <1>11 DEF Load, timerVars
<1>12. CASE UNCHANGED vars
  BY <1>12 DEF vars, posVars, timerVars
<1>13. QED
  BY <1>1, <1>2, <1>3, <1>4, <1>5, <1>6, <1>7, <1>8, <1>9, <1>10, <1>11, <1>12
  DEF Next, Step, CallStep

\* A motor that is short of its target has its timer armed or its callback
\* due, whatever races (piris_timer_cb and piris_gpio_update under one lock);
\* and piris_exit leaves nobody with the freed device on one CPU and without
\* the ISP's handler.
THEOREM TimerAlwaysKept == Spec => []TimerKept
<1>1. PirisType /\ TimerInv => TimerKept
  BY DEF TimerInv, TimerKept, NoUseAfterFree
<1>2. QED
  BY TypeInit, TypeNext, TimerInit, TimerNext, <1>1, PTL DEF Spec

-----------------------------------------------------------------------------
(* What SET_ORGIN and SET_CLOSE make of the position.                      *)

\* Between two moves the motor is at rest and no completion is left over; a
\* completion that comes during a wait is that of its own move.
AtRest ==
  /\ call.at \in {"update", "move", "set"} => src = dest
  /\ call.at \in {"move", "set"} => done = 0
  /\ call.at = "update" /\ ~call.origin => done = 0
  /\ call.at = "wait" => done \in {0, 1} /\ (done = 1 => src = dest)

\* The moves left, and the sign with which the sequence began.
FirstSign == IF call.zeroIsMax THEN 1 ELSE -1

Sequence ==
  /\ call.at = "set" => call.left = 0
  /\ call.at # "none" /\ ~call.origin => call.left = 0
  /\ call.at \in {"update", "init"} /\ call.origin => call.left = 4
  /\ call.at = "init" => call.origin

\* A request to open that fits is at its first position, or a hysteresis away.
Planned ==
  call.at # "none" /\ call.origin /\ call.fits /\ call.left > 0 =>
    /\ call.at # "update" => dest = call.pos
    /\ call.left \in {4, 2} =>
         /\ call.sign = FirstSign
         /\ call.pos + HysSteps <= Limit /\ call.pos - HysSteps >= -Limit
    /\ call.left \in {3, 1} =>
         /\ call.sign = -FirstSign
         /\ IF call.zeroIsMax
              THEN call.pos <= Limit /\ call.pos - 2 * HysSteps >= -Limit
              ELSE call.pos >= -Limit /\ call.pos + 2 * HysSteps <= Limit

\* A request to close that fits has a whole range before it.
Ahead ==
  call.at = "update" /\ ~call.origin /\ call.fits =>
    IF call.zeroIsMax THEN Clamp(call.pos) - src >= Lens - 1
                      ELSE src - Clamp(call.pos) >= Lens - 1

\* On the last move what is left to drive is enough to reach the stop.
Driven ==
  call.at \in {"wait", "set"} /\ call.left = 0 /\ call.fits =>
    IF call.zeroIsMax = call.origin
      THEN dest <= src /\ motor <= src - dest
      ELSE src <= dest /\ Lens - 1 - motor <= dest - src

Polite == env.polite /\ ~env.handler

CalInv ==
  /\ call.at # "none" /\ call.fits => call.total = Lens
  /\ Sequence
  /\ Polite => AtRest /\ Planned /\ Ahead /\ Driven

LEMMA CalCallback ==
  ASSUME PirisType, CalInv, Callback, env' = env
  PROVE  CalInv'
<1> USE Constants DEF CalInv
<1>1. call' = call /\ Polite' = Polite
  BY DEF Callback, Polite
<1>2. CASE UNCHANGED posVars /\ done' = done
  BY <1>1, <1>2 DEF posVars, AtRest, Sequence, Planned, Ahead, Driven, FirstSign, Clamp
<1>3. CASE src # dest /\ src' = src + Direction /\ StepMotor(Direction)
           /\ dest' = dest /\ done' = IF src' = dest THEN done + 1 ELSE done
  <2>0. src \in Int /\ dest \in Int /\ motor \in 0..(Lens - 1) /\ done \in Nat
    BY DEF PirisType, TypeOK
  <2>1. motor' = IF motor + Direction \in 0..(Lens - 1)
                   THEN motor + Direction ELSE motor
    BY <1>3, MotorStep DEF PirisType
  <2>2. Direction = IF dest < src THEN -1 ELSE 1
    BY DEF Direction
  <2>3. Polite => AtRest'
    BY <1>1, <1>3, <2>0, <2>2 DEF AtRest
  <2>4. Polite => Driven'
    BY <1>1, <1>3, <2>0, <2>1, <2>2 DEF Driven
  <2>5. Polite => Planned' /\ Ahead'
    BY <1>1, <1>3 DEF Planned, Ahead, FirstSign, AtRest
  <2>6. QED
    BY <1>1, <2>3, <2>4, <2>5 DEF Sequence
<1>4. QED
  BY <1>2, <1>3 DEF Callback

\* A call begins.
LEMMA CalBegin ==
  ASSUME PirisType, CalInv, SetOrgin \/ SetClose, env' = env
  PROVE  CalInv'
<1> USE Constants
<1>0. MayMove /\ dest' = dest /\ src' = src
  BY DEF SetOrgin, SetClose, posVars
<1>1. PICK r \in Request, origin \in BOOLEAN :
        /\ call' = NewCall(r, origin, "update")
        /\ ~origin => done' = 0
  BY DEF SetOrgin, SetClose
<1>2. /\ call'.at = "update" /\ call'.origin = origin /\ call'.total = r.total
      /\ call'.pos = r.cur /\ call'.zeroIsMax = r.zeroIsMax
      /\ call'.fits = Fits(r, origin)
      /\ call'.left = IF origin THEN 4 ELSE 0
      /\ call'.sign = IF r.zeroIsMax THEN 1 ELSE -1
  BY <1>1 DEF NewCall
<1>3. Polite' = Polite /\ (Polite => src = dest)
  BY <1>0 DEF Polite, MayMove
<1>4. call'.fits => call'.total = Lens
  BY <1>2 DEF Fits
<1>5. Polite => AtRest'
  BY <1>0, <1>1, <1>2, <1>3 DEF AtRest
<1>6. Planned' /\ Ahead'
  BY <1>0, <1>2, RequestTypes DEF Planned, Ahead, FirstSign, Fits
<1>7. Sequence' /\ Driven'
  BY <1>2 DEF Sequence, Driven
<1>8. QED
  BY <1>3, <1>4, <1>5, <1>6, <1>7 DEF CalInv

\* The first move of a call.
LEMMA CalFirst ==
  ASSUME PirisType, CalInv, FirstUpdate, env' = env
  PROVE  CalInv'
<1> USE Constants DEF CalInv
<1>0. /\ call.at = "update" /\ call \in Calls
      /\ src \in Int /\ motor \in 0..(Lens - 1) /\ done \in Nat
      /\ src' = src /\ motor' = motor /\ done' = done
      /\ dest' = Clamp(call.pos)
      /\ Polite' = Polite
  BY DEF FirstUpdate, PirisType, TypeOK, Calls, Update, Polite
<1>1. /\ call'.at = IF call.origin THEN "init" ELSE "wait"
      /\ call'.origin = call.origin /\ call'.total = call.total
      /\ call'.pos = call.pos /\ call'.zeroIsMax = call.zeroIsMax
      /\ call'.fits = call.fits /\ call'.left = call.left /\ call'.sign = call.sign
  BY DEF FirstUpdate, Goto, PirisType, TypeOK
<1>2. call.pos \in Int /\ Clamp(call.pos) \in -Limit..Limit
      /\ (call.pos \in -Limit..Limit => Clamp(call.pos) = call.pos)
  BY <1>0, ClampRange DEF Calls
<1>3. Sequence'
  BY <1>0, <1>1 DEF Sequence
<1>4. Polite => AtRest'
  BY <1>0, <1>1 DEF AtRest
<1>5. Polite => Planned'
  BY <1>0, <1>1, <1>2 DEF Planned, FirstSign, Sequence
<1>6. Ahead'
  BY <1>1 DEF Ahead
<1>7. Polite => Driven'
  BY <1>0, <1>1, <1>2 DEF Driven, Ahead, Sequence, Calls
<1>8. QED
  BY <1>0, <1>1, <1>3, <1>4, <1>5, <1>6, <1>7

\* Every other move: a hysteresis back and forth, and the whole range at last.
LEMMA CalMove ==
  ASSUME PirisType, CalInv, Move, env' = env
  PROVE  CalInv'
<1> USE Constants DEF CalInv
<1> DEFINE steps == IF call.left > 1 THEN HysSteps ELSE call.total
           pos   == call.pos + call.sign * steps
<1>0. /\ call.at = "move" /\ call \in Calls /\ call.left \in 1..4
      /\ src \in Int /\ motor \in 0..(Lens - 1) /\ done \in Nat
      /\ src' = src /\ motor' = motor /\ done' = done
      /\ dest' = Clamp(pos)
      /\ Polite' = Polite
  BY DEF Move, PirisType, TypeOK, Calls, Update, Polite
<1>1. /\ call'.at = "wait" /\ call'.left = call.left - 1
      /\ call'.origin = call.origin /\ call'.total = call.total
      /\ call'.pos = pos /\ call'.zeroIsMax = call.zeroIsMax
      /\ call'.fits = call.fits /\ call'.sign = -call.sign
  BY <1>0 DEF Move, Calls
<1>2. call.pos \in Int /\ call.sign \in {-1, 1} /\ steps \in Nat
  BY <1>0 DEF Calls
<1>3. pos = IF call.sign = 1 THEN call.pos + steps ELSE call.pos - steps
  BY <1>2
<1> HIDE DEF pos
<1>4. pos \in Int
  BY <1>2, <1>3
<1>5. call.origin
  BY <1>0 DEF Sequence, Calls
<1>6. Sequence'
  BY <1>0, <1>1, <1>5 DEF Sequence
<1>7. Polite => AtRest'
  BY <1>0, <1>1 DEF AtRest
<1>8. Ahead'
  BY <1>1 DEF Ahead
<1>9. ASSUME Polite, call.fits, call.left > 1
      PROVE  Planned'
  <2>1. steps = HysSteps
    BY <1>9
  <2>2. CASE call.left \in {4, 2}
    <3>1. pos \in -Limit..Limit /\ call'.left \in {3, 1}
          /\ call'.sign = -(FirstSign')
          /\ (IF call.zeroIsMax
                THEN pos <= Limit /\ pos - 2 * HysSteps >= -Limit
                ELSE pos >= -Limit /\ pos + 2 * HysSteps <= Limit)
      BY <1>0, <1>1, <1>2, <1>3, <1>5, <1>9, <2>1, <2>2 DEF Planned, FirstSign
    <3>2. QED
      BY <1>0, <1>1, <1>4, <3>1, ClampRange DEF Planned
  <2>3. CASE call.left = 3
    <3>1. pos \in -Limit..Limit /\ call'.left = 2
          /\ call'.sign = FirstSign'
          /\ pos + HysSteps <= Limit /\ pos - HysSteps >= -Limit
      BY <1>0, <1>1, <1>2, <1>3, <1>5, <1>9, <2>1, <2>3 DEF Planned, FirstSign
    <3>2. QED
      BY <1>0, <1>1, <1>4, <3>1, ClampRange DEF Planned
  <2>4. QED
    BY <1>0, <1>9, <2>2, <2>3
<1>10. ASSUME Polite, call.fits, call.left = 1
       PROVE  Driven'
  <2>1. steps = Lens
    BY <1>0, <1>10
  <2>2. src = call.pos /\ call.sign = -FirstSign
    BY <1>0, <1>5, <1>10 DEF Planned, AtRest
  <2>3. CASE call.zeroIsMax
    <3>1. pos = src - Lens /\ src <= Limit /\ src - 2 * HysSteps >= -Limit
      BY <1>0, <1>2, <1>3, <1>5, <1>10, <2>1, <2>2, <2>3 DEF Planned, FirstSign
    <3>2. Clamp(pos) <= src /\ src - Clamp(pos) >= Lens - 1
      BY <1>0, <1>4, <3>1 DEF Clamp
    <3>3. QED
      BY <1>0, <1>1, <1>5, <2>3, <3>2, <1>4, ClampRange DEF Driven, Calls
  <2>4. CASE ~call.zeroIsMax
    <3>1. pos = src + Lens /\ src >= -Limit /\ src + 2 * HysSteps <= Limit
      BY <1>0, <1>2, <1>3, <1>5, <1>10, <2>1, <2>2, <2>4 DEF Planned, FirstSign
    <3>2. Clamp(pos) >= src /\ Clamp(pos) - src >= Lens - 1
      BY <1>0, <1>4, <3>1 DEF Clamp
    <3>3. call.zeroIsMax # call.origin
      BY <1>0, <1>5, <2>4 DEF Calls
    <3>4. QED
      BY <1>0, <1>1, <3>2, <3>3, <1>4, ClampRange DEF Driven
  <2>5. QED
    BY <2>3, <2>4
<1>11. call'.left > 0 <=> call.left > 1
  BY <1>0, <1>1
<1>12. call'.left = 0 <=> call.left = 1
  BY <1>0, <1>1
<1>13. Polite => Planned' /\ Driven'
  <2>1. Polite => Planned'
    BY <1>1, <1>9, <1>11 DEF Planned
  <2>2. Polite => Driven'
    BY <1>1, <1>10, <1>12 DEF Driven
  <2>3. QED
    BY <2>1, <2>2
<1>14. QED
  BY <1>0, <1>1, <1>6, <1>7, <1>8, <1>13

\* The end of a wait, and the completion that is made ready for the first.
LEMMA CalWait ==
  ASSUME PirisType, CalInv, Wait \/ InitCompletion, env' = env
  PROVE  CalInv'
<1> USE DEF CalInv
<1>1. /\ src' = src /\ dest' = dest /\ motor' = motor /\ Polite' = Polite
      /\ done \in Nat /\ call \in Calls
  BY DEF Wait, InitCompletion, posVars, Polite, PirisType, TypeOK, Calls
<1>2. /\ call'.origin = call.origin /\ call'.total = call.total
      /\ call'.pos = call.pos /\ call'.zeroIsMax = call.zeroIsMax
      /\ call'.fits = call.fits /\ call'.left = call.left /\ call'.sign = call.sign
  BY <1>1 DEF Wait, InitCompletion, Goto, Calls
<1>3. \/ /\ call.at = "wait" /\ done > 0 /\ done' = done - 1
         /\ call'.at = IF call.left > 0 THEN "move" ELSE "set"
      \/ call.at = "init" /\ done' = 0 /\ call'.at = "wait"
  BY <1>1 DEF Wait, InitCompletion, Goto, Calls
<1>4. Sequence'
  BY <1>1, <1>2, <1>3 DEF Sequence, Calls
<1>5. Polite => AtRest'
  BY <1>1, <1>2, <1>3 DEF AtRest
<1>6. Polite => Planned'
  BY <1>1, <1>2, <1>3 DEF Planned, FirstSign
<1>7. Ahead'
  BY <1>3 DEF Ahead
<1>8. Polite => Driven'
  <2>1. CASE call.at = "wait"
    BY <1>1, <1>2, <1>3, <2>1 DEF Driven
  <2>2. CASE call.at = "init"
    <3>1. call.left = 4
      BY <1>1, <2>2 DEF Sequence
    <3>2. QED
      BY <1>1, <1>2, <1>3, <2>2, <3>1 DEF Driven
  <2>3. QED
    BY <1>3, <2>1, <2>2
<1>9. QED
  BY <1>1, <1>2, <1>3, <1>4, <1>5, <1>6, <1>7, <1>8

\* Whatever leaves the motor, the call and the completion alone.
LEMMA CalQuiet ==
  ASSUME CalInv, UNCHANGED <<src, dest, motor, done, call, env>>
  PROVE  CalInv'
BY DEF CalInv, AtRest, Sequence, Planned, Ahead, Driven, FirstSign, Polite, Clamp

LEMMA CalNext == PirisType /\ TimerInv /\ CalInv /\ [Next]_vars => CalInv'
<1> SUFFICES ASSUME PirisType, TimerInv, CalInv, [Next]_vars PROVE CalInv'
  OBVIOUS
<1>0. env' = env
  BY DEF Next, vars
<1>1. CASE Callback
  BY <1>0, <1>1, CalCallback
<1>2. CASE SetOrgin \/ SetClose
  BY <1>0, <1>2, CalBegin
<1>3. CASE FirstUpdate
  BY <1>0, <1>3, CalFirst
<1>4. CASE Move
  BY <1>0, <1>4, CalMove
<1>5. CASE Wait \/ InitCompletion
  BY <1>0, <1>5, CalWait
<1>6. CASE HandlerUpdate
  <2>1. ~Polite'
    BY <1>0, <1>6 DEF HandlerUpdate, Polite
  <2>2. QED
    BY <1>6, <2>1 DEF HandlerUpdate, CalInv, Sequence
<1>7. CASE SetActArgs \/ SetPosition \/ Load
  <2>1. call'.at = "none"
    BY <1>7 DEF SetActArgs, SetPosition, Load, CanCall, Idle, NoCall, TimerInv
  <2>2. QED
    BY <2>1 DEF CalInv, Sequence, AtRest, Planned, Ahead, Driven
<1>8. CASE Expire \/ DelTimer \/ Free \/ UnregisterIsp \/ UNCHANGED vars
  BY <1>0, <1>8, CalQuiet
  DEF Expire, DelTimer, Free, UnregisterIsp, vars, posVars
<1>9. QED
  BY <1>1, <1>2, <1>3, <1>4, <1>5, <1>6, <1>7, <1>8 DEF Next, Step, CallStep

\* When SET_ORGIN or SET_CLOSE overwrites the position the motor is at rest,
\* and if the request drove the iris far enough it stands at the stop whose
\* position is written: none of the five waits was ended by another move's
\* completion (piris_origin_set, piris_close_set).
THEOREM CalibrationRight == Spec => CalibrationTrue
<1> DEFINE Honest == SetPosition /\ env.polite /\ ~env.handler =>
                       src = dest /\ (call.fits => motor = StopPosition)
<1>1. Init => CalInv
  BY DEF Init, NoCall, CalInv, Sequence, AtRest, Planned, Ahead, Driven
<1>2. PirisType /\ CalInv /\ [Next]_vars => [Honest]_vars
  <2> SUFFICES ASSUME PirisType, CalInv, SetPosition, Polite
               PROVE  src = dest /\ (call.fits => motor = StopPosition)
    BY DEF Polite
  <2>1. /\ call.at = "set" /\ call.left = 0 /\ src = dest
        /\ src \in Int /\ motor \in 0..(Lens - 1)
    BY DEF SetPosition, CalInv, Sequence, AtRest, PirisType, TypeOK
  <2>2. ASSUME call.fits PROVE motor = StopPosition
    <3>1. call.total = Lens
      BY <2>1, <2>2 DEF CalInv
    <3>2. QED
      BY <2>1, <2>2, <3>1, Constants DEF CalInv, Driven, StopPosition
  <2>3. QED
    BY <2>1, <2>2
<1>3. QED
  BY TypeInit, TypeNext, TimerNext, CalNext, <1>1, <1>2, TimerInit, PTL
  DEF Spec, CalibrationTrue
=============================================================================
