------------------------------- MODULE Piris --------------------------------
(***************************************************************************)
(* The driver of the P-iris motor (ext_drv piris.c), one device.  An ioctl *)
(* or the ISP's interrupt handler sets a target; a timer steps the motor   *)
(* towards it, one step per expiry, and completes piris_comp on arrival.   *)
(* SET_ORGIN and SET_CLOSE drive the motor, wait for the completion and    *)
(* then overwrite the position with what it must be at the stop.  Every    *)
(* ioctl holds the device's semaphore to its end, so that at most one is   *)
(* under way; the handler's updates and the timer do not take it.          *)
(***************************************************************************)
EXTENDS Integers

CONSTANTS
  Limit,       \* 200: targets are clamped to -Limit..Limit
  HysSteps,    \* HYS_STEPS (100): the moves that take up the hysteresis
  Lens,        \* the steps of the iris, MAX_STEPS (92) or less
  MaxDone,     \* bound: no new target while so many completions are unused
  Environment  \* the uses considered, one per behaviour

ASSUME PirisAssumption ==
  /\ Limit \in Nat \ {0} /\ HysSteps \in Nat /\ Lens \in Nat \ {0}
  /\ HysSteps >= Lens - 1
  /\ MaxDone \in Nat
  /\ Environment \subseteq
       [polite : BOOLEAN,   \* SET_ORGIN and SET_CLOSE follow a status of idle
        handler : BOOLEAN,  \* the ISP's handler sets targets as well
        smp : BOOLEAN,      \* the callback runs beside the other CPU's thread
        exits : BOOLEAN]    \* the module is unloaded and loaded

VARIABLES
  env,
  module,   \* how far piris_exit has come
  src,      \* src_pos
  dest,     \* dest_pos
  phase,    \* phase
  pending,  \* the timer is armed
  running,  \* it has expired and the callback has not taken the lock yet
  done,     \* the count of piris_comp
  call,     \* the ioctl that holds the semaphore
  motor,    \* where the iris really is
  uaf       \* history: somebody used the freed PIRIS_DEV

posVars   == <<src, dest, phase, motor>>
timerVars == <<pending, running>>
vars == <<env, module, posVars, timerVars, done, call, uaf>>

Clamp(p) == IF p > Limit THEN Limit ELSE IF p < -Limit THEN -Limit ELSE p

NoCall == [at |-> "none", left |-> 0, pos |-> 0, sign |-> 1, total |-> 0,
           zeroIsMax |-> TRUE, origin |-> FALSE, fits |-> FALSE]

\* PIRIS_DATA_S
Request == [cur : -(Limit + 1)..(Limit + 1), total : {0, Lens, 2 * Limit + 1},
            zeroIsMax : BOOLEAN]

TypeOK ==
  /\ env \in Environment
  /\ module \in {"live", "timerOff", "freed", "gone"}
  /\ src \in Int /\ dest \in Int
  /\ (call.at = "wait" => dest \in -Limit..Limit)
  /\ phase \in 0..3 /\ motor \in 0..(Lens - 1)
  /\ {pending, running, uaf} \subseteq BOOLEAN
  /\ done \in Nat
  /\ call \in [at : {"none", "update", "init", "wait", "move", "set"},
               left : 0..4, pos : Int, sign : {-1, 1}, total : Nat,
               zeroIsMax : BOOLEAN, origin : BOOLEAN, fits : BOOLEAN]

\* kmalloc and memset of PIRIS_DEV; the iris is anywhere.
Init ==
  /\ env \in Environment
  /\ module = "live" /\ uaf = FALSE
  /\ src = 0 /\ dest = 0 /\ phase = 0
  /\ motor \in 0..(Lens - 1)
  /\ pending = FALSE /\ running = FALSE
  /\ done = 0
  /\ call = NoCall

Idle == call.at = "none"

\* On one CPU nothing runs between the expiry and the callback.
Runs == env.smp \/ ~running

-----------------------------------------------------------------------------
(* The timer. *)

\* del_timer has taken a pending timer away; one that was armed again in
\* memory that is free is used after the free.
Expire ==
  /\ pending /\ ~running
  /\ IF module \in {"live", "timerOff"}
       THEN pending' = FALSE /\ running' = TRUE /\ UNCHANGED uaf
       ELSE pending' = FALSE /\ uaf' = TRUE /\ UNCHANGED running
  /\ UNCHANGED <<module, posVars, done, call>>

\* One step of the coils moves the iris by one, unless it is at its stop.
StepMotor(sign) ==
  IF motor + sign \in 0..(Lens - 1) THEN motor' = motor + sign
                                    ELSE UNCHANGED motor

Direction == IF dest < src THEN -1 ELSE 1

\* Mutant: the timer is not armed again.
CallbackOneShot ==
  /\ running
  /\ running' = FALSE
  /\ src # dest /\ module \in {"live", "timerOff"}
  /\ src' = src + Direction
  /\ phase' = (phase + 4 + Direction) % 4
  /\ StepMotor(Direction)
  /\ done' = IF src' = dest THEN done + 1 ELSE done
  /\ UNCHANGED <<module, dest, pending, call, uaf>>

\* Mutant: arrival is looked for before the step.
CallbackLate ==
  /\ running
  /\ running' = FALSE
  /\ \/ /\ src = dest /\ module \in {"live", "timerOff"}
        /\ UNCHANGED <<posVars, pending, done, uaf>>
     \/ /\ src # dest /\ module \in {"live", "timerOff"}
        /\ src' = src + Direction
        /\ phase' = (phase + 4 + Direction) % 4
        /\ StepMotor(Direction)
        /\ UNCHANGED done
        /\ pending' = TRUE
        /\ UNCHANGED <<dest, uaf>>
  /\ UNCHANGED <<module, call>>

\* piris_timer_cb, under the lock.
Callback ==
  /\ running
  /\ running' = FALSE
  /\ \/ /\ src = dest /\ module \in {"live", "timerOff"}
        /\ UNCHANGED <<posVars, pending, done, uaf>>
     \/ /\ src # dest /\ module \in {"live", "timerOff"}
        /\ src' = src + Direction
        /\ phase' = (phase + 4 + Direction) % 4
        /\ StepMotor(Direction)
        /\ done' = IF src' = dest THEN done + 1 ELSE done
        /\ pending' = TRUE
        /\ UNCHANGED <<dest, uaf>>
     \/ /\ module \in {"freed", "gone"}
        /\ uaf' = TRUE
        /\ UNCHANGED <<posVars, pending, done>>
  /\ UNCHANGED <<module, call>>

\* piris_gpio_update, under the lock: add_timer unless it is pending.
Update(p) ==
  /\ dest' = Clamp(p)
  /\ pending' = TRUE

\* The configuration of the sensor carries a position of the iris.
HandlerUpdate ==
  /\ env.handler /\ Runs
  /\ module # "gone"
  /\ done < MaxDone
  /\ IF module = "freed"
       THEN uaf' = TRUE /\ UNCHANGED <<dest, pending>>
       ELSE (\E p \in -(Limit + 1)..(Limit + 1) : Update(p)) /\ UNCHANGED uaf
  /\ UNCHANGED <<module, src, phase, motor, running, done, call>>

-----------------------------------------------------------------------------
(* The ioctls. *)

CanCall == module = "live" /\ Idle /\ Runs

SetActArgs ==
  /\ CanCall
  /\ done < MaxDone
  /\ \E p \in -(Limit + 1)..(Limit + 1) : Update(p)
  /\ UNCHANGED <<module, src, phase, motor, running, done, call, uaf>>

\* History for CalibrationTrue: no move of the request is cut off by the
\* clamp, or, to close, the iris is driven a whole range towards its stop.
Fits(r, origin) ==
  /\ r.total = Lens
  /\ IF origin
       THEN r.cur + HysSteps <= Limit /\ r.cur - HysSteps >= -Limit
       ELSE IF r.zeroIsMax THEN Clamp(r.cur) - src >= Lens - 1
                           ELSE src - Clamp(r.cur) >= Lens - 1

NewCall(r, origin, at) ==
  [at |-> at, left |-> IF origin THEN 4 ELSE 0, pos |-> r.cur,
   sign |-> IF r.zeroIsMax THEN 1 ELSE -1, total |-> r.total,
   zeroIsMax |-> r.zeroIsMax, origin |-> origin, fits |-> Fits(r, origin)]

MayMove == CanCall /\ (env.polite => src = dest) /\ done < MaxDone

\* The checks of piris_origin_set; a request they refuse changes nothing.
SetOrgin ==
  /\ MayMove
  /\ \E r \in Request :
       /\ r.cur \in -Limit..Limit /\ r.cur # src
       /\ r.total # 0 /\ r.total <= 2 * Limit
       /\ call' = NewCall(r, TRUE, "update")
  /\ UNCHANGED <<module, posVars, timerVars, done, uaf>>

\* Mutant: the completion is not initialised.
SetCloseStale ==
  /\ MayMove
  /\ \E r \in Request : call' = NewCall(r, FALSE, "update")
  /\ UNCHANGED <<module, posVars, timerVars, done, uaf>>

\* piris_close_set checks nothing and initialises the completion first.
SetClose ==
  /\ MayMove
  /\ \E r \in Request : call' = NewCall(r, FALSE, "update")
  /\ done' = 0
  /\ UNCHANGED <<module, posVars, timerVars, uaf>>

Goto(label) == call' = [call EXCEPT !.at = label]

\* The first move; piris_origin_set initialises the completion after it.
FirstUpdate ==
  /\ call.at = "update" /\ Runs
  /\ Update(call.pos)
  /\ Goto(IF call.origin THEN "init" ELSE "wait")
  /\ UNCHANGED <<module, src, phase, motor, running, done, uaf>>

InitCompletion ==
  /\ call.at = "init" /\ Runs
  /\ done' = 0
  /\ Goto("wait")
  /\ UNCHANGED <<module, posVars, timerVars, uaf>>

\* wait_for_completion
Wait ==
  /\ call.at = "wait" /\ Runs
  /\ done > 0
  /\ done' = done - 1
  /\ Goto(IF call.left > 0 THEN "move" ELSE "set")
  /\ UNCHANGED <<module, posVars, timerVars, uaf>>

\* Three moves of HYS_STEPS in turn, then one over the whole range.
Move ==
  /\ call.at = "move" /\ Runs
  /\ LET steps == IF call.left > 1 THEN HysSteps ELSE call.total
         pos   == call.pos + call.sign * steps
     IN /\ Update(pos)
        /\ call' = [call EXCEPT !.at = "wait", !.left = @ - 1, !.pos = pos,
                                !.sign = -@]
  /\ UNCHANGED <<module, src, phase, motor, running, done, uaf>>

\* Fully open is 0 if ZeroIsMax, and fully closed is 0 otherwise.
StopPosition == IF call.zeroIsMax = call.origin THEN 0 ELSE call.total - 1

\* Under the lock the positions become those of the stop, and the call ends.
SetPosition ==
  /\ call.at = "set" /\ Runs
  /\ src' = StopPosition /\ dest' = StopPosition
  /\ call' = NoCall
  /\ UNCHANGED <<module, phase, motor, timerVars, done, uaf>>

-----------------------------------------------------------------------------
(* piris_exit and piris_init.  No file is open, so no ioctl is under way. *)

\* del_timer does not wait for a callback that runs.
DelTimer ==
  /\ env.exits /\ module = "live" /\ Idle /\ Runs
  /\ module' = "timerOff"
  /\ pending' = FALSE
  /\ UNCHANGED <<posVars, running, done, call, uaf>>

Free ==
  /\ module = "timerOff" /\ Runs
  /\ module' = "freed"
  /\ UNCHANGED <<posVars, timerVars, done, call, uaf>>

\* hi_piris_isp_unregister: the handler no longer calls the driver.
UnregisterIsp ==
  /\ module = "freed" /\ Runs
  /\ module' = "gone"
  /\ UNCHANGED <<posVars, timerVars, done, call, uaf>>

Load ==
  /\ module = "gone" /\ ~pending /\ ~running
  /\ module' = "live"
  /\ src' = 0 /\ dest' = 0 /\ phase' = 0 /\ done' = 0
  /\ UNCHANGED <<motor, timerVars, call, uaf>>

-----------------------------------------------------------------------------
CallStep == FirstUpdate \/ InitCompletion \/ Wait \/ Move \/ SetPosition

Step ==
  \/ Expire \/ Callback \/ HandlerUpdate
  \/ SetActArgs \/ SetOrgin \/ SetClose \/ CallStep
  \/ DelTimer \/ Free \/ UnregisterIsp \/ Load

Next == Step /\ UNCHANGED env

Spec == Init /\ [][Next]_vars

\* The kernel runs timers that are due and threads that can run.
FairSpec ==
  /\ Spec
  /\ WF_vars(Expire /\ UNCHANGED env)
  /\ WF_vars(Callback /\ UNCHANGED env)
  /\ WF_vars(CallStep /\ UNCHANGED env)

-----------------------------------------------------------------------------
\* A motor that has a way to go is driven: whatever the interleaving of the
\* callback with new targets, the timer is armed or its callback due.
TimerArmed == module = "live" /\ src # dest => pending \/ running

\* SET_ORGIN and SET_CLOSE overwrite the position only when the motor is at
\* rest and, if the request drives it far enough, only with the truth: none
\* of the five waits is ended by the completion of an earlier move.  That
\* takes callers that wait for the idle status and a handler that sets no
\* target meanwhile.
CalibrationTrue ==
  [][ SetPosition /\ env.polite /\ ~env.handler =>
        src = dest /\ (call.fits => motor = StopPosition) ]_vars

\* The timer and the handler do not use the device's memory once piris_exit
\* has freed it; del_timer and the order of piris_exit are enough for that
\* on one CPU and without the handler.
NoUseAfterFree == ~env.smp /\ ~env.handler => ~uaf

\* The timer runs as long as the motor needs it and no longer than the device.
TimerKept == TimerArmed /\ NoUseAfterFree

\* A caller waits for ever only for a motor that is already where it should
\* go: a wait that begins before the arrival ends, and so does one whose
\* completion has come.
WaitEnds ==
  (~env.handler /\ call.at = "wait" /\ (src # dest \/ done > 0))
     ~> (call.at # "wait")
=============================================================================
