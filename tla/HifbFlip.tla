------------------------------ MODULE HifbFlip ------------------------------
(***************************************************************************)
(* The double-buffered refresh of the frame buffer driver (HiFB, mode      *)
(* HIFB_LAYER_BUF_DOUBLE).  A refresh has the blitter (TDE) draw a region  *)
(* of the user's canvas into the buffer that is not on screen; the         *)
(* blitter's callback asks for a flip; the display's vertical timing       *)
(* interrupt flips; the hardware follows at the frame start.  The next     *)
(* refresh first brings the other buffer up to date.  par->lock is taken   *)
(* and left several times in one refresh: each part under it is a step.    *)
(***************************************************************************)
EXTENDS Integers, Sequences, FiniteSets

CONSTANTS
  Region,       \* parts of the screen that a refresh may update
  MaxRefresh,   \* how many refreshes there are
  Environment   \* the uses considered, one per behaviour

ASSUME FlipAssumption ==
  /\ IsFiniteSet(Region) /\ MaxRefresh \in Nat
  /\ Environment \subseteq
       [paced : BOOLEAN,  \* the next refresh waits until the last is on screen
        calm  : BOOLEAN,  \* no vertical timing interrupt between a wait and its end
        quick : BOOLEAN,  \* a blit may be done before the call that queued it ends
        fails : BOOLEAN]  \* the blitter may refuse a job

Buf == {0, 1}
Canvas == 2

VARIABLES
  env,
  idx,        \* u32IndexForInt, the buffer the interrupt shows
  screen,     \* the buffer whose address is in effect
  needFlip,   \* bNeedFlip
  flipped,    \* bFliped
  handle,     \* s32RefreshHandle
  doRefresh,  \* bDoRefreshJob
  union,      \* stUnionRect, as the regions it covers
  pc, region, back, osd,  \* the refresh under way and its local variables
  num,        \* u32RefreshNum
  jobs,       \* the blitter's queue
  vt,         \* a vertical timing interrupt came, its frame start did not
  pix,        \* the age of what every region of a buffer, or the canvas, shows
  want        \* history: the last content of a region a refresh asked to show

dispVars == <<idx, needFlip, flipped, handle, union>>
hwVars   == <<screen, doRefresh, vt>>
callVars == <<pc, region, back, osd, num>>
vars == <<env, dispVars, hwVars, callVars, jobs, pix, want>>

Job == [id : 1..MaxRefresh, from : Buf \cup {Canvas}, to : Buf,
        regions : SUBSET Region, cb : BOOLEAN]

TypeOK ==
  /\ env \in Environment
  /\ {idx, screen, back, osd} \subseteq Buf
  /\ {needFlip, flipped, doRefresh, vt} \subseteq BOOLEAN
  /\ handle \in 0..MaxRefresh /\ num \in 0..MaxRefresh
  /\ union \subseteq Region
  /\ pc \in {"idle", "wait", "osd", "pick", "sync", "unite", "blit", "store"}
  /\ region \in Region
  /\ Len(jobs) <= 2 * MaxRefresh /\ \A i \in 1..Len(jobs) : jobs[i] \in Job
  /\ pix \in [Buf \cup {Canvas} -> [Region -> 0..MaxRefresh]]
  /\ want \in [Region -> 0..MaxRefresh]

Init ==
  /\ env \in Environment
  /\ idx = 0 /\ screen = 0
  /\ needFlip = FALSE /\ flipped = FALSE /\ handle = 0 /\ union = {}
  /\ doRefresh = FALSE /\ vt \in BOOLEAN
  /\ pc = "idle" /\ region \in Region /\ back = 0 /\ osd = 0 /\ num = 0
  /\ jobs = <<>>
  /\ pix = [b \in Buf \cup {Canvas} |-> [r \in Region |-> 0]]
  /\ want = [r \in Region |-> 0]

-----------------------------------------------------------------------------
(* hifb_refresh_2buf *)

\* What was refreshed before is on screen.
Settled == jobs = <<>> /\ ~needFlip /\ screen = idx

\* The application draws into its canvas and calls FBIO_REFRESH.
Refresh ==
  /\ pc = "idle" /\ num < MaxRefresh
  /\ env.paced => Settled
  /\ num' = num + 1
  /\ \E r \in Region : region' = r /\ pix' = [pix EXCEPT ![Canvas][r] = num + 1]
  /\ pc' = "wait"
  /\ UNCHANGED <<dispVars, hwVars, back, osd, jobs, want>>

\* Until the frame start, or for 40 ms.
Wait ==
  /\ pc = "wait" /\ (env.calm => doRefresh)
  /\ pc' = "osd"
  /\ UNCHANGED <<dispVars, hwVars, region, back, osd, num, jobs, pix, want>>

\* HIFB_DRV_GetOSDData: the address in effect, read outside the lock.
GetOsd ==
  /\ pc = "osd"
  /\ osd' = screen
  /\ pc' = "pick"
  /\ UNCHANGED <<dispVars, hwVars, region, back, num, jobs, pix, want>>

\* hifb_get_idledispbuf
Pick ==
  /\ pc = "pick"
  /\ needFlip' = FALSE /\ handle' = 0
  /\ back' = 1 - idx
  /\ pc' = "sync"
  /\ UNCHANGED <<idx, flipped, union, hwVars, region, osd, num, jobs, pix, want>>

Blit(from, regions, cb) ==
  [id |-> num, from |-> from, to |-> back, regions |-> regions, cb |-> cb]

\* The call sees the failure and ends; a job that can no longer be cancelled is
\* done nevertheless.  (A canvas blit that fails unseen, see Sync, leaves the
\* handle at 0 and ends like this too, except that the user hears of a success.)
Fail(job) ==
  /\ env.fails
  /\ pc' = "idle"
  /\ jobs' \in {jobs, Append(jobs, job)}
  /\ UNCHANGED <<dispVars, hwVars, region, back, osd, num, pix, want>>

\* The other buffer gets what the buffer on screen got since they parted,
\* unless the new region covers it.  When the blitter refuses to start the job
\* and lets it be cancelled, HIFB_DRV_Blit returns the 0 of the cancellation:
\* the call goes on as if the copy were on its way.
Sync ==
  /\ pc = "sync"
  /\ \/ /\ flipped /\ osd = idx
        /\ \/ ~(union \subseteq {region}) /\ jobs' = Append(jobs, Blit(idx, union, FALSE))
           \/ (union \subseteq {region} \/ env.fails) /\ UNCHANGED jobs
        /\ union' = {} /\ flipped' = FALSE
        /\ pc' = "unite"
        /\ UNCHANGED <<idx, needFlip, handle, hwVars, region, back, osd, num, pix, want>>
     \/ /\ ~(flipped /\ osd = idx)
        /\ pc' = "unite"
        /\ UNCHANGED <<dispVars, hwVars, region, back, osd, num, jobs, pix, want>>
     \/ /\ flipped /\ osd = idx /\ ~(union \subseteq {region})
        /\ Fail(Blit(idx, union, FALSE))

Unite ==
  /\ pc = "unite"
  /\ union' = union \cup {region}
  /\ pc' = "blit"
  /\ UNCHANGED <<idx, needFlip, flipped, handle, hwVars, region, back, osd, num,
                 jobs, pix, want>>

\* HIFB_DRV_Blit of the canvas, with the callback.
Draw ==
  /\ pc = "blit"
  /\ \/ /\ jobs' = Append(jobs, Blit(Canvas, {region}, TRUE))
        /\ want' = [want EXCEPT ![region] = num]
        /\ pc' = "store"
        /\ UNCHANGED <<dispVars, hwVars, region, back, osd, num, pix>>
     \/ Fail(Blit(Canvas, {region}, TRUE))

\* Mutant: the handle is not kept.
StoreNothing ==
  /\ pc = "store"
  /\ pc' = "idle"
  /\ UNCHANGED <<dispVars, hwVars, region, back, osd, num, jobs, pix, want>>

\* The handle is stored without the lock.
Store ==
  /\ pc = "store"
  /\ handle' = num
  /\ pc' = "idle"
  /\ UNCHANGED <<idx, needFlip, flipped, union, hwVars, region, back, osd, num, jobs,
                 pix, want>>

-----------------------------------------------------------------------------
(* The blitter does its jobs in order and calls hifb_tde_callback. *)

\* Mutant: every callback asks for the flip.
CallbackAlways(job) == needFlip' = (needFlip \/ job.cb)

Callback(job) == needFlip' = (needFlip \/ (job.cb /\ handle = job.id))

Tde ==
  /\ jobs # <<>>
  /\ LET job == Head(jobs) IN
       /\ pc = "store" /\ job.id = num /\ job.cb => env.quick
       /\ pix' = [pix EXCEPT ![job.to] =
            [r \in Region |-> IF r \in job.regions THEN pix[job.from][r] ELSE @[r]]]
       /\ Callback(job)
  /\ jobs' = Tail(jobs)
  /\ UNCHANGED <<idx, flipped, handle, union, hwVars, callVars, want>>

-----------------------------------------------------------------------------
(* The display's interrupts: HifbInterruptRoute. *)

\* Mutant: the flag that says which buffers have parted stays.
FlipNotMarked ==
  /\ idx' = IF needFlip THEN 1 - idx ELSE idx
  /\ needFlip' = FALSE
  /\ UNCHANGED flipped

\* hifb_vo_callback
Flip ==
  /\ idx' = IF needFlip THEN 1 - idx ELSE idx
  /\ flipped' = (flipped \/ needFlip)
  /\ needFlip' = FALSE

VerticalTiming ==
  /\ ~vt /\ vt' = TRUE
  /\ env.calm => pc \notin {"osd", "pick", "sync"}
  /\ doRefresh' = FALSE
  /\ Flip
  /\ UNCHANGED <<handle, union, screen, callVars, jobs, pix, want>>

FrameStart ==
  /\ vt /\ vt' = FALSE
  /\ doRefresh' = TRUE
  /\ screen' = idx
  /\ UNCHANGED <<dispVars, callVars, jobs, pix, want>>

-----------------------------------------------------------------------------
Call      == Wait \/ GetOsd \/ Pick \/ Sync \/ Unite \/ Draw \/ Store
Interrupt == VerticalTiming \/ FrameStart

Step == Refresh \/ Call \/ Tde \/ Interrupt

Next == Step /\ UNCHANGED env

Spec == Init /\ [][Next]_vars

\* The call, the blitter and the display go on; nobody must refresh.
FairSpec ==
  /\ Spec
  /\ WF_vars(Call /\ UNCHANGED env)
  /\ WF_vars(Tde /\ UNCHANGED env)
  /\ WF_vars(Interrupt /\ UNCHANGED env)

-----------------------------------------------------------------------------
\* The buffer the interrupt shows, or is about to, has no job that draws into
\* it: a flip that is asked for is withdrawn, and the callbacks of earlier
\* jobs are told apart, before the next refresh takes the idle buffer.
DrawsIdle ==
  /\ \A i \in 1..Len(jobs) : jobs[i].to # idx
  /\ needFlip => \A i \in 1..Len(jobs) : ~jobs[i].cb
  /\ pc \in {"sync", "unite", "blit"} => back # idx

\* The application paces its refreshes, or the display does not interrupt them
\* where they look at what it shows.
Careful == env.paced \/ env.calm

\* No blit writes what is being displayed.
NoTear == Careful => \A i \in 1..Len(jobs) : jobs[i].to # screen

\* No part of the screen goes back to older content: an update that was once
\* shown is in both buffers or is brought along.
ScreenForward ==
  [][Careful /\ ~env.fails => \A r \in Region : pix'[screen'][r] >= pix[screen][r]]_vars

\* What is displayed is neither drawn into nor replaced by something older.
ScreenSteady == []NoTear /\ ScreenForward

\* What a refresh was asked to show comes on screen, even when it overtakes
\* the refresh before it.
ComesOnScreen ==
  \A r \in Region : \A n \in 1..MaxRefresh :
    (want[r] = n /\ Careful /\ ~env.quick /\ ~env.fails) ~> (pix[screen][r] >= n)
=============================================================================
