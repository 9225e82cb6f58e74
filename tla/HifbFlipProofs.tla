--------------------------- MODULE HifbFlipProofs ---------------------------
(***************************************************************************)
(* Theorems about the double-buffered refresh, for any regions, any number *)
(* of refreshes and every environment: nothing is ever drawn into the      *)
(* buffer the interrupt shows or is about to show; and where refreshes are *)
(* careful, nothing displayed is drawn into or replaced by something older.*)
(***************************************************************************)
EXTENDS HifbFlip, TLAPS

\* How many jobs the refresh under way may still queue.
Coming == CASE pc \in {"wait", "osd", "pick", "sync"} -> 2
            [] pc \in {"unite", "blit"} -> 1
            [] OTHER -> 0

FlipType ==
  /\ TypeOK
  /\ jobs \in Seq(Job)
  /\ Len(jobs) + Coming <= 2 * num
  /\ pc # "idle" => num > 0

LEMMA SeqJobs ==
  ASSUME NEW q \in Seq(Job), NEW j \in Job
  PROVE  /\ Append(q, j) \in Seq(Job) /\ Len(Append(q, j)) = Len(q) + 1
         /\ \A i \in 1..Len(q) : Append(q, j)[i] = q[i]
         /\ Append(q, j)[Len(q) + 1] = j
         /\ \A i \in 1..Len(q) : q[i] \in Job
OBVIOUS

LEMMA SeqTail ==
  ASSUME NEW q \in Seq(Job), q # <<>>
  PROVE  /\ Tail(q) \in Seq(Job) /\ Len(Tail(q)) = Len(q) - 1 /\ Len(q) \in Nat \ {0}
         /\ \A i \in 1..(Len(q) - 1) : Tail(q)[i] = q[i + 1]
         /\ Head(q) = q[1] /\ Head(q) \in Job
OBVIOUS

LEMMA BlitType ==
  ASSUME TypeOK, num > 0, NEW from \in Buf \cup {Canvas}, NEW R \in SUBSET Region,
         NEW cb \in BOOLEAN
  PROVE  /\ Blit(from, R, cb) \in Job
         /\ Blit(from, R, cb).id = num /\ Blit(from, R, cb).to = back
         /\ Blit(from, R, cb).cb = cb
BY FlipAssumption DEF TypeOK, Blit, Job

-----------------------------------------------------------------------------
(* What the queue looks like.                                              *)

\* A flip is asked for only when the blitter has nothing left to do: the job
\* whose handle is kept is the last of the queue, and the handle is forgotten
\* before the next refresh queues anything.
FlipInv ==
  /\ \A i \in 1..Len(jobs) : jobs[i].to = 1 - idx /\ jobs[i].id <= num
  /\ needFlip => jobs = <<>> /\ pc \in {"idle", "wait", "osd", "pick"}
  /\ pc \in {"sync", "unite", "blit", "store"} => handle = 0
  /\ pc \in {"sync", "unite", "blit"} => back = 1 - idx
  /\ pc \in {"wait", "osd", "pick", "sync", "unite", "blit"} =>
       \A i \in 1..Len(jobs) : jobs[i].cb => jobs[i].id < num
  /\ pc = "store" =>
       \A i \in 1..Len(jobs) : jobs[i].cb /\ jobs[i].id = num => i = Len(jobs)
  /\ handle # 0 =>
       \A i \in 1..Len(jobs) : jobs[i].cb /\ jobs[i].id = handle => i = Len(jobs)

LEMMA InitHolds == Init => FlipType /\ FlipInv
<1> SUFFICES ASSUME Init PROVE FlipType /\ FlipInv
  OBVIOUS
<1>1. jobs \in Seq(Job) /\ Len(jobs) = 0 /\ Coming = 0 /\ num = 0 /\ pc = "idle"
  BY DEF Init, Coming
<1>2. {needFlip, flipped, doRefresh, vt} \subseteq BOOLEAN
  BY DEF Init
<1>3. pix \in [Buf \cup {Canvas} -> [Region -> 0..MaxRefresh]]
      /\ want \in [Region -> 0..MaxRefresh]
  BY FlipAssumption DEF Init
<1>4. TypeOK
  BY <1>1, <1>2, <1>3, FlipAssumption DEF Init, TypeOK, Buf
<1>5. QED
  BY <1>1, <1>4 DEF Init, FlipType, FlipInv

\* A call that ends with a failure, whether its job is queued or not.
LEMMA FailHolds ==
  ASSUME FlipType, FlipInv, pc \in {"sync", "blit"}, env' = env,
         NEW from \in Buf \cup {Canvas}, NEW R \in SUBSET Region, NEW cb \in BOOLEAN,
         cb => pc = "blit", Fail(Blit(from, R, cb))
  PROVE  FlipType' /\ FlipInv'
<1> USE FlipAssumption DEF FlipType
<1> DEFINE j == Blit(from, R, cb)
<1>1. /\ pc' = "idle" /\ jobs' \in {jobs, Append(jobs, j)}
      /\ UNCHANGED <<idx, needFlip, flipped, handle, union, screen, doRefresh, vt,
                     region, back, osd, num, pix, want>>
  BY DEF Fail, dispVars, hwVars
<1>2. /\ idx \in {0, 1} /\ num \in 0..MaxRefresh /\ Len(jobs) \in Nat
      /\ handle = 0 /\ back = 1 - idx /\ ~needFlip
  BY DEF TypeOK, FlipInv, Buf
<1>3. Coming' = 0 /\ Coming \in {1, 2}
  BY <1>1 DEF Coming
<1>4. CASE jobs' = jobs
  <2>1. FlipType'
    BY <1>1, <1>3, <1>4 DEF TypeOK
  <2>2. FlipInv'
    BY <1>1, <1>2, <1>4 DEF FlipInv
  <2>3. QED
    BY <2>1, <2>2
<1>5. CASE jobs' = Append(jobs, j)
  <2>1. j \in Job /\ j.id = num /\ j.to = back
    <3>1. num > 0
      BY <1>2, <1>3
    <3>2. QED
      BY <3>1, BlitType
  <2> HIDE DEF j
  <2>2. /\ jobs' \in Seq(Job) /\ Len(jobs') = Len(jobs) + 1
        /\ \A i \in 1..Len(jobs) : jobs'[i] = jobs[i]
        /\ jobs'[Len(jobs) + 1] = j
        /\ \A i \in 1..Len(jobs) : jobs[i] \in Job
    BY <1>5, <2>1, SeqJobs
  <2>3. \A i \in 1..Len(jobs') : i \in 1..Len(jobs) \/ i = Len(jobs) + 1
    BY <1>2, <2>2
  <2>4. FlipType'
    <3>1. Len(jobs) + 1 <= 2 * num /\ 2 * num <= 2 * MaxRefresh
      BY <1>2, <1>3
    <3>2. Len(jobs') <= 2 * MaxRefresh /\ Len(jobs') + Coming' <= 2 * num'
      BY <1>1, <1>2, <1>3, <2>2, <3>1
    <3>3. \A i \in 1..Len(jobs') : jobs'[i] \in Job
      BY <2>1, <2>2, <2>3
    <3>4. TypeOK'
      BY ONLY TypeOK, env' = env, <1>1, <3>2, <3>3 DEF TypeOK
    <3>5. QED
      BY <1>1, <2>2, <3>2, <3>4
  <2>5. FlipInv'
    BY <1>1, <1>2, <2>1, <2>2, <2>3 DEF FlipInv
  <2>6. QED
    BY <2>4, <2>5
<1>6. QED
  BY <1>1, <1>4, <1>5

LEMMA StepHolds == FlipType /\ FlipInv /\ [Next]_vars => FlipType' /\ FlipInv'
<1> SUFFICES ASSUME FlipType, FlipInv, [Next]_vars PROVE FlipType' /\ FlipInv'
  OBVIOUS
<1> USE FlipAssumption DEF FlipType
<1>0. env' = env /\ idx \in {0, 1} /\ num \in 0..MaxRefresh /\ Len(jobs) \in Nat
      /\ handle \in 0..MaxRefresh
  BY DEF Next, vars, TypeOK, Buf
<1>1. CASE Refresh
  <2>1. num' = num + 1 /\ num' \in 1..MaxRefresh /\ pc = "idle" /\ pc' = "wait"
    BY <1>0, <1>1 DEF Refresh
  <2>2. region' \in Region /\ pix' \in [Buf \cup {Canvas} -> [Region -> 0..MaxRefresh]]
    <3>1. PICK r \in Region : region' = r /\ pix' = [pix EXCEPT ![Canvas][r] = num + 1]
      BY <1>1 DEF Refresh
    <3>2. num + 1 \in 0..MaxRefresh
      BY <2>1
    <3>3. QED
      BY <3>1, <3>2 DEF TypeOK
  <2>3. UNCHANGED <<idx, needFlip, flipped, handle, union, screen, doRefresh, vt,
                    back, osd, jobs, want>>
    BY <1>1 DEF Refresh, dispVars, hwVars
  <2>4. Coming' = 2 /\ Coming = 0
    BY <2>1 DEF Coming
  <2>5. {needFlip', flipped', doRefresh', vt'} \subseteq BOOLEAN
    BY <2>3 DEF TypeOK
  <2>6. TypeOK'
    <3>1. Len(jobs') <= 2 * MaxRefresh /\ \A i \in 1..Len(jobs') : jobs'[i] \in Job
      BY <2>3 DEF TypeOK
    <3>2. /\ env' \in Environment /\ {idx', screen', back', osd'} \subseteq Buf
          /\ union' \subseteq Region /\ want' \in [Region -> 0..MaxRefresh]
      BY <1>0, <2>3 DEF TypeOK
    <3>3. handle' \in 0..MaxRefresh /\ num' \in 0..MaxRefresh
      BY <1>0, <2>1, <2>3
    <3>4. pc' \in {"idle", "wait", "osd", "pick", "sync", "unite", "blit", "store"}
      BY <2>1
    <3>5. QED
      BY <2>2, <2>5, <3>1, <3>2, <3>3, <3>4 DEF TypeOK
  <2>7. FlipType'
    BY <1>0, <2>1, <2>3, <2>4, <2>6
  <2>8. \A i \in 1..Len(jobs) : jobs[i].id \in Nat /\ jobs[i].id < num'
    <3>1. \A i \in 1..Len(jobs) : jobs[i].id \in Nat /\ jobs[i].id <= num
      BY DEF FlipInv, TypeOK, Job
    <3>2. QED
      BY <1>0, <2>1, <3>1
  <2>9. FlipInv'
    BY <1>0, <2>1, <2>3, <2>8 DEF FlipInv
  <2>10. QED
    BY <2>7, <2>9
<1>2. CASE Wait \/ GetOsd
  <2>1. /\ pc \in {"wait", "osd"} /\ pc' \in {"osd", "pick"}
        /\ UNCHANGED <<idx, needFlip, flipped, handle, union, screen, doRefresh, vt,
                       region, back, num, jobs, pix, want>>
        /\ osd' \in {osd, screen}
    BY <1>2 DEF Wait, GetOsd, dispVars, hwVars
  <2>2. Coming' = 2 /\ Coming = 2
    BY <2>1 DEF Coming
  <2>3. osd' \in Buf
    BY <2>1 DEF TypeOK
  <2>4. FlipType'
    BY <1>0, <2>1, <2>2, <2>3 DEF TypeOK
  <2>5. FlipInv'
    BY <1>0, <2>1 DEF FlipInv
  <2>6. QED
    BY <2>4, <2>5
<1>12. CASE Pick
  <2>1. /\ pc = "pick" /\ pc' = "sync" /\ handle' = 0 /\ back' = 1 - idx
        /\ UNCHANGED <<idx, flipped, union, screen, doRefresh, vt, region, osd, num,
                       jobs, pix, want>>
    BY <1>12 DEF Pick, hwVars
  <2>2. Coming' = 2 /\ Coming = 2
    BY <2>1 DEF Coming
  <2>3. back' \in Buf /\ needFlip' = FALSE
    BY <1>0, <1>12 DEF Pick, Buf
  <2>7. {needFlip', flipped', doRefresh', vt'} \subseteq BOOLEAN
    BY <2>1, <2>3 DEF TypeOK
  <2>4. FlipType'
    BY <1>0, <2>1, <2>2, <2>3, <2>7 DEF TypeOK
  <2>5. FlipInv'
    BY <1>0, <2>1, <2>3 DEF FlipInv
  <2>6. QED
    BY <2>4, <2>5
<1>3. CASE Sync /\ pc' = "idle"
  <2>1. pc = "sync" /\ Fail(Blit(idx, union, FALSE))
    BY <1>3 DEF Sync
  <2>2. union \in SUBSET Region /\ idx \in Buf \cup {Canvas}
    BY DEF TypeOK
  <2>3. QED
    BY <1>0, <2>1, <2>2, FailHolds
<1>13. CASE Draw /\ pc' = "idle"
  <2>1. pc = "blit" /\ Fail(Blit(Canvas, {region}, TRUE))
    BY <1>13 DEF Draw
  <2>2. {region} \in SUBSET Region
    BY DEF TypeOK
  <2>3. QED
    BY <1>0, <2>1, <2>2, FailHolds
<1>4. CASE Sync /\ pc' = "unite"
  <2>1. pc = "sync" /\ pc' = "unite"
        /\ UNCHANGED <<idx, needFlip, handle, screen, doRefresh, vt, region, back, osd,
                       num, pix, want>>
    BY <1>4 DEF Sync, Fail, dispVars, hwVars
  <2>7. handle = 0 /\ handle' = 0 /\ back = 1 - idx /\ (needFlip => FALSE)
    BY <2>1 DEF FlipInv
  <2>8. union' \subseteq Region /\ flipped' \in BOOLEAN
    BY <1>4 DEF Sync, Fail, dispVars, TypeOK
  <2>2. Coming' = 1 /\ Coming = 2
    BY <2>1 DEF Coming
  <2>3. jobs' = jobs \/ jobs' = Append(jobs, Blit(idx, union, FALSE))
    BY <1>4 DEF Sync, Fail
  <2>4. CASE jobs' = jobs
    <3>1. FlipType'
      BY <1>0, <2>1, <2>2, <2>4, <2>8 DEF TypeOK
    <3>2. FlipInv'
      BY <1>0, <2>1, <2>4, <2>7 DEF FlipInv
    <3>3. QED
      BY <3>1, <3>2
  <2>5. CASE jobs' = Append(jobs, Blit(idx, union, FALSE))
    <3> DEFINE j == Blit(idx, union, FALSE)
    <3>1. j \in Job /\ j.id = num /\ j.to = back /\ j.cb = FALSE
      BY <2>1, BlitType DEF TypeOK
    <3> HIDE DEF j
    <3>2. /\ jobs' \in Seq(Job) /\ Len(jobs') = Len(jobs) + 1
          /\ \A i \in 1..Len(jobs) : jobs'[i] = jobs[i]
          /\ jobs'[Len(jobs) + 1] = j
          /\ \A i \in 1..Len(jobs) : jobs[i] \in Job
      BY <2>5, <3>1, SeqJobs DEF j
    <3>4. \A i \in 1..Len(jobs') : i \in 1..Len(jobs) \/ i = Len(jobs) + 1
      BY <1>0, <3>2
    <3>3. FlipType'
      BY <1>0, <2>1, <2>2, <2>8, <3>1, <3>2, <3>4 DEF TypeOK
    <3>5. FlipInv'
      BY <1>0, <2>1, <2>7, <3>1, <3>2, <3>4 DEF FlipInv
    <3>6. QED
      BY <3>3, <3>5
  <2>6. QED
    BY <2>3, <2>4, <2>5
<1>5. CASE Unite
  <2>1. /\ pc = "unite" /\ pc' = "blit" /\ union' = union \cup {region}
        /\ UNCHANGED <<idx, needFlip, flipped, handle, screen, doRefresh, vt,
                       region, back, osd, num, jobs, pix, want>>
    BY <1>5 DEF Unite, hwVars
  <2>2. Coming' = 1 /\ Coming = 1
    BY <2>1 DEF Coming
  <2>3. FlipType'
    BY <1>0, <2>1, <2>2 DEF TypeOK
  <2>4. FlipInv'
    BY <1>0, <2>1 DEF FlipInv
  <2>5. QED
    BY <2>3, <2>4
<1>6. CASE Draw /\ pc' = "store"
  <2> DEFINE j == Blit(Canvas, {region}, TRUE)
  <2>1. /\ pc = "blit" /\ pc' = "store" /\ want' = [want EXCEPT ![region] = num]
        /\ jobs' = Append(jobs, j)
        /\ UNCHANGED <<idx, needFlip, flipped, handle, union, screen, doRefresh, vt,
                       region, back, osd, num, pix>>
    BY <1>6 DEF Draw, Fail, dispVars, hwVars
  <2>2. Coming' = 0 /\ Coming = 1
    BY <2>1 DEF Coming
  <2>3. j \in Job /\ j.id = num /\ j.to = back /\ j.cb = TRUE
    BY <2>1, BlitType DEF TypeOK
  <2> HIDE DEF j
  <2>4. /\ jobs' \in Seq(Job) /\ Len(jobs') = Len(jobs) + 1
        /\ \A i \in 1..Len(jobs) : jobs'[i] = jobs[i]
        /\ jobs'[Len(jobs) + 1] = j
        /\ \A i \in 1..Len(jobs) : jobs[i] \in Job
    BY <2>1, <2>3, SeqJobs
  <2>5. FlipType'
    BY <1>0, <2>1, <2>2, <2>3, <2>4 DEF TypeOK
  <2>6. \A i \in 1..Len(jobs') : i \in 1..Len(jobs) \/ i = Len(jobs) + 1
    BY <1>0, <2>4
  <2>7. FlipInv'
    BY <1>0, <2>1, <2>3, <2>4, <2>6 DEF FlipInv, Job
  <2>8. QED
    BY <2>5, <2>7
<1>7. CASE Store
  <2>1. /\ pc = "store" /\ pc' = "idle" /\ handle' = num
        /\ UNCHANGED <<idx, needFlip, flipped, union, screen, doRefresh, vt,
                       region, back, osd, num, jobs, pix, want>>
    BY <1>7 DEF Store, hwVars
  <2>2. Coming' = 0 /\ Coming = 0
    BY <2>1 DEF Coming
  <2>3. FlipType'
    BY <1>0, <2>1, <2>2 DEF TypeOK
  <2>4. FlipInv'
    BY <1>0, <2>1 DEF FlipInv
  <2>5. QED
    BY <2>3, <2>4
<1>8. CASE Tde
  <2> DEFINE j == Head(jobs)
  <2>1. /\ jobs # <<>> /\ jobs' = Tail(jobs)
        /\ needFlip' = (needFlip \/ (j.cb /\ handle = j.id))
        /\ pix' = [pix EXCEPT ![j.to] =
             [r \in Region |-> IF r \in j.regions THEN pix[j.from][r] ELSE @[r]]]
        /\ UNCHANGED <<idx, flipped, handle, union, screen, doRefresh, vt, pc,
                       region, back, osd, num, want>>
    BY <1>8 DEF Tde, Callback, hwVars, callVars
  <2>2. /\ jobs' \in Seq(Job) /\ Len(jobs') = Len(jobs) - 1 /\ Len(jobs) \in Nat \ {0}
        /\ \A i \in 1..(Len(jobs) - 1) : jobs'[i] = jobs[i + 1]
        /\ j = jobs[1] /\ j \in Job
    BY <2>1, SeqTail
  <2> HIDE DEF j
  <2>3. pix' \in [Buf \cup {Canvas} -> [Region -> 0..MaxRefresh]]
    <3> DEFINE moved == [r \in Region |->
                           IF r \in j.regions THEN pix[j.from][r] ELSE pix[j.to][r]]
    <3>1. j.from \in Buf \cup {Canvas} /\ j.to \in Buf
      BY <2>2 DEF Job
    <3>2. moved \in [Region -> 0..MaxRefresh]
      BY <3>1 DEF TypeOK
    <3>3. pix' = [pix EXCEPT ![j.to] = moved]
      BY <2>1
    <3> HIDE DEF moved
    <3>4. QED
      BY <3>1, <3>2, <3>3 DEF TypeOK
  <2>4. Coming' = Coming
    BY <2>1 DEF Coming
  <2>5. needFlip' \in BOOLEAN /\ \A i \in 1..Len(jobs') : jobs'[i] \in Job
    BY <2>1, <2>2 DEF TypeOK, Job
  <2>12. {needFlip', flipped', doRefresh', vt'} \subseteq BOOLEAN
    BY <2>1, <2>5 DEF TypeOK
  <2>13. Len(jobs') + Coming' <= 2 * num' /\ Len(jobs') <= 2 * MaxRefresh
    <3>1. num' = num /\ Coming \in Nat
      BY <2>1 DEF Coming
    <3>2. Len(jobs) + Coming <= 2 * num
      OBVIOUS
    <3>3. Len(jobs') + Coming' <= 2 * num'
      BY <1>0, <2>2, <2>4, <3>1, <3>2
    <3>4. 2 * num <= 2 * MaxRefresh
      BY <1>0
    <3>5. QED
      BY <1>0, <2>2, <3>1, <3>2, <3>3, <3>4
  <2>6. FlipType'
    BY <1>0, <2>1, <2>2, <2>3, <2>5, <2>12, <2>13 DEF TypeOK
  <2>7. ~needFlip
    BY <2>1 DEF FlipInv
  <2>8. needFlip' => jobs' = <<>> /\ pc \in {"idle", "wait", "osd", "pick"}
    <3> SUFFICES ASSUME needFlip'
                 PROVE  jobs' = <<>> /\ pc \in {"idle", "wait", "osd", "pick"}
      OBVIOUS
    <3>1. j.cb /\ handle = j.id
      BY <2>1, <2>7
    <3>4. j.id # 0
      BY <2>2 DEF Job
    <3>2. 1 = Len(jobs) /\ pc \notin {"sync", "unite", "blit", "store"}
      BY <2>2, <3>1, <3>4 DEF FlipInv
    <3>3. QED
      BY <2>1, <2>2, <3>2 DEF TypeOK
  <2>9. \A i \in 1..Len(jobs') : i + 1 \in 1..Len(jobs) /\ jobs'[i] = jobs[i + 1]
          /\ (i + 1 = Len(jobs) => i = Len(jobs'))
    BY <2>2
  <2>10. FlipInv'
    BY <1>0, <2>1, <2>8, <2>9 DEF FlipInv
  <2>11. QED
    BY <2>6, <2>10
<1>9. CASE VerticalTiming \/ FrameStart
  <2>1. /\ UNCHANGED <<handle, union, pc, region, back, osd, num, jobs, pix, want>>
        /\ vt' \in BOOLEAN /\ doRefresh' \in BOOLEAN /\ screen' \in {screen, idx}
        /\ \/ UNCHANGED <<idx, needFlip, flipped>>
           \/ /\ idx' = IF needFlip THEN 1 - idx ELSE idx
              /\ flipped' = (flipped \/ needFlip) /\ needFlip' = FALSE
    BY <1>9 DEF VerticalTiming, FrameStart, Flip, dispVars, callVars
  <2>2. idx' \in Buf /\ Coming' = Coming /\ screen' \in Buf
    BY <1>0, <2>1 DEF TypeOK, Buf, Coming
  <2>6. flipped' \in BOOLEAN /\ needFlip' \in BOOLEAN
    BY <2>1 DEF TypeOK
  <2>3. FlipType'
    BY <1>0, <2>1, <2>2, <2>6 DEF TypeOK
  <2>4. FlipInv'
    BY <1>0, <2>1 DEF FlipInv
  <2>5. QED
    BY <2>3, <2>4
<1>10. CASE UNCHANGED vars
  <2>1. UNCHANGED <<idx, needFlip, flipped, handle, union, screen, doRefresh, vt, pc,
                    region, back, osd, num, jobs, pix, want>>
    BY <1>10 DEF vars, dispVars, hwVars, callVars
  <2>2. QED
    BY <1>0, <2>1 DEF TypeOK, FlipInv, Coming
<1>11. QED
  <2>1. (Sync => pc' \in {"idle", "unite"}) /\ (Draw => pc' \in {"idle", "store"})
    BY DEF Sync, Draw, Fail
  <2>2. QED
    BY <1>1, <1>2, <1>3, <1>4, <1>5, <1>6, <1>7, <1>8, <1>9, <1>10, <1>12, <1>13, <2>1
    DEF Next, Step, Call, Interrupt

\* The variables keep their types; the blitter's queue never holds more than
\* two jobs of each refresh.
THEOREM TypeCorrect == Spec => []TypeOK
<1>1. FlipType => TypeOK
  BY DEF FlipType
<1>2. QED
  BY InitHolds, StepHolds, <1>1, PTL DEF Spec

\* However refreshes, blits and interrupts interleave and whatever fails, no
\* queued blit draws into the buffer the interrupt shows, and a flip that is
\* asked for finds every blit done (hifb_refresh_2buf, hifb_tde_callback).
THEOREM IdleDrawn == Spec => []DrawsIdle
<1>1. FlipType /\ FlipInv => DrawsIdle
  <2> SUFFICES ASSUME FlipType, FlipInv PROVE DrawsIdle
    OBVIOUS
  <2>1. idx \in {0, 1} /\ 1 - idx # idx
    BY DEF FlipType, TypeOK, Buf
  <2>2. QED
    BY <2>1 DEF FlipInv, DrawsIdle
<1>2. QED
  BY InitHolds, StepHolds, <1>1, PTL DEF Spec

-----------------------------------------------------------------------------
(* What is displayed.                                                      *)

\* While the picture moves from one buffer to the other the blitter is idle and
\* no refresh looks at either: the buffers have parted when all is drawn, and
\* the refresh that brings them together again finds the address in effect to
\* be the one the interrupt shows.  Between the two there is only the copy of a
\* refresh that failed.
MovesInv ==
  /\ flipped => /\ \A i \in 1..Len(jobs) : ~jobs[i].cb
                /\ env.fails \/ jobs = <<>>
                /\ ~needFlip /\ pc \in {"idle", "wait", "osd", "pick", "sync"}
  /\ screen # idx => vt /\ flipped /\ jobs = <<>> /\ pc \in {"idle", "wait"}
  /\ doRefresh => ~vt
  /\ pc \in {"pick", "sync"} => osd = idx
  /\ env.calm /\ pc \in {"osd", "pick", "sync"} => ~vt
  /\ ~env.calm /\ pc # "idle" => screen = idx /\ ~needFlip
  /\ ~env.calm /\ pc \in {"wait", "osd", "pick", "sync"} => jobs = <<>>

LEMMA MovesStep ==
  ASSUME FlipType, FlipInv, Careful, MovesInv, [Next]_vars
  PROVE  MovesInv'
<1> USE DEF MovesInv
<1>1. env' = env /\ idx \in {0, 1}
  BY DEF Next, vars, FlipType, TypeOK, Buf
<1>2. CASE Refresh
  BY <1>1, <1>2 DEF Refresh, Careful, Settled, dispVars, hwVars
<1>3. CASE Wait
  BY <1>1, <1>3 DEF Wait, dispVars, hwVars
<1>4. CASE GetOsd
  BY <1>1, <1>4 DEF GetOsd, dispVars, hwVars
<1>5. CASE Pick
  BY <1>1, <1>5 DEF Pick, hwVars
<1>6. CASE Sync
  <2>1. /\ pc = "sync" /\ osd = idx /\ pc' \in {"unite", "idle"}
        /\ UNCHANGED <<idx, needFlip, screen, doRefresh, vt>>
    BY <1>6 DEF Sync, Fail, dispVars, hwVars
  <2>2. flipped' => /\ flipped /\ pc' = "idle" /\ env.fails
                    /\ jobs' \in {jobs, Append(jobs, Blit(idx, union, FALSE))}
    BY <1>6, <2>1 DEF Sync, Fail, dispVars
  <2>3. ~needFlip
    BY <2>1 DEF FlipInv
  <2>4. flipped' => \A i \in 1..Len(jobs') : ~jobs'[i].cb
    <3> DEFINE j == Blit(idx, union, FALSE)
    <3>1. j \in Job /\ ~j.cb
      <4>1. num > 0
        BY <2>1, FlipAssumption DEF FlipType, TypeOK, Coming
      <4>2. idx \in Buf \cup {Canvas} /\ union \in SUBSET Region
        BY DEF FlipType, TypeOK
      <4>3. QED
        BY <4>1, <4>2, BlitType DEF FlipType
    <3> HIDE DEF j
    <3>2. /\ Len(Append(jobs, j)) = Len(jobs) + 1 /\ Len(jobs) \in Nat
          /\ \A i \in 1..Len(jobs) : Append(jobs, j)[i] = jobs[i]
          /\ Append(jobs, j)[Len(jobs) + 1] = j
      BY <3>1, SeqJobs DEF FlipType
    <3>3. \A i \in 1..(Len(jobs) + 1) : i \in 1..Len(jobs) \/ i = Len(jobs) + 1
      BY <3>2
    <3>4. QED
      BY <2>2, <3>1, <3>2, <3>3 DEF j
  <2> QED
    BY <1>1, <2>1, <2>2, <2>3, <2>4
<1>7. CASE Unite
  BY <1>1, <1>7 DEF Unite, hwVars
<1>8. CASE Draw
  <2>1. /\ pc = "blit" /\ pc' \in {"store", "idle"}
        /\ UNCHANGED <<idx, needFlip, flipped, screen, doRefresh, vt>>
    BY <1>8 DEF Draw, Fail, dispVars, hwVars
  <2>2. ~needFlip /\ ~flipped
    BY <2>1 DEF FlipInv
  <2> QED
    BY <1>1, <2>1, <2>2
<1>9. CASE Store
  BY <1>1, <1>9 DEF Store, FlipInv, hwVars
<1>10. CASE Tde
  <2>1. /\ jobs # <<>>
        /\ UNCHANGED <<idx, flipped, handle, union, screen, doRefresh, vt, pc,
                       region, back, osd, num, want>>
    BY <1>10 DEF Tde, hwVars, callVars
  <2>2. needFlip' => pc \in {"idle", "wait", "osd", "pick"}
    BY <1>10, <2>1, StepHolds DEF FlipInv
  <2>3. /\ Len(jobs') = Len(jobs) - 1 /\ Len(jobs) \in Nat \ {0}
        /\ \A i \in 1..(Len(jobs) - 1) : jobs'[i] = jobs[i + 1]
        /\ Head(jobs) = jobs[1]
    BY <1>10, SeqTail DEF FlipType, Tde
  <2>4. flipped => ~needFlip' /\ \A i \in 1..Len(jobs') : ~jobs'[i].cb
    <3>1. 1 \in 1..Len(jobs) /\ \A i \in 1..Len(jobs') : i + 1 \in 1..Len(jobs)
      BY <2>3
    <3>2. needFlip' = (needFlip \/ (jobs[1].cb /\ handle = jobs[1].id))
      BY <1>10, <2>3 DEF Tde, Callback
    <3>3. QED
      BY <2>3, <3>1, <3>2
  <2>5. flipped => env.fails
    BY <2>1
  <2> QED
    BY <1>1, <2>1, <2>2, <2>4, <2>5
<1>11. CASE VerticalTiming
  <2>1. /\ ~vt /\ vt' = TRUE /\ doRefresh' = FALSE /\ needFlip' = FALSE
        /\ flipped' = (flipped \/ needFlip)
        /\ idx' = IF needFlip THEN 1 - idx ELSE idx
        /\ env.calm => pc \notin {"osd", "pick", "sync"}
        /\ UNCHANGED <<screen, pc, osd, jobs>>
    BY <1>11 DEF VerticalTiming, Flip, callVars
  <2>2. CASE needFlip
    <3>1. jobs = <<>> /\ pc \in {"idle", "wait", "osd", "pick"} /\ ~flipped
      BY <2>2 DEF FlipInv
    <3>2. pc \in {"idle", "wait"} \/ (~env.calm /\ pc # "idle")
      BY <2>1, <3>1
    <3>3. pc \in {"idle", "wait"}
      BY <2>2, <3>2
    <3>4. jobs' = <<>> /\ \A i \in 1..Len(jobs') : ~jobs'[i].cb
      BY <2>1, <3>1
    <3>5. ~env.calm => pc = "idle"
      BY <2>2
    <3> QED
      BY <1>1, <2>1, <2>2, <3>3, <3>4, <3>5
  <2>3. CASE ~needFlip
    BY <1>1, <2>1, <2>3
  <2> QED
    BY <2>2, <2>3
<1>12. CASE FrameStart
  BY <1>1, <1>12 DEF FrameStart, dispVars, callVars
<1>13. CASE UNCHANGED vars
  BY <1>13 DEF vars, dispVars, hwVars, callVars
<1> QED
  BY <1>2, <1>3, <1>4, <1>5, <1>6, <1>7, <1>8, <1>9, <1>10, <1>11, <1>12, <1>13
     DEF Next, Step, Call, Interrupt

\* The region is to be drawn into the idle buffer, by a job or by the refresh
\* under way.
Drawn(r) == \/ \E i \in 1..Len(jobs) : r \in jobs[i].regions
            \/ pc \in {"unite", "blit"} /\ region = r

\* How old the two buffers are: after a flip the idle one is nowhere newer, and
\* older in the union only; before it the other way round, where nothing is
\* left to be drawn.
PixInv ==
  /\ \A r \in Region : \A b \in Buf : pix[b][r] <= pix[Canvas][r]
  /\ \A r \in Region : pix[Canvas][r] <= num
  /\ \A i \in 1..Len(jobs) :
       /\ jobs[i].from = IF jobs[i].cb THEN Canvas ELSE idx
       /\ jobs[i].cb => jobs[i].regions \subseteq union
  /\ pc = "blit" => region \in union
  /\ \A r \in Region : flipped \/ r \notin union => pix[1 - idx][r] <= pix[idx][r]
  /\ \A r \in Region :
       \/ pix[1 - idx][r] >= pix[idx][r]
       \/ IF flipped THEN r \in union ELSE Drawn(r)

\* What the buffers hold, as numbers.
LEMMA PixType ==
  ASSUME FlipType
  PROVE  /\ idx \in Buf /\ 1 - idx \in Buf /\ 1 - idx # idx
         /\ Canvas \notin Buf /\ num \in Nat
         /\ \A b \in Buf \cup {Canvas} : \A r \in Region : pix[b][r] \in Nat
<1>1. idx \in {0, 1} /\ num \in Nat
  BY FlipAssumption DEF FlipType, TypeOK, Buf
<1>2. \A b \in Buf \cup {Canvas} : \A r \in Region : pix[b][r] \in Nat
  BY FlipAssumption DEF FlipType, TypeOK
<1> QED
  BY <1>1, <1>2 DEF Buf, Canvas

LEMMA PixStep ==
  ASSUME FlipType, FlipInv, Careful, MovesInv, ~env.fails, PixInv, [Next]_vars
  PROVE  PixInv'
<1>1. FlipType' /\ FlipInv' /\ MovesInv' /\ env' = env /\ jobs \in Seq(Job)
  BY StepHolds, MovesStep DEF Next, vars, FlipType
<1>2. /\ idx \in Buf /\ 1 - idx \in Buf /\ 1 - idx # idx
      /\ Canvas \notin Buf /\ num \in Nat
      /\ \A b \in Buf \cup {Canvas} : \A r \in Region : pix[b][r] \in Nat
  BY PixType
\* Steps that leave the buffers and the jobs alone.
<1>3. ASSUME UNCHANGED <<idx, flipped, union, region, num, jobs, pix>>,
             pc' = pc \/ (pc' # "blit" /\ pc \notin {"unite", "blit"})
      PROVE  PixInv'
  <2>1. \A r : Drawn(r) => Drawn(r)'
    BY <1>3 DEF Drawn
  <2> QED
    BY <1>3, <2>1 DEF PixInv
<1>4. CASE Refresh
  <2>1. PICK q \in Region : region' = q /\ pix' = [pix EXCEPT ![Canvas][q] = num + 1]
    BY <1>4 DEF Refresh
  <2>2. /\ num' = num + 1 /\ pc = "idle" /\ pc' = "wait"
        /\ UNCHANGED <<idx, flipped, union, jobs>>
    BY <1>4 DEF Refresh, dispVars
  <2>3. \A b \in Buf : pix'[b] = pix[b]
    BY <1>2, <2>1 DEF FlipType, TypeOK
  <2>4. \A r \in Region : pix'[Canvas][r] = IF r = q THEN num + 1 ELSE pix[Canvas][r]
    BY <2>1 DEF FlipType, TypeOK
  <2>5. \A r : Drawn(r) => Drawn(r)'
    BY <2>2 DEF Drawn
  <2>6. \A r \in Region : pix[Canvas][r] <= num
                          /\ \A b \in Buf : pix[b][r] <= pix[Canvas][r]
    BY DEF PixInv
  <2>7. \A r \in Region : pix'[Canvas][r] <= num'
                          /\ \A b \in Buf : pix'[b][r] <= pix'[Canvas][r]
    BY <1>2, <2>2, <2>3, <2>4, <2>6
  <2> QED
    BY <1>2, <2>2, <2>3, <2>5, <2>7 DEF PixInv
<1>5. CASE Wait
  BY <1>3, <1>5 DEF Wait, dispVars
<1>6. CASE GetOsd
  BY <1>3, <1>6 DEF GetOsd, dispVars
<1>7. CASE Pick
  BY <1>3, <1>7 DEF Pick
<1>8. CASE Store
  BY <1>3, <1>8 DEF Store
<1>9. CASE FrameStart
  BY <1>3, <1>9 DEF FrameStart, dispVars, callVars
<1>10. CASE UNCHANGED vars
  BY <1>3, <1>10 DEF vars, dispVars, callVars
<1>11. CASE Sync
  <2>0. pc = "sync" /\ osd = idx
    BY <1>11 DEF Sync, MovesInv
  <2>1. /\ pc = "sync" /\ pc' = "unite"
        /\ UNCHANGED <<idx, region, num, pix>>
        /\ flipped' = FALSE \/ (flipped' = flipped /\ ~flipped)
    BY <1>11, <2>0 DEF Sync, Fail, dispVars
  <2>2. CASE ~flipped
    <3>1. UNCHANGED <<union, jobs>>
      BY <1>11, <2>1, <2>2 DEF Sync, dispVars
    <3>2. \A r : Drawn(r) => Drawn(r)'
      BY <2>1, <3>1 DEF Drawn
    <3> QED
      BY <2>1, <2>2, <3>1, <3>2 DEF PixInv
  <2>3. CASE flipped
    <3> DEFINE j == Blit(idx, union, FALSE)
    <3>1. /\ jobs = <<>> /\ union' = {}
          /\ jobs' = IF union \subseteq {region} THEN jobs ELSE Append(jobs, j)
      BY <1>11, <2>1, <2>3 DEF Sync, Fail, MovesInv
    <3>2. /\ j.from = idx /\ ~j.cb /\ j.regions = union
      BY DEF Blit
    <3> HIDE DEF j
    <3>3. jobs' = IF union \subseteq {region} THEN <<>> ELSE <<j>>
      BY <3>1
    <3>4. \A r \in union : Drawn(r)'
      <4>1. CASE union \subseteq {region}
        BY <2>1, <4>1 DEF Drawn
      <4>2. CASE ~(union \subseteq {region})
        <5>1. Len(jobs') = 1 /\ jobs'[1] = j
          BY <3>3, <4>2
        <5> QED
          BY <3>2, <5>1 DEF Drawn
      <4> QED
        BY <4>1, <4>2
    <3>5. \A i \in 1..Len(jobs') : jobs'[i] = j
      BY <3>3
    <3>6. \A i \in 1..Len(jobs') : /\ jobs'[i].from = IF jobs'[i].cb THEN Canvas ELSE idx
                                   /\ jobs'[i].cb => jobs'[i].regions \subseteq union'
      BY <3>2, <3>5
    <3> QED
      BY <2>1, <2>3, <3>1, <3>4, <3>6 DEF PixInv
  <2> QED
    BY <2>2, <2>3
<1>12. CASE Unite
  <2>1. /\ pc = "unite" /\ pc' = "blit" /\ union' = union \cup {region} /\ ~flipped
        /\ UNCHANGED <<idx, flipped, region, num, jobs, pix>>
    BY <1>12 DEF Unite, MovesInv
  <2>2. \A r : Drawn(r) => Drawn(r)'
    BY <2>1 DEF Drawn
  <2> QED
    BY <2>1, <2>2 DEF PixInv
<1>13. CASE Draw
  <2> DEFINE j == Blit(Canvas, {region}, TRUE)
  <2>1. /\ pc = "blit" /\ ~flipped /\ jobs' = Append(jobs, j)
        /\ UNCHANGED <<idx, flipped, union, region, num, pix>>
    BY <1>13 DEF Draw, Fail, dispVars, MovesInv
  <2>2. j.from = Canvas /\ j.cb /\ j.regions = {region} /\ j.id = num /\ j.to = back
    BY DEF Blit
  <2>3. j \in Job
    BY <2>1, BlitType DEF FlipType, TypeOK
  <2> HIDE DEF j
  <2>4. /\ Len(jobs') = Len(jobs) + 1 /\ Len(jobs) \in Nat
        /\ \A i \in 1..Len(jobs) : jobs'[i] = jobs[i]
        /\ jobs'[Len(jobs) + 1] = j
    BY <1>1, <2>1, <2>3, SeqJobs
  <2>5. \A r : Drawn(r) => Drawn(r)'
    BY <2>1, <2>2, <2>4 DEF Drawn
  <2> QED
    BY <2>1, <2>2, <2>4, <2>5 DEF PixInv
<1>14. CASE Tde
  <2> DEFINE j == Head(jobs)  old == 1 - idx
  <2>1. /\ jobs # <<>> /\ jobs' = Tail(jobs)
        /\ pix' = [pix EXCEPT ![j.to] =
             [r \in Region |-> IF r \in j.regions THEN pix[j.from][r] ELSE @[r]]]
        /\ UNCHANGED <<idx, flipped, union, pc, region, num>>
    BY <1>14 DEF Tde, hwVars, callVars
  <2>2. /\ Len(jobs') = Len(jobs) - 1 /\ Len(jobs) \in Nat \ {0}
        /\ \A i \in 1..(Len(jobs) - 1) : jobs'[i] = jobs[i + 1]
        /\ j = jobs[1] /\ j \in Job
    BY <1>1, <2>1, SeqTail
  <2> HIDE DEF j
  <2>3. /\ ~flipped /\ j.to = old
        /\ j.from = IF j.cb THEN Canvas ELSE idx
        /\ j.cb => j.regions \subseteq union
    BY <2>1, <2>2 DEF MovesInv, FlipInv, PixInv
  <2>4. old \in Buf /\ old # idx /\ old # Canvas /\ idx # Canvas
    BY <1>2
  <2> HIDE DEF old
  <2>5. /\ pix'[idx] = pix[idx] /\ pix'[Canvas] = pix[Canvas]
        /\ \A r \in Region : pix'[old][r] = IF r \in j.regions THEN pix[j.from][r]
                                                               ELSE pix[old][r]
    BY <1>2, <2>1, <2>3, <2>4 DEF FlipType, TypeOK
  <2>6. \A b \in Buf : b = idx \/ b = old
    BY <1>2, <2>4 DEF Buf, old
  <2>7. ASSUME NEW r \in Region, NEW b \in Buf PROVE pix'[b][r] <= pix'[Canvas][r]
    BY <1>2, <2>3, <2>4, <2>5, <2>6 DEF PixInv
  <2>8. ASSUME NEW r \in Region, r \notin union PROVE pix'[old][r] <= pix'[idx][r]
    BY <1>2, <2>3, <2>4, <2>5, <2>8 DEF PixInv, old
  <2>9. ASSUME NEW r \in Region, r \notin j.regions, Drawn(r) PROVE Drawn(r)'
    <3>1. CASE pc \in {"unite", "blit"} /\ region = r
      BY <2>1, <3>1 DEF Drawn
    <3>2. CASE \E i \in 1..Len(jobs) : r \in jobs[i].regions
      <4>1. PICK i \in 1..Len(jobs) : r \in jobs[i].regions
        BY <3>2
      <4>2. i # 1
        BY <2>2, <2>9, <4>1
      <4>3. i - 1 \in 1..Len(jobs') /\ jobs'[i - 1] = jobs[i]
        BY <2>2, <4>2
      <4> QED
        BY <4>1, <4>3 DEF Drawn
    <3> QED
      BY <2>9, <3>1, <3>2 DEF Drawn
  <2>10. ASSUME NEW r \in Region PROVE pix'[old][r] >= pix'[idx][r] \/ Drawn(r)'
    <3>1. CASE r \in j.regions
      BY <1>2, <2>3, <2>4, <2>5, <3>1 DEF PixInv
    <3>2. CASE r \notin j.regions
      BY <2>3, <2>4, <2>5, <2>9, <3>2 DEF PixInv, old
    <3> QED
      BY <3>1, <3>2
  <2>11. \A i \in 1..Len(jobs') : /\ jobs'[i].from = IF jobs'[i].cb THEN Canvas ELSE idx
                                  /\ jobs'[i].cb => jobs'[i].regions \subseteq union
    <3>1. \A i \in 1..Len(jobs') : i + 1 \in 1..Len(jobs) /\ jobs'[i] = jobs[i + 1]
      BY <2>2
    <3> QED
      BY <3>1 DEF PixInv
  <2> QED
    BY <2>1, <2>3, <2>5, <2>7, <2>8, <2>10, <2>11 DEF PixInv, old
<1>15. CASE VerticalTiming
  <2>1. UNCHANGED <<union, pc, region, num, jobs, pix>>
    BY <1>15 DEF VerticalTiming, callVars
  <2>2. CASE ~needFlip
    <3>1. UNCHANGED <<idx, flipped>>
      BY <1>15, <2>2 DEF VerticalTiming, Flip, FlipType, TypeOK
    <3>2. \A r : Drawn(r)' <=> Drawn(r)
      BY <2>1 DEF Drawn
    <3> QED
      BY <2>1, <3>1, <3>2 DEF PixInv
  <2>3. CASE needFlip
    <3>1. /\ idx' = 1 - idx /\ flipped' /\ ~flipped
          /\ jobs = <<>> /\ pc \in {"idle", "wait", "osd", "pick"}
      BY <1>15, <2>3 DEF VerticalTiming, Flip, MovesInv, FlipInv
    <3>2. 1 - idx' = idx
      BY <1>2, <3>1 DEF Buf
    <3>3. \A r : ~Drawn(r)
      BY <3>1 DEF Drawn
    <3>4. \A r \in Region : pix[1 - idx][r] >= pix[idx][r]
      BY <3>1, <3>3 DEF PixInv
    <3>5. \A r \in Region : r \notin union => pix[1 - idx][r] <= pix[idx][r]
      BY DEF PixInv
    <3> QED
      BY <1>2, <2>1, <3>1, <3>2, <3>4, <3>5 DEF PixInv
  <2> QED
    BY <2>2, <2>3
<1> QED
  BY <1>4, <1>5, <1>6, <1>7, <1>8, <1>9, <1>10, <1>11, <1>12, <1>13, <1>14, <1>15
     DEF Next, Step, Call, Interrupt

LEMMA MovesInit == Init => MovesInv
BY DEF Init, MovesInv

LEMMA PixInit == Init => PixInv
<1> SUFFICES ASSUME Init PROVE PixInv
  OBVIOUS
<1>1. \A b \in Buf \cup {Canvas} : \A r \in Region : pix[b][r] = 0
  BY DEF Init
<1>2. /\ idx \in Buf /\ 1 - idx \in Buf /\ num = 0 /\ jobs = <<>> /\ ~flipped
      /\ pc = "idle"
  BY DEF Init, Buf
<1> QED
  BY <1>1, <1>2 DEF PixInv

\* The invariant for the uses under which nothing torn or stale is seen.
ScreenInv == /\ FlipType /\ FlipInv
             /\ Careful => MovesInv
             /\ Careful /\ ~env.fails => PixInv

LEMMA ScreenInit == Init => ScreenInv
BY InitHolds, MovesInit, PixInit DEF ScreenInv

LEMMA ScreenStep == ScreenInv /\ [Next]_vars => ScreenInv'
<1> SUFFICES ASSUME ScreenInv, [Next]_vars PROVE ScreenInv'
  OBVIOUS
<1>1. env' = env
  BY DEF Next, vars
<1>2. FlipType' /\ FlipInv'
  BY StepHolds DEF ScreenInv
<1>3. Careful => MovesInv'
  BY MovesStep DEF ScreenInv
<1>4. Careful /\ ~env.fails => PixInv'
  BY PixStep DEF ScreenInv
<1> QED
  BY <1>1, <1>2, <1>3, <1>4 DEF ScreenInv, Careful

\* When refreshes are paced, or the display does not interrupt them where they
\* look at what it shows, no blit writes the buffer that is displayed, and no
\* part of the screen goes back to older content unless the blitter refuses a
\* job (hifb_backup_forward, hifb_refresh_2buf, hifb_vo_callback).
THEOREM ScreenAlwaysSteady == Spec => ScreenSteady
<1>1. ScreenInv => NoTear
  <2> SUFFICES ASSUME ScreenInv, Careful, NEW i \in 1..Len(jobs)
               PROVE  jobs[i].to # screen
    BY DEF NoTear
  <2>1. screen = idx
    BY DEF ScreenInv, MovesInv
  <2>2. jobs[i].to = 1 - idx /\ 1 - idx # idx
    BY PixType DEF ScreenInv, FlipInv
  <2> QED
    BY <2>1, <2>2
<1>2. ASSUME ScreenInv, [Next]_vars, Careful, ~env.fails, NEW r \in Region
      PROVE  pix'[screen'][r] >= pix[screen][r]
  <2>1. /\ idx \in Buf /\ 1 - idx \in Buf /\ 1 - idx # idx
        /\ Canvas \notin Buf /\ screen \in Buf
        /\ \A b \in Buf : pix[b][r] \in Nat
    BY <1>2, PixType DEF ScreenInv, FlipType, TypeOK
  <2>2. CASE FrameStart
    <3>1. pix' = pix /\ screen' = idx
      BY <2>2 DEF FrameStart
    <3>2. screen # idx => flipped /\ screen = 1 - idx
      BY <1>2, <2>1 DEF ScreenInv, MovesInv, Buf
    <3>3. pix[idx][r] >= pix[screen][r]
      BY <1>2, <2>1, <3>2 DEF ScreenInv, PixInv
    <3> QED
      BY <3>1, <3>3
  <2>3. CASE Tde
    <3> DEFINE j == Head(jobs)
    <3>1. /\ jobs # <<>> /\ screen' = screen
          /\ pix' = [pix EXCEPT ![j.to] =
               [q \in Region |-> IF q \in j.regions THEN pix[j.from][q] ELSE @[q]]]
      BY <2>3 DEF Tde, hwVars
    <3>2. j = jobs[1] /\ 1 \in 1..Len(jobs)
      BY <1>2, <3>1, SeqTail DEF ScreenInv, FlipType
    <3>3. j.to # screen
      BY <1>1, <1>2, <3>2 DEF NoTear
    <3> HIDE DEF j
    <3>4. pix'[screen] = pix[screen]
      BY <1>2, <2>1, <3>1, <3>3 DEF ScreenInv, FlipType, TypeOK
    <3> QED
      BY <2>1, <3>1, <3>4
  <2>4. CASE Refresh
    <3>1. PICK q \in Region : pix' = [pix EXCEPT ![Canvas][q] = num + 1]
      BY <2>4 DEF Refresh
    <3>2. screen' = screen /\ screen # Canvas
      BY <2>1, <2>4 DEF Refresh, hwVars
    <3>3. pix'[screen] = pix[screen]
      BY <1>2, <2>1, <3>1, <3>2 DEF ScreenInv, FlipType, TypeOK
    <3> QED
      BY <2>1, <3>2, <3>3
  <2>5. CASE UNCHANGED <<pix, screen>>
    BY <2>1, <2>5
  <2>6. FrameStart \/ Tde \/ Refresh \/ UNCHANGED <<pix, screen>>
    BY <1>2 DEF Next, Step, Call, Interrupt, vars, hwVars, Wait, GetOsd, Pick, Sync,
                Unite, Draw, Store, Fail, VerticalTiming
  <2> QED
    BY <2>2, <2>3, <2>4, <2>5, <2>6
<1>3. ScreenInv /\ [Next]_vars =>
        [Careful /\ ~env.fails
           => \A r \in Region : pix'[screen'][r] >= pix[screen][r]]_vars
  BY <1>2
<1> QED
  BY <1>1, <1>3, ScreenInit, ScreenStep, PTL DEF Spec, ScreenSteady, ScreenForward
=============================================================================
