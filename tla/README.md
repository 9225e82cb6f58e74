# Verification of the Hi3516CV500 camera SDK

TLA+ models, TLC configurations and TLAPS proofs for the parts of this camera
SDK whose source is open and that have control worth a model: the kernel driver
of the image signal processor (ISP, `src/component/isp/kernel`), the ISP
firmware that runs in user space (`src/component/isp/user/firmware`), the
P-iris driver, the frame buffer driver (HiFB) and the UVC camera sample. The
media modules around them (VI, VPSS, VENC, VO, TDE) are binaries; what they do
with the open code is modelled from that code's side of the interface.

`PROJECT.json` maps every definition to the lines it models and lists runs,
mutants, hazards, findings and theorems.

## 1. Inventory

### How the system works

One ISP *pipe* turns the raw frames of one sensor into images. Once per frame
the hardware raises a frame-start interrupt. The kernel's handler
(`isp.c`, `ISP_ISR` → `ISP_DRV_GetUseNode` → `ISP_IrqRoute`) reads the
statistics of the frame, writes the sensor registers that are due, takes a
buffer for the next configuration and wakes the firmware thread. That thread
(`HI_MPI_ISP_Run`) runs the algorithms on the statistics, writes the result
into the buffer, publishes it, and submits the registers the sensor shall get.
VI, another kernel module, fetches the published configuration for each frame
it processes and gives it back later. An application starts and stops all this
through `HI_MPI_ISP_*`, and may change resolution or WDR mode meanwhile.

So four actors (handler, firmware thread, VI, application) share three queues
per pipe, one spin lock per pipe (`g_stIspLock`), one user mutex per pipe
(`stLock`), and a set of flags that some of them read without either lock.

Beside this core there are four smaller machines with actors of their own. The
kernel modules of other devices register callbacks with the ISP driver, which
its handler and a work item run for each frame (`isp_st.c`). Several pipes may
be *stitched*: one interrupt routes all of them and their configurations are
published together. The P-iris driver steps a motor from a timer while calls
wait for it to arrive. HiFB draws each refresh of the application with a
blitter into the buffer that is not on screen and flips in the display's
interrupt. The UVC sample moves encoded frames from an encoder thread over
three lists to the buffers of the USB gadget driver.

### Components

| Component | Status | State | Operations | Hard behaviour | What makes it correct |
|---|---|---|---|---|---|
| BE configuration buffers (`isp.c`, `isp_list.c`) | modelled | free and busy lists, `pstUseNode`, hold counts, `s32UseCnt`, exit state | init, exit, take (handler), publish, run-once, mode switch, get/put/hold (VI) | handler tests outside the lock; VI holds old buffers; switches reclaim held ones; exit times out | no node lost or linked twice; what VI reads is not rewritten nor freed; VI gets the newest |
| Statistics buffers (`isp.c`, `isp_statistics.c`) | modelled | free, busy and user lists, `pstActStat`, `bRead` of the firmware | fill (handler), get, put, early return, init, exit | two nodes only; firmware keeps one over frames and sessions | a buffer for every frame; held statistics do not change; newest used |
| Pipe life cycle (`mpi_isp_entry.c`, `isp_main.c`, sample `sample_comm_isp.c`) | partly | `bMemInit`, `bInit`, `bRunEn`, `bRun`, `stLock`, the kernel's copies, interrupt mask | MemInit, Init, Run, RunOnce, Exit, death of the process | Exit against Run; mutex destroyed; partial failures; kernel state survives a crash | firmware never runs on freed buffers; stop ends; restart works |
| Sensor synchronisation (`isp.c`, `isp.h`, sensor libraries) | partly | ring of 5 configurations, delay line `apstNode`, change marks | submit, read newest, write registers, switch | registers of different delay, late or repeated runs, copies outside the lock | each register written in its frame, none skipped |
| VD and frame-edge events, kernel configurations (`isp.c`) | modelled | `bEdge`, `bVdStart`, `bVdEnd`, `bVdBeEnd`, semaphores; a double buffer and its index | wait, wake; set, flip, read | flags cleared before the wait, several waiters, time-outs, a handler that reads without lock | no wake-up lost or stale, waits end, no torn configuration |
| Synchronous tasks (`isp_st.c`) | modelled | two lists of callbacks with their counts, semaphore, work item | register, unregister, run | list walked by the handler without a lock, search outside the semaphore | none run after unregister, no broken link, each runs |
| Stitching (`isp_main.c`, `mpi_isp_entry.c`, `isp.c`) | partly | running state, node and round of each pipe, `bStitchSync` | init, run in step, publish for all, exit | the last to finish publishes all; sub pipes spin for the main one | no half-written configuration, no pipe a round ahead, exit ends |
| Virtual register table (`isp_drv_vreg.c`) | partly | table of banks | init, exit, query, release | search and fill without a lock | one bank per address |
| Register hardware layer (`isp_drv.c`) | partly | driver context, register images | init, register access | — | — |
| Pro and snap modes (`isp.c`) | not modelled | trigger flags, history of configurations | trigger, per-frame step | counted in the handler, set by the application | the right frame is snapped |
| P-iris driver (`piris.c`) | modelled | position, destination, phase, timer, completion | move, origin, close, timer, handler's request, open, close, unload | completion initialised after the motor starts; timer against new targets | waits end, calibration is true, no timer on freed memory |
| HiFB (`hifb_main.c`) | partly | display index, flip request, blitter handle, union of regions | double-buffered refresh, blitter callback, two interrupts | three contexts flip buffers; check-then-act waits | the buffer on screen is not drawn to, the screen never goes back, a refresh comes on screen |
| UVC sample (`uvc_app`) | partly | free, ok and waited frames, gadget buffers | fill, send, stream on/off/commit | encoder, send and event threads; stream restarts | no frame lost or returned twice, no frame of the old format, host served |
| Register configuration, parameter interface, firmware support, algorithms, 3A samples, sensor drivers | not modelled | register images, parameters | copies and arithmetic | — | — |
| PWM, I2C, SPI, SSP drivers, HiFB hardware layer | not modelled | — | register transfers | — | — |
| Other samples, tools, glue, binaries, headers | not modelled | — | calls into closed libraries | — | — |

### Hazards

The list in `PROJECT.json` names for each hazard the line where it bites and
the properties that would catch it. The main ones: the handler's test of
`pstUseNode` outside the lock (isp.c:7159), mode switches that drop VI's holds
(isp.c:5350), the exit that waits for a counter (isp.c:1550), `bRead` against
the kernel's user list (isp_statistics.c:121), `bRun` tested before `stLock`
(mpi_isp_entry.c:1343), a mutex destroyed under the Run thread
(mpi_isp_entry.c:1493), kernel state of a process that died (isp.c:6958), the
unlocked read of the configuration ring (isp.c:2276), the flag shared by all
callers of a VD wait (isp.c:202), the walk of the callback lists without a lock
(isp_st.c:218), the completion a P-iris call initialises late (piris.c:189),
the three separate steps in which a stitched firmware begins its round
(isp.c:5387), the flip that races the next refresh (hifb_main.c:5269), and the
slots that two threads of the UVC sample give back (uvc-gadget.c:395). Where a
hazard does its harm in this code, the property says up to which event things
are right (`overtaken`, `crossed`, `Clash`, `late`, `cut`; see sections 2 and
5), and the model goes on to that event.

Hazards this code has that no property covers yet:

- isp.c:5437: `bRunOnceFlag` stays set after a successful run-once.
- isp.c:1118: `pstActStat` survives the exit and the next init.
- isp_drv.c:3145: `ISP_DRV_StaKernelGet` loads the buffer address before it
  takes the lock.
- isp.c:1538: `BeBufExit` runs under `g_stIspLock`, the stitched operations on
  the same queue under `g_stIspSyncLock`.
- isp_drv_vreg.c:91: the search for a free slot is made without a lock.
- isp.c:7046: the top half overwrites `stIntSch` that the bottom half of the
  frame before may still read (`CallReturns` names the consequence).
- isp_main.c:272 and 441: image and WDR mode switches of a stitched group.
- hiuvc.c:78: the join of a send thread whose loop has no end.

## 2. Modules

| Module | What it is |
|---|---|
| `NodeList` | node lists as sequences, the sub-list a removal leaves |
| `BeCfgPool` | abstract: a pool of configurations with one writer and many readers |
| `IspBeBuf`, `IspBeBufProofs` | the BE configuration buffers, refining `BeCfgPool`; theorems |
| `IspStatBuf` | the statistics buffers, kernel and firmware side |
| `IspSession`, `IspSessionProofs` | the life cycle of a pipe; theorems |
| `IspSyncCfg` | the sensor configurations |
| `IspEvents`, `IspEventsProofs` | the events callers wait for, and the kernel configurations; theorems |
| `IspSyncTask` | the callbacks of other modules |
| `IspSyncProofs` | theorems of `IspSyncCfg` and `IspSyncTask` |
| `IspStitch`, `IspStitchProofs` | a group of stitched pipes; theorems |
| `Piris`, `PirisProofs` | the P-iris motor; theorems |
| `HifbFlip`, `HifbFlipProofs` | the double-buffered refresh of HiFB; theorems |
| `UvcFrames` | the frames of the UVC sample |
| `NodeCycleProofs` | theorems of `IspStatBuf` and `UvcFrames`, whose nodes go round through lists |
| `MC...` | one per specification: the environments and values TLC checks |

`IspBeBuf`, `IspStatBuf` and `IspSyncCfg` each model one queue with the actors
that use it and abstract the others. `IspSession` composes the queues as the
flags `kBe` and `kStat` and checks that they exist whenever the firmware runs,
which is what the three others take for granted in their `fw` states.
`IspStitch` composes several pipes: of each it keeps what the group shares, the
running state, whether `pstUseNode` has an old or a whole configuration, and
the life-cycle steps of `IspSession` that touch the group; what happens within
one queue is `IspBeBuf`'s.

Conventions. A critical section is one action; a test outside the lock is an
action of its own, and so is a copy made after the lock was dropped. On one
processor a handler runs to its end once it has begun; `smp` lets it overlap
with everyone else. Most modules have a record variable `env`, chosen once in
`Init` from the constant `Environment`, that says what the actors outside the
module do; properties that need a well-behaved environment name the fields they
need, so that one run covers all environments and the premise can be read in
the property. Operators marked "Mutant" are not part of any specification: each
is a plausible mistake in the action it precedes, and a run finds it.

### IspBeBuf

`free` and `busy` are the two lists, `useNode` is `pstUseNode`, `hold` the
counts of the nodes, `useCnt` the count the exit waits for, `refs` the
references VI really has (VI is external). `isr = "take"` is the time between
the handler's test (7159) and its lock (7187). `fw` says where the firmware
thread is: each of its actions is one ioctl. Fields of `env`: `modeSwitch`,
resolution or WDR mode changes (`ISP_DRV_GetBeLastBuf`); `viHold`, VI takes
second holds (`ISP_DRV_HoldBusyBeBuf`); `viInOrder`, VI gives buffers back in
the order it got them; `runOnce`, the application calls `HI_MPI_ISP_RunOnce`;
`maxRef`, how many references VI has at most. The exit masks the interrupt but
waits for no handler on another processor, so one that has tested
`pstUseNode` may take the lock after the exit and even after the next init:
`overtaken` remembers that.

`SubList` leaves open in which order the nodes stay in a list from which
several are removed; both orders of the driver's walk are in it.

### IspStatBuf

`freeList`, `busyList`, `userList` as in the driver; `bRead` and `userNode` are
the firmware's `g_astStatCtx`; `mapped` says whether the firmware's address
lies in the memory of this session. `frameOf` numbers the frames so that
"newer" has a meaning. `EarlyReturn` is a run that ends with the node it took
(frozen firmware, or a stitched pipe whose turn it is not).

### IspSession

One application thread with a program counter (`main`), any number of threads
that call Run (`pc`). `uXxx` are flags of the process, `kXxx` of the kernel.
`Crash` resets the former only, as `ISP_close` does nothing. As
`SAMPLE_COMM_ISP_Stop` does, the application stops a pipe with Exit and then
joins its Run threads. Locking a destroyed mutex is undefined; the model lets
the caller go on without the lock, which is what glibc does. The last two ioctls
of `ISP_Init` (`InitSet`) cannot fail there: the driver refuses only a wrong
pipe, pointer or hand signal (isp.c:5768 and 6303).

### IspSyncCfg

`wr`, `rd` and `buf` are the ring; `apstNode` is the delay line; `isr` goes
through the first interrupt (and the second) of a frame in steps `shift`,
`read`, `write`. One register stands for all: `mode` fixes its delay and
interrupt position. `due` remembers the newest value of this frame and of the
last ones, and the properties compare the sensor (`reg`) with it. `dirty`
remembers that a slot the line points to is being written again, `stale` which
pending slots are from before a change of modes.

### IspEvents

`ISP_DRV_GetFrameEdge`'s relatives: the waits for the VD start, the VD end and
the BE end. Each kind has one `flag` and one `sem` for all callers. `pc` takes
a caller through down, clear, wait (successful, timed out or interrupted by a
signal) and up; `req.status` is the `u32IntStatus` of its copy, which is all
that tells it how the wait ended, since the ioctl returns `HI_SUCCESS` in every
case (isp.c:5951). `fired` is history, kept until the call returns: its event
has come while it waited. The
interrupt saves its status in the `TopHalf`; with `env.bothalf` the rest runs
in the `BottomHalf`, and the next interrupt may overwrite the status before
(isp.c:7046). `StatBegin` and `StatEnd` bracket the reading of the statistics
under `g_stIspLock`; `CopyFirst`, `CopySecond` and `Flip` are
`SetRegKernelCfgs`, whose copies are made without it. `MaskInt`, `ResetCtx`,
`Restart` are the exit and the next start. Fields of `env`: `kinds` callers ask
for, `untimed` (somebody waits with time 0, that is for ever), `writes` (the
firmware sets configurations), `maxExit`.

### IspSyncTask

`next` and `prev` are the links of both lists, changed link by link as
`list_add_tail` and `list_del` do, `num` the counts, `sem` the semaphore.
`irq` walks the handler's list (`HwStep`) without any lock; the work item
(`work`, `wk`) walks the other under the semaphore; `TaskProcess` schedules
it. A call searches its id first (`Search`), then takes the semaphore
(`Down`, which a signal may end: `DownSignal`), links or unlinks (`Change`) and
counts (`Count`). `owner` is history: what the owner of a node was told. Fields
of `env`: `smp`, `signals`, `hwirq` (which tasks are in the handler's list),
the `id` of each, and `apart`: the callers keep their calls for one list apart,
so that those under way at once all register different ids (`Apart`). Nothing
in the code sees to that, so an environment is without it, and `crossed`
remembers that calls met which are not apart. When such calls are about to link
a node that is linked (`LinkedTwice`) the links stop being a list, and the
model stops there.
`Linked(l)`, the nodes a walk of the list meets, is the least set that has the
first node and with each node the next, so that it can be reasoned about
without an induction. The names of the specification carry a prefix
(`TaskTypeOK`, `SyncTaskInit`, `TaskNext`, `TaskSpec`, `TaskFairSpec`), and so
do those of `UvcFrames` (`FrameTypeOK`, `FrameSpec`), because each shares its
proof module with another specification.

### IspStitch

For each pipe: `goal` (the application wants it up), `ctl` (the call that
starts or stops it), `fw` (its Run thread), `be`, `state`
(`enIspRunningState`), `node`, `edge`, `sync` (`bStitchSync`). `turn` is the
parity of the configurations published, so that the rounds of two pipes can be
compared without counting them. The interrupt of the main pipe routes the pipes
in `isr` one by one (`IsrTake` or `IsrPass`, then `IsrWake`). The one who finds
all others finished publishes the pipes in `lock.left` one by one, under the
main pipe's `g_stIspSyncLock` (`PublishTest`, `PublishPut`); the last `Init`
does so for the first configurations (`WriteAll`). `RunStart`, `FwBegin`
(stLock and `GetBeFreeBuf`), `RunState` (isp.c:5387), `StitchBeBufCtl` are the
firmware's round; a firmware whose node was published meanwhile is `lost`, and
writes into it when it goes on (`stray`). Fields of `env`: `serial` (one thread
starts the pipes), `together` (all are stopped before one is started again),
`brief` (no interrupt between isp.c:5253 and 5387), `smp`; `Careful` is the
conjunction under which rounds stay right, see section 5.

### Piris

`src` and `dest` are position and destination in steps, `phase` the phase of
the motor's coils, `motor` where it really is, `pending` and `running` the
timer, `done` the completion. `call` is the ioctl in progress
(`SetActArgs`, `SetOrgin`, `SetClose`) with the several moves `SET_ORGIN` and
`SET_CLOSE` make (`Move`, `InitCompletion`, `Wait`, `SetPosition`);
`HandlerUpdate` is the request of the ISP's handler. `DelTimer`, `Free`,
`UnregisterIsp` are `piris_exit` in its order. Fields of `env`: `polite`
(callers wait for the idle status before the next request), `handler`, `smp`,
`exits`.

### HifbFlip

`idx` is the buffer the interrupt shows next, `screen` the one displayed,
`needFlip` and `flipped` the flags under the lock, `handle` the blitter job the
flip waits for, `union` the regions drawn since the last flip, `jobs` the queue
of the blitter (TDE, external), `pix` which refresh each region of the two
buffers and of the canvas shows. A refresh goes through `Wait` (for the frame
start), `GetOsd` (the address in effect), `Pick`, `Sync` (bring the other
buffer up to date), `Unite`, `Draw` and `Store` (the handle). A job the blitter
refuses ends the call (`Fail`), and is done nevertheless when it cannot be
cancelled; a copy that is cancelled counts as made, because `HIFB_DRV_Blit`
then returns 0 (hifb_blit.c:518), the second disjunct of `Sync`. The two display
interrupts are `VerticalTiming` (the callback that flips) and `FrameStart`.
`GetOSDData` returns the address in effect, as the comment at
hifb_main.c:5359 has it. Fields of `env`: `paced` (the application sleeps
between refreshes, as the repository's sample does), `calm` (no display
interrupt in the steps that look at what is shown), `quick` (a job may be done
before its handle is stored), `fails` (the blitter refuses jobs).

### UvcFrames

`freeQ`, `okQ` and `waited` are the three lists of the frame cache, `buf` the
gadget's buffers (external: the driver), each with the node whose memory it
names, `enc` the frame the encoder fills, `fmt` the format of a frame's
content. `SenderSelect` to `SenderQbuf` are the send thread, which shares
`Fill` (fill a buffer: `FillGet`, `FillRelease`, `FillZero`, `FillStore`) with
the event thread; a request of the host gives the event thread a `job`, the
list of phases of a stream start, stop or commit.

What goes wrong in the code goes wrong in the model: a stop does not wait for
the send thread, which may be in its retries (`Off`); a start of the encoder
may fail and nobody looks (`Startup`), and its thread may end by itself
(`EncEnd`); after the last retry the send thread requeues the memory DQBUF gave
it (`held`), whose node is free, while the event thread queues no memory, is
refused and leaves its loop (`Queue`); a disconnect stops nothing, so that the
next start meets a running stream (`Disconnect`). Three of these leave a trace
the properties refer to: `late` (the last stop met a buffer in the hand of the
send thread), `cut` (the stream began without a stop), and `Clash`, a state in
which the two threads are in one slot of `__waited_node`, each between its test
and its store. What the linked lists become after a clash is not modelled.
Fields of `env`: `bulk`, the `formats` the host asks for, `replug`, `fails` (a
conversion of the encoder's output may fail).

## 3. Runs

All runs are exhaustive. The two with `expect: violation` show a disagreement
of the code with one of its own comments. Properties of several parts are
conjunctions of named ones, given after `=`.

| Run | Environments | Properties | States |
|---|---|---|---|
| `bebuf` | in order; any order with extra holds; mode switches on two CPUs and on one; looping with and without switches; fairness | `NodesDisjoint`, `UseNodeKept` = `NoNodeLost` ∧ `FwWritesUseNode`, `ExitSafe` = `UseCntExact` ∧ `NoRefAfterFree`, `HeldStaysPublished`, `ServedNewest` = `ConfigAvailable` ∧ `NewestServed`, `LastBufIsNewest`, refinement `PoolSpec`, `FirmwareCycles` = `NodeSupplied` ∧ `FramePublished` | 635114 |
| `stat_fair` | early returns, exits, fairness | `StatNodesKept`, `OfferedAndHeld` = `NewestOffered` ∧ `UserHoldsOne`, `StatsMoveOn` = `HeldStatStable` ∧ `RunsOnNewer`, `StatUsed` | 2140 |
| `session` | one Run thread and two crashes; two Run threads and one crash; exit time-outs, retries | `IntGuarded` = `IntOwned` ∧ `WaitsUnmasked`, `BuffersWhenUsed` = `FwSafe` ∧ `RunFlagMeansReady`, `MemInitCleans`, `StopCompletes`, `Recovers` | 12296 |
| `session_twice` | two Run threads at once | `SingleRunTask` **violated** | — |
| `sync_delay` | one processor, switches, delay 2, both interrupt positions | `TypeOK`, `AppliesDelayed`, `RingKept` = `SlotsKept` ∧ `NeverRefused`, `SwitchClean` | 12.19 million |
| `sync_skip` | two processors, no switches | `NoResultSkipped` **violated** | — |
| `events` | untimed callers; bottom half, timed callers and an exit; configurations written; fairness | `ToldExactly` = `VdIsFresh` ∧ `NoVdLost` ∧ `StatusTells`, `CfgNotTorn`, `CallReturns` | 88645 |
| `piris` | polite callers; impolite ones with the handler; unloading; fairness | `TimerKept` = `TimerArmed` ∧ `NoUseAfterFree`, `CalibrationTrue`, `WaitEnds` | 1134044 |
| `sync_task` | one or two CPUs, different splits of the tasks over the lists, equal ids, signals, calls that meet in any way; fairness | `TaskTypeOK`, `WalksRegistered` = `NoStaleCallback` ∧ `WalkSafe`, `ListMatchesCount`, `EveryTaskRuns` | 1182290 |
| `uvc_frames` | isochronous, bulk, reconnects without a stop, failing conversions; fairness | `FrameTypeOK`, `NodesKept`, `SentIsRight` = `SentIsStable` ∧ `FormatFresh`, `HostServed` = `FramesFlow` ∧ `EventEnds` | 1266041 |
| `hifb_flip` | paced, paced and quick, paced and failing, calm, everything; fairness | `DrawsIdle`, `ScreenSteady` = `[]NoTear` ∧ `ScreenForward`, `ComesOnScreen` | 253884 |
| `stitch` | one starting thread; one for each pipe; fairness | `RoundsRight` = `PutsWhole` ∧ `WritesOwnNode` ∧ `InStep`, `GroupLives` = `RoundsGoOn` ∧ `GroupEnds` | 9452 |

Each takes less than four minutes on two workers. `TypeOK` of `IspBeBuf`,
`IspStatBuf`, `IspSession`, `IspEvents`, `Piris`, `HifbFlip` and `IspStitch` is
proved and not run.

### Why the bounds are enough

- `MaxNode = 4` and `MaxStat = 2` are the driver's own numbers
  (`MAX_ISP_BE_BUF_NUM`, `MAX_ISP_STAT_BUF_NUM`), `BufNum = 5` is
  `ISP_SYNC_BUF_NODE_NUM`. `maxRef = 3` lets VI hold one buffer three times and
  three buffers once, that is every node but `pstUseNode`. With mode switches on
  two processors it is 2, enough for VI to hold a node that a switch has freed
  beside one that is published.
- Six frames let the firmware keep a statistics node over several frames and
  meet each of the three places a node can be in again.
- Two crashes allow one during the recovery from another.
- `DlyLimit = 3` stands for `CFG2VLD_DLY_LIMIT = 5`: the indices above 3 are
  only copied in the modes modelled. The register has delay 2, the largest the
  sensor libraries use; smaller delays use a prefix of the same line. Its two
  values are interchangeable (`SYMMETRY`), which is sound as that run has no
  liveness property.
- `events`: two callers are enough for one to clear or take what the other
  waits for, and one exit for a restart with callers still inside. Frames are
  not counted.
- `piris`: three steps each way, one of hysteresis and a lens of two let every
  request reach, miss or overshoot the limit; `MaxDone = 2` caps the count of a
  completion nobody waits for (one stale completion is enough to end a wait).
- `sync_task`: three tasks give a list of two, in which the walk stands on a
  node whose neighbour is removed, and one in the other list; two callers.
- `uvc_frames`: as many frames as slots, two, so that all of them can wait in
  slots and the encoder lives on the node an empty fill gives back (hazard
  uvc-gadget.c:493); one retry stands for the code's count. Starts, stops and
  reconnects are not bounded.
- `hifb_flip`: two regions, so that an update may cover part of the screen;
  four refreshes, two more than there are buffers.
- `stitch`: two pipes, the hardware's usual number; rounds and restarts are
  not bounded. The safety part was also checked with three pipes (112776
  states).

The deadlock check is on in all runs but `piris`: `SET_CLOSE` or `SET_ORGIN` to
a position at which the motor already rests waits for ever, with the semaphore
held (see section 5), so that the system really may stop.

### Fairness

- `bebuf`: frames keep coming (`WF` of the handler), firmware loop and exit are
  scheduled (`WF`), the call that publishes is strongly fair: the run may be
  given up for want of statistics, but the interrupt that wakes the firmware
  also fills a statistics buffer for it. VI gives buffers back while the pipe
  is up (`SF`). No fairness on VI during the exit: the time-out of the wait
  (isp.c:1550) must end it.
- `stat_fair`: frames and the firmware loop (`WF`), and the firmware is not
  frozen for ever (`SF` of the call that ends a full run).
- `session`: every thread is scheduled; `SF` for those who wait for `stLock`: a
  thread that finds it free again and again gets it. No fairness on the
  interrupt: the wait has a time-out (isp.c:157) and stopping must not depend
  on frames. `Recovers` needs of the application that it tries again, that VI
  lets go of its buffers some time and that allocations do not fail for ever
  (`RetrySpec`).
- `events`: callers are scheduled, a semaphore that is free again and again is
  got (`SF`), the handler runs on (`WF`), the interrupts of an unmasked pipe
  come (`SF`).
- `piris`: timers that are due, their callback and calls run (`WF`).
- `sync_task`: `WF` of the handler's frames, `SF` of the work item and of the
  calls, which the semaphore serves in turn; of nobody once a node is linked
  twice.
- `uvc_frames`: encoder, send thread and event thread are scheduled (`WF` of
  each), and a host that is there reads what is queued (`WF`). The host need not
  send another request, and the encoder's thread need not end or last.
- `hifb_flip`: call, blitter and display go on (`WF`). Nobody must refresh.
- `stitch`: calls and firmware threads are scheduled and get the locks (`SF`),
  statistics arrive (`SF` of `RunState`), the handler runs on and VI gives
  buffers back, so that each pipe finds a free node again and again (`SF` of
  `IsrTake` for each pipe), who publishes goes on (`WF`).

## 4. Proofs

All theorems hold for every value of the constants, in particular for every
environment. The only assumptions are the named ones on the constants
(`ConstAssumption` and the like: positive numbers, sets without the model
values that stand for "nobody" or "nothing"; in `Piris` that the hysteresis is
at least the lens less one, as in the driver), which the runs evaluate, and those
that stand in the theorems themselves: `MaxStat >= 2` in `NeverShort`, and one
processor and a ring that is long enough for the delays in use (`RingFits`) in
three of the theorems on `IspSyncCfg`. A theorem claims no more than its
property: where that has a premise (a field of `env`, or a state such as
`crossed`), the comment of the property and the theorem's entry name it.

`IspBeBufProofs` proves for any number of nodes and references:

- `TypeCorrect`: `Spec => []TypeOK`. The work is in the list lemmas: what the
  head, the rest and the sub-lists of a list of nodes are.
- `LinkedOnce`: `Spec => []NodesDisjoint`, by the invariant
  `TypeOK /\ NodesDisjoint`, which is inductive. It also covers the race of the
  handler with a mode switch: whatever the handler overwrites, it has taken
  from the free list, and that list never has the node twice.
- `UseNodeAlwaysKept` (`UseNodeKept`), from `UseInv`: no node is outside all
  lists, and the firmware's buffer is `pstUseNode`. It rests on what the
  program counters say (`Control`): the handler that tested `pstUseNode`
  outside the lock still finds it empty under the lock, because it runs only
  during `HI_MPI_ISP_Run`, where nobody but a mode switch sets it. Two cases are
  left out, since there the unlocked test does lose nodes: a mode switch on
  another processor, and a handler that takes the lock after the next init
  (`overtaken`).
- `HeldAlwaysPublished` (`HeldStaysPublished`) and `ExitAlwaysSafe`
  (`ExitSafe`), from `PublishedInv` (every published node but the newest is
  there because VI holds it, and only those have holds), `HeldInv` (without
  mode switches the holds are VI's references) and `ExitInv` (VI is refused
  once the memory is gone). Counting references needs lemmas on how often a
  node is in a list (`Occurs...`).
- `NewestAlwaysServed` (`ServedNewest`) and `LastBufAlwaysNewest`
  (`LastBufIsNewest`), from `OrderInv`: the references to older nodes are
  older, so that VI, which gives back in order, never drops the newest one
  first. `LastBufIsNewest` is about switches that find no `pstUseNode`, with
  one reference of VI. An attempt to prove `NewestServed` without the condition
  on `viHold` failed for a good reason: VI may take a second hold on an older
  node and then give back the newest first although it gives back in order. The
  property now names that condition, and TLC finds the counterexample without.
- `PoolRefined` (`PoolSpec`): the refinement of `BeCfgPool`. Initial states map
  to initial states and every action maps to a step of the pool or to a
  stutter: `BeBufInit` to `Open`, taking a free node to `Claim`, publication to
  `Publish`, VI's calls to `Pin` and `Unpin`, the end of the exit to `Close`.
  The invariants above are what the pool's guards ask for: nobody reads the
  buffer a writer claims, and nothing is pinned when the pool closes. The
  refinement is claimed where VI returns its buffers in order, takes no extra
  holds and no mode is switched (`PoolView`); elsewhere, and after an init that
  overtook a handler, the mapped pool stays closed and nothing is said.

`NodeCycleProofs` proves every safety and action property of the run
`stat_fair`, for any number of nodes and any bound on the frames:

- `StatTypeCorrect`: `TypeOK` is not inductive, because the frame a run has used is
  read from the node the firmware remembers. `StatType` adds that this is a node
  whenever the firmware's address is mapped.
- `StatNodesAlwaysKept`: `Spec => []StatNodesKept`. No node is lost: the handler moves
  the node it overwrites, `UserPut` moves exactly the firmware's.
- `NewestAndHeld`, `NeverShort`, `HeldStable`, `RunsForward` and, from the last
  two, `StatsMoveOnAlways`: one inductive
  invariant `StatInv` for all. To the above it adds `FwLink`, which says
  that the kernel's user list is what `bRead` says (that is why the handler can
  never choose the firmware's node), and `Ages`, which orders what the
  algorithms ran on, what the firmware has and what is offered.
  `NeverShort` needs `MaxStat >= 2`: the firmware has at most one node, so a
  second one is left for the handler. The driver has exactly two
  (`MAX_ISP_STAT_BUF_NUM`); with one the property is false.

The lemmas on lists stand at the head of `IspBeBufProofs`, and those on head,
tail, concatenation and sub-list at that of `NodeCycleProofs` too; the step
lemmas `PutBusyStep`, `PutBusyToFreeStep` and `GetBeLastBufStep` say what the
three operations that move several nodes do to the lists and are used by both
`TypeStep` and `LinkedStep`.

`NodeCycleProofs` proves the three invariants of the run `uvc_frames`, for any
cache, number of slots and number of retries, and in every environment:
`FrameTypeCorrect` (`FrameTypeOK`), `FramesAlwaysKept` (`NodesKept`) and
`SentAlwaysRight` (`SentIsRight`). `NodesKept` is about all states but those of
a `Clash`, and `SentIsRight` about streams that are neither `cut` nor `late`,
because the code keeps neither promise there (section 5). None of the three is
inductive; `FrameInv` is:

- `JobAt(k, n)`: the event thread is at step k of a job that ends with step n.
  Every job is a part of one script, `Disable \o Enable` (`WholeScript`), so the
  position says what the steps before have left: the driver streams only in a
  start that cut into a stream, no encoder runs from its join to its next start,
  `ok_queue` is empty from its clearing to the start; and, after a stop that was
  not late, no buffer is with the driver or in the hand of the send thread. It
  also says where in its loops over the slots the thread may be.
- `EncoderInv`: while it is started, the encoder has a thread of the format that
  is set, or none, so that a stop always joins the right one of the two.
- `HandInv`: what a thread has in hand and what is in its slot, at each place of
  `uvc_video_fill_buffer_userptr`, as long as the other is not in the same slot.
- `BufInv`: in an orderly stream (`Orderly`) the node of a buffer that is with
  the driver waits in its slot.
- `NodesKept` itself. `Places` counts a node in five places; the lemmas on
  queues (`QueueAt...`), slots (`Wait...`) and hands (`HandAt...`) say how each
  count changes, and `KeptStep` that no step changes the sum.
- `QueueFmt` and `SentFmt`: whatever is in `ok_queue`, with the encoder, in a
  hand or with the driver has the format that is set; when that changes all four
  are empty. A node of `free_queue`, which the encoder may overwrite, is in none
  of them because it is in one place only (`FreeIsFree`).

That the cache begins with every node once (`CacheOrder`) is proved from the
cardinality of the cache; in which order does not matter.

`IspSyncProofs`, on the sensor configurations, for any ring, delay line, set of
values and delays:

- `TypeCorrect`, also on two processors.
- `RingAlwaysKept` (`RingKept`), `AppliedAsDelayed` (`AppliesDelayed`) and
  `SwitchAlwaysClean` (`SwitchClean`), on one processor and with `RingFits`:
  `BufNum >= 4`, `BufNum >= MaxDelay + 3` and `BufNum >= SyncIndex + 2`. The
  length of the line (`DlyLimit`) does not matter. The driver has a ring of five
  (`ISP_SYNC_BUF_NODE_NUM`), its sensors have registers with delays up to 2, and
  the gains of the ISP then use index 3: `DriverRing` proves that this fits, and
  five is exactly enough: with a ring of four TLC finds a slot overwritten that
  the handler is about to use. On two processors TLC finds the same. So the
  theorems cover the driver's own `CFG2VLD_DLY_LIMIT` = 5, for which the run is
  too long. A sensor with a delay of 3, which the driver would accept
  (`u8Cfg2ValidDelayMax` up to 5), would need a ring of six: with five TLC finds
  the same again. All three properties come from one invariant, `SyncInv`:
  - `HandlerInv`: who reads the ring in which interrupt, and that what the
    handler found out about skipped configurations is still so when it reads;
  - `CountInv`: what is pending, being submitted or about to be (`Load`) is
    never more than three, and two except while the handler is at work; a run
    needs the edge and a node, and the handler takes one node per frame;
  - `AgeInv`: the entry of the line at index k is at most k + 1 configurations
    behind the newest one read, and less by what may still come: so up to index
    `BufNum - 3` no slot can be written again, and at `BufNum - 2` only between
    the readings of two frames. This is where the length of the ring comes in;
  - `PendInv`: a report that leaves a register unmarked repeats what was
    submitted before it in the same mode;
  - `ValueInv`: the line has the values that are due, and an entry that is
    unmarked, or repeats the one behind it, brings nothing new;
  - `RegInv`: hence the register has what is due, or a mark is still waiting
    for its interrupt.

  The distances in the ring are lemmas on their own (`RingIndex` to `RingAdd`):
  the remainders are taken out once, there.

`IspSyncProofs`, on the synchronous tasks, for any nodes, callers, ids and
distribution over the two lists: `TaskTypeCorrect` (`TaskTypeOK`),
`WalksAlwaysRegistered` (`WalksRegistered`) and `CountAlwaysMatches`
(`ListMatchesCount`). The lists are linked by pointers, so the invariant
`TaskInv` says what shape the links have:

- `LinkInv`: there is a rank for each node that grows along its list (`Chained`);
  the existence of ranks stands for the induction over the list. Linking a node
  gives it a rank above all, unlinking keeps the ranks of the rest (`AddTail`,
  `Delete`). The same ranks say what a search that runs without the semaphore
  has still before it (`Searched`): a node with its own id cannot slip in
  behind it, unless calls cross.
- `LinkedIsMembers`: hence a walk from the head meets exactly the nodes whose
  links are not poisoned. The proof takes the node of least rank that is not
  met; its predecessor is met.
- `CallInv`: the semaphore is held from `Change` to `Up`.
- `ApartInv`: while no calls have `crossed`, what a search found is still so when
  the links change, and no two calls work on one node. The shape of the lists
  does not need it: counts and the walks under the semaphore are right whatever
  calls meet.
- `WalkInv`: the work item walks only while it has the semaphore; on one
  processor the handler's walk is never interrupted, on two it is not claimed
  to be safe.
- `NumInv` and `OwnInv`: the count differs from the list by the call that is
  between the two changes; and, while no calls have crossed, no id is linked
  twice and without signals no linked node's owner was told that it is gone.

`IspSessionProofs`, for any number of Run threads and crashes:

- `TypeCorrect`.
- `BuffersThere` (`BuffersWhenUsed`) and `MemInitCleansUp` (`MemInitCleans`),
  from the invariant `SessionInv`: who holds `stLock` (`LockInv`), what the
  process believes of the kernel (`UserInv`), how far an init or exit has come
  and what is still allocated there (`StageInv`), that the firmware runs only
  while `bRunEn` is set (`FwInv`), and what MemInit has cleaned when it comes
  to its last step (`CleanInv`).
- `IntGuardedAlways` (`IntGuarded`), which adds `IntInv`: until the first
  crash an unmasked interrupt has a thread that will mask it, and with one Run
  thread the mask of a waiting thread is changed by exits only.

`IspEventsProofs`, for any number of callers and exits: `TypeCorrect`;
`ToldRight` (`ToldExactly`), whose strengthening says that whoever is past the
semaphore of a kind is its holder, so that nobody else clears the flag. It is
about the flag and the status copied back, not about the return value, which is
`HI_SUCCESS` for everybody; and `ConfigNotTorn` (`CfgNotTorn`): the half that
is not active is the only one copied into, and the flip needs the lock the
handler reads under.

`PirisProofs`, for any limit, hysteresis and lens: `TypeCorrect`;
`TimerAlwaysKept` (`TimerKept`); `CalibrationRight` (`CalibrationTrue`): the
invariant relates the real position of the motor to the one the driver believes
over the moves of a request and the clamping at both ends.

`HifbFlipProofs`, for any number of regions and refreshes: `TypeCorrect`;
`IdleDrawn` (`DrawsIdle`), whose strengthening says that a callback of an
earlier job cannot ask for a flip, since the handle is forgotten before the
idle buffer is taken; and `ScreenAlwaysSteady` (`ScreenSteady`, an invariant
and an action property). For the latter `MovesInv` says that, in careful use,
the address in effect and the buffer the interrupt shows differ only while the
blitter is idle and no refresh looks at either, and that between a flip and the
copy at most the job of a refresh that failed is left (`FailHolds`); and, with
a blitter that refuses nothing, `PixInv` compares the ages of the two buffers
region by region: before a flip the idle buffer is newer wherever nothing is
left to be drawn, after it older in the union only.

`IspStitchProofs`, for any number of pipes: `TypeCorrect`; `OnePublisher`: the
lock of the group is held by one pipe, which is in one of the two places that
publish; and `RoundsAlwaysRight` (`RoundsRight`), from the invariant
`RoundInv`. Property and invariant are about careful use only (`Careful`: one
CPU, one thread that starts the pipes, all stopped together, no interrupt in
the first lines of `ISP_Run`), which the code does not enforce. `RoundInv` says
how far the calls that start and stop the group are (`CallsInv`), that no
firmware has a node in its hands while somebody publishes (`OneRuns`), what
each firmware owns (`FirmwareOwns`), that a group that is being started
publishes nothing before all are there (`RisingInv`), and, in the middle of the
loop over the group, that what is left to publish is whole (`LoopInv`) and that
the turns of two pipes differ exactly when one is published and the other left
(`TurnsInv`).

The invariants of `IspSyncCfg`, `HifbFlip` and `UvcFrames` were checked by TLC
before they were proved: with a ring of five, delays of one and two and changes
of modes, with every environment and three refreshes of two regions, and on the
states of the run `uvc_frames`.

Only model-checked:

- every liveness property: fairness and ENABLED are out of this prover's reach.
  They are `FirmwareCycles`, `StatUsed`, `StopCompletes`, `Recovers`,
  `CallReturns`, `WaitEnds`, `EveryTaskRuns`, `HostServed`, `ComesOnScreen` and
  `GroupLives`.

Every invariant and every safety action property of the passing runs is proved.
Runs and proofs alike say nothing of the states the properties leave out (a
node linked twice, what follows a `Clash`, streams that are `late` or `cut`,
careless use of a stitched group): there the properties are false, see section
5.

## 5. What the checks found

Disagreements of the code with its own words, each with a run:

1. `session_twice`: two concurrent calls of `HI_MPI_ISP_Run` both enter the
   loop, although it shall "always run in a single thread"
   (mpi_isp_entry.c:1306).
2. `sync_skip`: with two processors a configuration can be skipped without its
   successor being marked ("avoid skip effective AE results", isp.c:2275).

What else does not hold, so that the properties exclude it by an environment or
a condition. First the queues and the life cycle of one pipe:

- `NewestServed` needs VI in order: when VI gives back the newest buffer while
  it keeps an older one, the newest is freed and the older one served again.
  It also excludes extra holds (`viHold`), with which VI can give back the
  newest first although it returns its references in the order it got them.
- `NoNodeLost` and `FwWritesUseNode` fail with mode switches on two processors:
  `GetBeLastBuf` may set `pstUseNode` between the handler's test and its lock;
  the handler overwrites it and the node is in no list until the next init.
- They also fail when a handler on another processor tests `pstUseNode`, is
  delayed over an exit, whose wait is for VI only (isp.c:1550), and takes the
  lock after the next init: it overwrites the node `GetBeBufFirst` handed out
  (`overtaken`).
- `HeldStaysPublished` fails with any mode switch: published nodes are freed
  whoever holds them. `NewestServed` and `LastBufIsNewest` then fail with more
  than one reference.
- `NoRefAfterFree` fails with mode switches and extra holds (a hold on a
  buffer that a switch has reclaimed is granted without being counted).
- `FramePublished` fails with run-once: `bRunOnceFlag` stays set, and a
  `HI_MPI_ISP_Run` that follows publishes nothing.
- `UserHoldsOne` excludes a run that ended early, followed by an exit and an
  init: `ISP_StatisticsExit` leaves `bRead` set with an address no longer mapped.
- Without the join of the sample, a Run thread of an old session may mask the
  interrupt of a new one, or see the new `bRunEn` and loop beside the new one:
  `WaitsUnmasked` and `FwSafe` fail.
- After a crash the interrupt stays unmasked until the next Exit, also during
  the clean-up of MemInit (`IntOwned` is about pipes that never crashed).
  After an exit that timed out the BE buffers stay and Init is refused until a
  second Exit. A crash in MemInit after `VReg_Init` blocks MemInit until
  somebody calls Exit. `Recovers` shows that trying again gets out of all these.
- `SlotsKept` and `AppliesDelayed` are about configurations read in the first
  interrupt. With `u32UpdatePos = 1` in linear mode a late firmware makes the
  line move twice in one frame, so that a register is written a frame early;
  and when runs pile up, a slot that the second interrupt is about to use for
  the ISP's gains is being copied into.
- A change of the image mode in linear mode clears neither ring nor line: until
  a new configuration is read, a delayed register of the old mode may be
  written after the sensor was initialised again (`SwitchClean` asks for a
  switch that cleared them).
- After an exit and a new init `ISP_DRV_GetStatInfoActive` hands out a buffer
  that was only cleared: `pstActStat` survives (isp.c:1118), so that the check
  "stat not ready" (isp.c:4799) passes.

Events and callbacks:

- `HI_MPI_ISP_GetVDTimeOut` returns `HI_SUCCESS` also when the time was over or
  a signal ended the wait: the ioctl drops the result (isp.c:5960, 5975, 5990),
  although the sample checks for a failure (sample_af_bk.c:124). Only
  `u32IntStatus` tells, which the library does not look at (`StatusTells`).
- With the bottom half in use an untimed wait may last for ever: the status of
  every frame with the event can be overwritten before it is read
  (isp.c:7046). A timed call, too, waits without limit for the semaphore of an
  untimed one. `CallReturns` names both conditions (`AllReturn`).
- On two processors the handler's walk may follow a node that is being removed,
  or call a callback whose owner was told that it is gone; when a signal ends
  the wait for the semaphore, `unregister` returns with the node still linked;
  and of two modules with the same id one never runs. See `NoStaleCallback`,
  `WalkSafe`, `OwnIds`.
- Two calls for one list that meet: two registrations of one id may both find
  nothing and both link, also the same node a second time, after which a walk
  may go round for ever; a search may follow the poisoned link of a node that
  is being removed (isp_st.c:312); and with two nodes of one id `unregister` may
  remove the other one. `crossed` marks these in `ListMatchesCount`,
  `WalksRegistered` and `EveryTaskRuns`.

The stitched group is right only under `Careful`, and each part is needed:

- On one processor a firmware that is interrupted between `GetBeFreeBuf`
  (isp.c:5253) and `BeBufRunState` (isp.c:5387) may begin a round on a node
  that has been published meanwhile (`WritesOwnNode`, `InStep`); on two
  processors also a late wake-up of the old session starts a firmware early.
- When every pipe is initialised by a thread of its own, the second `Init` may
  fail since its node was already published; it leaves a group that never
  starts.
- When one sub pipe alone is restarted, its init publishes a half-written or
  old configuration of the main pipe; and one that is stopped alone spins in
  isp_main.c:911 until the main pipe follows.

Devices and samples:

- P-iris: a completion left by `SET_ACT_ARGS` ends a wait of a later
  `SET_CLOSE`, and so does a target the handler sets meanwhile; the position is
  then overwritten while the motor moves (`CalibrationTrue` asks for polite
  callers). `SET_CLOSE` or `SET_ORGIN` towards a position the motor is already
  at waits for ever with the semaphore held. On two processors, or with the
  handler still registered, unloading frees the device under the timer
  (`NoUseAfterFree`).
- HiFB: the wait for the frame start (hifb_main.c:5229) is check-then-act and
  gives up after 40 ms; a refresh that goes on across a display interrupt may
  draw into the buffer on screen and may bring back an older content (`NoTear`
  and `ScreenForward` need paced or calm). A job that is done before its handle
  is stored never asks for its flip (`quick`: `ComesOnScreen` excludes it), and
  a job that is refused leaves a buffer without an update that was shown
  before, and a copy that is cancelled counts as made (`fails`: `ScreenForward`
  excludes both).
- UVC: a stop does not wait for the send thread. When the two meet in one slot a
  node is put twice or lost (`Clash`); and when the stop finds the thread with a
  buffer in hand, what it queues then is of the old stream, or its slot has been
  given back (`late`). A disconnect stops nothing: the next start clears
  `ok_queue` before it stops the old encoder, so that frames of the old format
  go out and memory that is being sent is filled again (`cut`). After the last
  retry a buffer goes back empty with memory that is free (uvc-gadget.c:536):
  V4L2 sends all of it while the encoder fills it. An encoder that did not
  start, or whose thread ended, is never noticed. When a conversion fails the
  node goes out with what it had, also with content of an earlier stream's
  format (sample_yuv.c:445; `FormatFresh` excludes `fails`).

## 6. What is not modelled

- BE buffers: online and side-by-side running modes (no queue), the YUV
  variants of the same operations, contents of the buffers.
- Statistics: the split of one node into its blocks, the memory-less copies of
  `HI_MPI_ISP_Get*Statistics`.
- Life cycle: registration of 3A and sensor libraries, debug, proc, slave
  pipes of WDR modes.
- Stitching: the switches of image and WDR mode of a group; the number of free
  nodes of each pipe (`IsrTake` or `IsrPass` is open).
- Sensor synchronisation: frame and half-rate WDR (several virtual channels),
  exposure ratios and gains computed along the line, snap and pro modes, the
  three registers of the slave mode.
- Pro and snap modes: a history of configurations indexed by frame counts; the
  frame that is snapped is chosen by VI, in a binary.
- Virtual register table beyond one bank per pipe: its other users are 3A
  libraries of other processes, of which the repository has no example.
- HiFB: the other buffer modes (none, one, double-immediate), rotation,
  compression, the software cursor, attribute calls, the fence timeline around
  the same refresh; its hardware layer writes registers.
- UVC: the control requests and the configuration file; the audio gadget has
  the same queues.
- PWM, I2C, SPI and SSP drivers pass one transfer to the hardware under one
  lock.
- Everything that is data without control: register images, algorithms,
  parameter interface, sensor tables, samples; they are most of the
  repository's lines. Binaries are not modelled.

## 7. Plan

Done: the queues, the life cycle, the sensor configurations, the events, the
callbacks, the stitched group, P-iris, HiFB's refresh and the UVC frames.

Theorems are stated for every safety and action property of every module. What
could still be proved is `RingKept` where the ring is read in the second
interrupt, for the slots of the registers only.

Models next: the mode switches of a stitched group, since they reuse
`GetBeLastBuf` of `IspBeBuf` in step; the virtual register table with several
processes; the double-immediate mode of HiFB, which waits for each flip, as a
further environment of `HifbFlip`.
