----------------------------- MODULE UvcFrames ------------------------------
(***************************************************************************)
(* The video frames of the UVC camera sample (sample/uvc_app).  Frame      *)
(* nodes go round: the encoder's thread takes one from free_queue, fills   *)
(* it and puts it into ok_queue; the send thread takes it from there and   *)
(* queues its memory to the gadget driver, and remembers it in             *)
(* __waited_node until the buffer comes back.  The event thread starts and *)
(* stops the stream and with it the encoder.  The two queues have a lock   *)
(* each; __waited_node has none, and where the two threads meet in one of  *)
(* its slots (Clash) a node may be put twice, or lost.  What the linked    *)
(* lists are from then on is not modelled.                                 *)
(***************************************************************************)
EXTENDS Integers, Sequences, FiniteSets

CONSTANTS
  Frame,       \* the nodes of the cache (uvc:cache_count)
  NoFrame,     \* no node
  Slots,       \* WAITED_NODE_SIZE, and the buffers asked of the driver
  Retries,     \* how often the filling is tried again (60)
  Environment  \* the uses considered, one per behaviour

Format == {"yuv", "mjpeg"}

ASSUME UvcAssumption ==
  /\ NoFrame \notin Frame /\ IsFiniteSet(Frame)
  /\ Slots \in Nat \ {0} /\ Retries \in Nat
  /\ Environment \subseteq
       [bulk : BOOLEAN,           \* the device works in bulk mode
        formats : SUBSET Format,  \* what the host asks for
        replug : BOOLEAN,         \* it may be unplugged while it streams
        fails : BOOLEAN]          \* the conversion of a frame may fail

Slot == 0..(Slots - 1)
Thread == {"sender", "event"}

VARIABLES
  env,
  freeQ, okQ,  \* free_queue and ok_queue
  waited,      \* __waited_node
  buf,         \* the driver's buffers: whether each is queued, the node whose
               \* memory it names, and whether there is, or was, a frame in it
               \* (bytesused # 0)
  vstream,     \* the driver streams: between STREAMON and STREAMOFF
  streaming,   \* dev->streaming
  held,        \* the node whose memory the buffer of the send thread names
  late,        \* history: that thread had a buffer in hand at the last stop
  fcc,         \* dev->fcc
  prop,        \* __encoder_property.format
  started,     \* __started of the encoder
  loop,        \* the encoder's thread: its kind, and whether it is to go on
  enc,         \* the node it fills
  fmt,         \* history: the format of what is in a node
  host,        \* the host has started the stream
  cut,         \* history: it did so without a stop of the stream before
  job,         \* what the event thread has still to do
  at, idx,     \* where a thread is in filling or clearing which slot
  node, tries  \* the node it has in hand, and its retries

queueVars == <<freeQ, okQ>>
devVars   == <<buf, vstream, streaming, held, late>>
encVars   == <<prop, started, loop, enc, fmt>>
hostVars  == <<fcc, host, cut>>
fillVars  == <<at, idx, node, tries>>
frameVars == <<env, queueVars, waited, devVars, encVars, hostVars, job, fillVars>>

Idle == [queued |-> FALSE, node |-> NoFrame, fresh |-> FALSE]

Phase == {"off", "stop", "join", "flagOff", "clear", "clearOk", "setProp",
          "startup", "reqbufs", "fill", "on", "flagOn"}

FrameTypeOK ==
  /\ env \in Environment
  /\ \A q \in {freeQ, okQ} : \A i \in 1..Len(q) : q[i] \in Frame
  /\ waited \in [Slot -> Frame \cup {NoFrame}]
  /\ buf \in [Slot -> [queued : BOOLEAN, node : Frame \cup {NoFrame}, fresh : BOOLEAN]]
  /\ {vstream, streaming, late, started, host, cut} \subseteq BOOLEAN
  /\ held \in Frame \cup {NoFrame}
  /\ {fcc, prop} \subseteq Format
  /\ loop \in [kind : Format \cup {"none"}, run : BOOLEAN]
  /\ enc \in Frame \cup {NoFrame}
  /\ fmt \in [Frame -> Format]
  /\ \A i \in 1..Len(job) : job[i] \in Phase
  /\ at \in [Thread -> {"none", "select", "get", "release", "zero", "store", "qbuf"}]
  /\ idx \in [Thread -> 0..Slots]
  /\ node \in [Thread -> Frame \cup {NoFrame}]
  /\ tries \in [Thread -> 0..Retries]

FrameInit ==
  /\ env \in Environment
  /\ freeQ = CHOOSE q \in [1..Cardinality(Frame) -> Frame] :
                \A i, j \in DOMAIN q : q[i] = q[j] => i = j
  /\ okQ = <<>>
  /\ waited = [i \in Slot |-> NoFrame]
  /\ buf = [i \in Slot |-> Idle]
  /\ vstream = FALSE /\ streaming = FALSE /\ held = NoFrame /\ late = FALSE
  /\ host = FALSE /\ cut = FALSE
  /\ fcc = "mjpeg" /\ prop = "mjpeg"
  /\ started = FALSE /\ loop = [kind |-> "none", run |-> FALSE]
  /\ enc = NoFrame
  /\ fmt = [f \in Frame |-> "mjpeg"]
  /\ job = <<>>
  /\ at = [t \in Thread |-> "none"] /\ idx = [t \in Thread |-> 0]
  /\ node = [t \in Thread |-> NoFrame] /\ tries = [t \in Thread |-> 0]

\* get_node_from_queue and put_node_to_queue, each under the queue's lock.
First(q) == IF q = <<>> THEN NoFrame ELSE Head(q)
Rest(q)  == IF q = <<>> THEN q ELSE Tail(q)

-----------------------------------------------------------------------------
(* The encoder's thread: __SAMPLE_COMM_VENC_SaveData, or sample_yuv_dump,  *)
(* which passes a node on with what was in it when the conversion fails.   *)

EncGet ==
  /\ loop.run /\ enc = NoFrame
  /\ freeQ # <<>>
  /\ enc' = Head(freeQ) /\ freeQ' = Tail(freeQ)
  /\ \/ fmt' = [fmt EXCEPT ![Head(freeQ)] = loop.kind]
     \/ env.fails /\ loop.kind = "yuv" /\ UNCHANGED fmt
  /\ UNCHANGED <<okQ, waited, devVars, prop, started, loop, hostVars, job, fillVars>>

EncPut ==
  /\ enc # NoFrame
  /\ okQ' = Append(okQ, enc) /\ enc' = NoFrame
  /\ UNCHANGED <<freeQ, waited, devVars, prop, started, loop, fmt, hostVars, job, fillVars>>

\* The thread ends by itself: no frame in 200 ms, or its channel fails.
EncEnd ==
  /\ loop.run /\ enc = NoFrame
  /\ loop' = [loop EXCEPT !.run = FALSE]
  /\ UNCHANGED <<queueVars, waited, devVars, prop, started, enc, fmt, hostVars, job,
                 fillVars>>

-----------------------------------------------------------------------------
(* uvc_video_fill_buffer_userptr, by the send thread for the buffer it has *)
(* dequeued, by the event thread for every buffer before the stream starts.*)

FillGet(t) ==
  /\ at[t] = "get"
  /\ node' = [node EXCEPT ![t] = First(okQ)]
  /\ okQ' = Rest(okQ)
  /\ at' = [at EXCEPT ![t] = "release"]
  /\ UNCHANGED <<freeQ, waited, devVars, encVars, hostVars, job, idx, tries>>

\* Mutant: a fill without a frame keeps the node of the one before.
FillReleaseKeep(t) ==
  /\ at[t] = "release"
  /\ IF waited[idx[t]] = NoFrame \/ node[t] = NoFrame
       THEN at' = [at EXCEPT ![t] = "store"] /\ UNCHANGED freeQ
       ELSE at' = [at EXCEPT ![t] = "zero"] /\ freeQ' = Append(freeQ, waited[idx[t]])
  /\ UNCHANGED <<okQ, waited, devVars, encVars, hostVars, job, idx, node, tries>>

\* The node the buffer was queued with before is free again.
FillRelease(t) ==
  /\ at[t] = "release"
  /\ IF waited[idx[t]] = NoFrame
       THEN at' = [at EXCEPT ![t] = "store"] /\ UNCHANGED freeQ
       ELSE at' = [at EXCEPT ![t] = "zero"] /\ freeQ' = Append(freeQ, waited[idx[t]])
  /\ UNCHANGED <<okQ, waited, devVars, encVars, hostVars, job, idx, node, tries>>

FillZero(t) ==
  /\ at[t] = "zero" /\ (t = "event" => Head(job) = "fill")
  /\ waited' = [waited EXCEPT ![idx[t]] = NoFrame]
  /\ at' = [at EXCEPT ![t] = "store"]
  /\ UNCHANGED <<queueVars, devVars, encVars, hostVars, job, idx, node, tries>>

\* Mutant: the retries have no limit.
FillStoreUnbounded(t) ==
  /\ at[t] = "store"
  /\ \/ /\ node[t] # NoFrame
        /\ waited' = [waited EXCEPT ![idx[t]] = node[t]]
        /\ at' = [at EXCEPT ![t] = "qbuf"]
        /\ UNCHANGED tries
     \/ /\ node[t] = NoFrame
        /\ tries' = [tries EXCEPT ![t] = @ + 1]
        /\ at' = [at EXCEPT ![t] = "get"]
        /\ UNCHANGED waited
  /\ UNCHANGED <<queueVars, devVars, encVars, hostVars, job, idx, node>>

\* Without a node: usleep and try again, and at last an empty buffer.
FillStore(t) ==
  /\ at[t] = "store"
  /\ \/ /\ node[t] # NoFrame
        /\ waited' = [waited EXCEPT ![idx[t]] = node[t]]
        /\ at' = [at EXCEPT ![t] = "qbuf"]
        /\ UNCHANGED tries
     \/ /\ node[t] = NoFrame /\ tries[t] < Retries
        /\ tries' = [tries EXCEPT ![t] = @ + 1]
        /\ at' = [at EXCEPT ![t] = "get"]
        /\ UNCHANGED waited
     \/ /\ node[t] = NoFrame /\ tries[t] = Retries
        /\ at' = [at EXCEPT ![t] = "qbuf"]
        /\ UNCHANGED <<waited, tries>>
  /\ UNCHANGED <<queueVars, devVars, encVars, hostVars, job, idx, node>>

\* VIDIOC_QBUF fails for a buffer that is queued, and for one that names no
\* memory.
Queued(t, mem) == ~buf[idx[t]].queued /\ mem # NoFrame

Queue(t, mem) ==
  buf' = IF Queued(t, mem)
           THEN [buf EXCEPT ![idx[t]] =
                   [queued |-> TRUE, node |-> mem, fresh |-> node[t] # NoFrame]]
           ELSE buf

-----------------------------------------------------------------------------
(* The send thread: run_uvc_data and uvc_video_process_userptr. *)

SenderSelect ==
  /\ at["sender"] = "none" /\ streaming
  /\ at' = [at EXCEPT !["sender"] = "select"]
  /\ UNCHANGED <<queueVars, waited, devVars, encVars, hostVars, job, idx, node, tries>>

\* The host has read a buffer and the thread takes it back, which the driver
\* allows only while it streams.
SenderDqbuf ==
  /\ at["sender"] = "select" /\ vstream
  /\ \E i \in Slot :
       /\ buf[i].queued
       /\ buf' = [buf EXCEPT ![i] = [Idle EXCEPT !.fresh = buf[i].fresh]]
       /\ held' = buf[i].node
       /\ idx' = [idx EXCEPT !["sender"] = i]
  /\ at' = [at EXCEPT !["sender"] = "get"]
  /\ UNCHANGED <<queueVars, waited, vstream, streaming, late, encVars, hostVars, job,
                 node, tries>>

\* The time of select is over, or VIDIOC_DQBUF fails.
SenderTimeout ==
  /\ at["sender"] = "select"
  /\ ~vstream \/ \A i \in Slot : ~buf[i].queued
  /\ at' = [at EXCEPT !["sender"] = "none"]
  /\ UNCHANGED <<queueVars, waited, devVars, encVars, hostVars, job, idx, node, tries>>

\* Without a frame the buffer goes back with the memory it came with, whose
\* node is free, and with bytesused 0: the driver sends all of it.
SenderQbuf ==
  /\ at["sender"] = "qbuf"
  /\ Queue("sender", IF node["sender"] # NoFrame THEN node["sender"] ELSE held)
  /\ held' = NoFrame
  /\ at' = [at EXCEPT !["sender"] = "none"]
  /\ idx' = [idx EXCEPT !["sender"] = 0]
  /\ node' = [node EXCEPT !["sender"] = NoFrame]
  /\ tries' = [tries EXCEPT !["sender"] = 0]
  /\ UNCHANGED <<queueVars, waited, vstream, streaming, late, encVars, hostVars, job>>

-----------------------------------------------------------------------------
(* The event thread: uvc_events_process. *)

\* disable_uvc_video
Disable == <<"off", "stop", "join", "flagOff", "clear">>

\* enable_uvc_video
Enable ==
  <<"clearOk", "clear">> \o Disable
    \o <<"setProp", "stop", "join", "startup", "reqbufs", "fill", "on", "flagOn">>

\* The data of a COMMIT request; in bulk mode the stream starts with it.
Commit ==
  /\ job = <<>> /\ (env.bulk \/ ~host)
  /\ \E f \in env.formats : fcc' = f
  /\ IF env.bulk THEN job' = Disable \o Enable /\ host' = TRUE
                 ELSE UNCHANGED <<job, host>>
  /\ UNCHANGED <<queueVars, waited, devVars, encVars, cut, fillVars>>

StreamOn ==
  /\ job = <<>> /\ ~env.bulk /\ ~host
  /\ host' = TRUE /\ job' = Enable
  /\ cut' = vstream
  /\ UNCHANGED <<queueVars, waited, devVars, encVars, fcc, fillVars>>

StreamOff ==
  /\ job = <<>> /\ ~env.bulk /\ host
  /\ host' = FALSE /\ job' = Disable
  /\ UNCHANGED <<queueVars, waited, devVars, encVars, fcc, cut, fillVars>>

\* The host is unplugged: UVC_EVENT_DISCONNECT stops nothing.
Disconnect ==
  /\ env.replug /\ job = <<>> /\ host
  /\ host' = FALSE
  /\ UNCHANGED <<queueVars, waited, devVars, encVars, fcc, cut, job, fillVars>>

Does(phase) == job # <<>> /\ Head(job) = phase
Done == job' = Tail(job)

\* VIDIOC_STREAMOFF gives every buffer back to the application.  The send
\* thread may be filling one, for up to 300 ms if there is no frame.
Off ==
  /\ Does("off") /\ Done
  /\ vstream' = FALSE
  /\ buf' = [i \in Slot |-> Idle]
  /\ late' = (at["sender"] \notin {"none", "select"})
  /\ UNCHANGED <<queueVars, waited, streaming, held, encVars, hostVars, fillVars>>

\* Mutant: the thread is stopped but not waited for.
StopNoJoin ==
  /\ Does("stop") /\ job' = Tail(Tail(job))
  /\ IF started /\ loop.kind = prop
       THEN loop' = [kind |-> "none", run |-> FALSE]
       ELSE UNCHANGED loop
  /\ started' = FALSE
  /\ UNCHANGED <<queueVars, waited, devVars, prop, enc, fmt, hostVars, fillVars>>

\* histream_shutdown stops the thread of the format that is set now.
Stop ==
  /\ Does("stop") /\ Done
  /\ IF started /\ loop.kind = prop THEN loop' = [loop EXCEPT !.run = FALSE]
                                    ELSE UNCHANGED loop
  /\ UNCHANGED <<queueVars, waited, devVars, prop, started, enc, fmt, hostVars, fillVars>>

Join ==
  /\ Does("join") /\ Done
  /\ IF started /\ loop.kind = prop
       THEN enc = NoFrame /\ loop' = [kind |-> "none", run |-> FALSE]
       ELSE UNCHANGED loop
  /\ started' = FALSE
  /\ UNCHANGED <<queueVars, waited, devVars, prop, enc, fmt, hostVars, fillVars>>

FlagOff ==
  /\ Does("flagOff") /\ Done
  /\ streaming' = FALSE
  /\ UNCHANGED <<queueVars, waited, buf, vstream, held, late, encVars, hostVars, fillVars>>

\* clear_ok_queue, a node at a time.
ClearOk ==
  /\ Does("clearOk")
  /\ \/ /\ node["event"] = NoFrame /\ okQ = <<>>
        /\ Done
        /\ UNCHANGED <<queueVars, node>>
     \/ /\ node["event"] = NoFrame /\ okQ # <<>>
        /\ node' = [node EXCEPT !["event"] = Head(okQ)] /\ okQ' = Tail(okQ)
        /\ UNCHANGED <<freeQ, job>>
     \/ /\ node["event"] # NoFrame
        /\ freeQ' = Append(freeQ, node["event"])
        /\ node' = [node EXCEPT !["event"] = NoFrame]
        /\ UNCHANGED <<okQ, job>>
  /\ UNCHANGED <<waited, devVars, encVars, hostVars, at, idx, tries>>

\* Mutant: the nodes of the slots are forgotten.
ClearPutForget ==
  /\ Does("clear") /\ at["event"] = "none" /\ idx["event"] < Slots
  /\ at' = [at EXCEPT !["event"] = "zero"]
  /\ UNCHANGED <<queueVars, waited, devVars, encVars, hostVars, job, idx, node, tries>>

\* clear_waited_node, slot by slot: the node is put, then the slot zeroed.
ClearPut ==
  /\ Does("clear") /\ at["event"] = "none" /\ idx["event"] < Slots
  /\ IF waited[idx["event"]] # NoFrame
       THEN /\ freeQ' = Append(freeQ, waited[idx["event"]])
            /\ at' = [at EXCEPT !["event"] = "zero"]
            /\ UNCHANGED idx
       ELSE /\ idx' = [idx EXCEPT !["event"] = @ + 1]
            /\ UNCHANGED <<freeQ, at>>
  /\ UNCHANGED <<okQ, waited, devVars, encVars, hostVars, job, node, tries>>

ClearZero ==
  /\ Does("clear") /\ at["event"] = "zero"
  /\ waited' = [waited EXCEPT ![idx["event"]] = NoFrame]
  /\ at' = [at EXCEPT !["event"] = "none"]
  /\ idx' = [idx EXCEPT !["event"] = @ + 1]
  /\ UNCHANGED <<queueVars, devVars, encVars, hostVars, job, node, tries>>

\* The loop over the slots is at its end, in clearing and in filling.
LoopEnd ==
  /\ Does("clear") \/ Does("fill")
  /\ at["event"] = "none" /\ idx["event"] = Slots
  /\ idx' = [idx EXCEPT !["event"] = 0]
  /\ Done
  /\ UNCHANGED <<queueVars, waited, devVars, encVars, hostVars, at, node, tries>>

SetProp ==
  /\ Does("setProp") /\ Done
  /\ prop' = fcc
  /\ UNCHANGED <<queueVars, waited, devVars, started, loop, enc, fmt, hostVars, fillVars>>

\* histream_startup may fail, at the sensor, the VI, the VPSS or the encoder,
\* before there is a thread; nobody looks at what it returns.
Startup ==
  /\ Does("startup") /\ Done
  /\ started' = TRUE
  /\ \/ loop' = [kind |-> prop, run |-> TRUE]
     \/ UNCHANGED loop
  /\ UNCHANGED <<queueVars, waited, devVars, prop, enc, fmt, hostVars, fillVars>>

\* VIDIOC_REQBUFS
Reqbufs ==
  /\ Does("reqbufs") /\ Done
  /\ buf' = [i \in Slot |-> Idle]
  /\ UNCHANGED <<queueVars, waited, vstream, streaming, held, late, encVars, hostVars,
                 fillVars>>

\* uvc_video_stream_userptr
FillBegin ==
  /\ Does("fill") /\ at["event"] = "none" /\ idx["event"] < Slots
  /\ at' = [at EXCEPT !["event"] = "get"]
  /\ UNCHANGED <<queueVars, waited, devVars, encVars, hostVars, job, idx, node, tries>>

\* The first buffer that is refused ends the loop.
EventQbuf ==
  /\ at["event"] = "qbuf"
  /\ Queue("event", node["event"])
  /\ at' = [at EXCEPT !["event"] = "none"]
  /\ idx' = [idx EXCEPT !["event"] =
               IF Queued("event", node["event"]) THEN @ + 1 ELSE Slots]
  /\ node' = [node EXCEPT !["event"] = NoFrame]
  /\ tries' = [tries EXCEPT !["event"] = 0]
  /\ UNCHANGED <<queueVars, waited, vstream, streaming, held, late, encVars, hostVars, job>>

On ==
  /\ Does("on") /\ Done
  /\ vstream' = TRUE
  /\ UNCHANGED <<queueVars, waited, buf, streaming, held, late, encVars, hostVars, fillVars>>

FlagOn ==
  /\ Does("flagOn") /\ Done
  /\ streaming' = TRUE
  /\ UNCHANGED <<queueVars, waited, buf, vstream, held, late, encVars, hostVars, fillVars>>

-----------------------------------------------------------------------------
Fill(t) == FillGet(t) \/ FillRelease(t) \/ FillZero(t) \/ FillStore(t)

Encoder == EncGet \/ EncPut \/ EncEnd
Sender  == SenderSelect \/ SenderTimeout \/ Fill("sender") \/ SenderQbuf
Event   ==
  \/ Off \/ Stop \/ Join \/ FlagOff \/ ClearOk \/ ClearPut \/ ClearZero \/ LoopEnd
  \/ SetProp \/ Startup \/ Reqbufs \/ FillBegin \/ Fill("event") \/ EventQbuf
  \/ On \/ FlagOn
Host    == Commit \/ StreamOn \/ StreamOff \/ Disconnect

\* The two threads are in the same slot of __waited_node, each between its
\* test of the slot and its store: one puts the node the other has put, or
\* overwrites the one the other has stored.
Clash ==
  /\ at["sender"] \in {"zero", "store"} /\ at["event"] \in {"zero", "store"}
  /\ idx["sender"] = idx["event"]

Step == Encoder \/ Sender \/ SenderDqbuf \/ Event \/ Host

Runs(A) == A /\ ~Clash /\ UNCHANGED env

FrameNext ==
  \/ Runs(Step)
  \/ Clash /\ UNCHANGED frameVars

FrameSpec == FrameInit /\ [][FrameNext]_frameVars

\* Every thread that can run does, and a host that is there reads what is
\* queued.  It need not send another request, and the encoder need not end.
FrameFairSpec ==
  /\ FrameSpec
  /\ WF_frameVars(Runs(EncGet \/ EncPut))
  /\ WF_frameVars(Runs(Sender))
  /\ WF_frameVars(Runs(Event))
  /\ WF_frameVars(Runs(host /\ SenderDqbuf))

-----------------------------------------------------------------------------
\* Where a node is: in a queue, with the encoder, in the hand of a thread
\* that took it from a queue, or in a slot.  A slot that is about to be
\* zeroed and a node that is stored already count once.
InHand(t)  == IF at[t] = "qbuf" THEN NoFrame ELSE node[t]
Zeroing(i) == \E t \in Thread : at[t] = "zero" /\ idx[t] = i

Places(f) ==
  Cardinality({i \in 1..Len(freeQ) : freeQ[i] = f})
    + Cardinality({i \in 1..Len(okQ) : okQ[i] = f})
    + Cardinality({i \in Slot : waited[i] = f /\ ~Zeroing(i)})
    + Cardinality({t \in Thread : InHand(t) = f})
    + (IF enc = f THEN 1 ELSE 0)

\* No node is lost and none is put back twice, over any number of starts,
\* stops and reconnects, and although a stop does not wait for the send
\* thread, until the two threads are in one slot at once: that, and nothing
\* else, is what the missing lock of __waited_node can do to the cache.
NodesKept == ~Clash => \A f \in Frame : Places(f) = 1

\* What is being sent with a frame in it.
Sending(i) == vstream /\ buf[i].queued /\ buf[i].fresh

\* The memory the driver sends a frame from is not filled again before the
\* buffer comes back: its node waits in its slot.
SentIsStable ==
  \A i \in Slot : Sending(i) => waited[i] = buf[i].node /\ buf[i].node # enc

\* The host gets no frame of the format of an earlier stream: the encoder is
\* stopped, the right thread of the two, before its format changes, and what
\* it left in the queue is cleared before the next stream.
FormatFresh ==
  ~env.fails => \A i \in Slot : Sending(i) => fmt[buf[i].node] = prop

\* What the driver sends as a frame is a finished frame of the stream's
\* format, in every stream that began after the one before it was stopped
\* (not cut) and the send thread had queued its last buffer (not late).
SentIsRight == ~late /\ ~cut => SentIsStable /\ FormatFresh

\* The event thread could queue no buffer when the stream began.
NoBuffer ==
  at["sender"] \in {"none", "select"} /\ \A i \in Slot : ~buf[i].queued

\* While the stream is on, the encoder has a thread and the driver a buffer,
\* frames keep reaching the host, also when there are no more nodes than
\* buffers and a fill finds no frame in all its tries.
FramesFlow ==
  []<>(\/ ~streaming \/ ~host \/ ~loop.run \/ NoBuffer \/ cut \/ Clash
       \/ \E i \in Slot : ~buf[i].queued /\ buf[i].fresh)

\* Every request of the host is handled to its end: the encoder is joined,
\* whether or not it was started and has ended, the queue is cleared and the
\* retries end.
EventEnds == (job # <<>>) ~> (job = <<>> \/ cut \/ Clash)

\* The host is served: frames come and requests end.
HostServed == FramesFlow /\ EventEnds
=============================================================================
