------------------------------ MODULE GstMxlSink ------------------------------
(* The GStreamer element mxlsink: the streaming thread renders buffers, places  *)
(* each at an index and sends it over a bounded channel to an engine thread,    *)
(* which owns the flow writer and commits it when its time has come.  Stopping  *)
(* the element leaves the engine to end by itself, while the element may be     *)
(* started again.  The three media have a copy of the code each, over what they *)
(* share here.  Time is in ticks.  GStreamer and the MXL library (whose flow    *)
(* life cycle FlowLifecycle models) are external.                               *)
EXTENDS Integers, Sequences, FiniteSets

CONSTANTS
    GrainPeriod, SamplePeriod,   \* ticks from one index to the next
    Cushion,    \* LATENCY_CUSHION
    BufLen,     \* samples of an audio buffer
    MaxChunk,   \* bufferLength / 2: the largest piece of an audio buffer
    Depth,      \* MAX_CHANNEL_SIZE
    Skew,       \* external: the MXL clock minus the pipeline's clock
    MaxBufs,    \* bound: buffers per run
    MaxRuns,    \* bound: starts of the element
    MaxTime     \* bound: ticks

ASSUME SinkAssumption ==
    /\ {GrainPeriod, SamplePeriod, BufLen, MaxChunk, Depth} \subseteq Nat \ {0}
    /\ {Cushion, Skew, MaxBufs, MaxRuns, MaxTime} \subseteq Nat

VARIABLES
    media,     \* of the caps: "video", "audio" or "data"
    now,       \* mxlGetTime
    element,   \* control state of the element, as GstBaseSink drives it
    run,       \* starts so far; each has an instance and at most one engine
    initial,   \* InitialTime.mxl_pts_offset, or Undefined
    latency,   \* in indices
    count,     \* external: buffers this run has got
    piece,     \* render: what is left of the buffer and the command to send
    engine,    \* per run: thread state, channel, sleep_flag, whether tx lives
    exists,    \* external: the flow's directory
    holders,   \* external: runs whose writer holds the shared lock
    head,      \* external: index last committed to the flow
    top        \* history: the highest index committed to it

vars == <<media, now, element, run, initial, latency, count, piece, engine, exists, holders, head, top>>

Undefined == -1
Runs == 1..MaxRuns
NoPiece == [pts |-> 0, left |-> 0, cmd |-> Undefined]
NoEngine == [st |-> "none", q |-> <<>>, flag |-> FALSE, tx |-> FALSE, cmd |-> Undefined]

Period == IF media = "audio" THEN SamplePeriod ELSE GrainPeriod
index_to_timestamp(i) == i * Period
timestamp_to_index(ts) == (ts + Period \div 2) \div Period

Init ==
    /\ media \in {"video", "audio", "data"}
    /\ now = 0 /\ element = "null" /\ run = 0
    /\ initial = Undefined /\ latency = 0 /\ count = 0 /\ piece = NoPiece
    /\ engine = [r \in Runs |-> NoEngine]
    /\ exists = FALSE /\ holders = {} /\ head = Undefined /\ top = Undefined

flowVars == <<exists, holders, head, top>>
stateVars == <<initial, latency, count, piece>>

(* --- The flow as the library keeps it (external) ------------------------- *)

\* create_flow_writer: whether the flow was created; an existing one is opened.
OpenFlow(h) ==
    /\ exists' = TRUE /\ holders' = holders \cup {h}
    /\ head' = IF exists THEN head ELSE Undefined
    /\ top' = IF exists THEN top ELSE Undefined

\* release_flow_writer: the last one to hold the lock removes the flow.
CloseFlow(h) ==
    /\ holders' = holders \ {h}
    /\ exists' = (exists /\ holders # {h})
    /\ UNCHANGED <<head, top>>

(* --- start, set_caps, stop ----------------------------------------------- *)

\* A new instance, which collects flows that nobody holds; no media state yet.
start ==
    /\ element = "null" /\ run < MaxRuns
    /\ run' = run + 1 /\ element' = "ready"
    /\ exists' = (exists /\ holders # {})
    /\ initial' = Undefined /\ latency' = 0 /\ count' = 0
    /\ UNCHANGED <<media, now, piece, engine, holders, head, top>>

\* Mutant of init_state: a flow that exists is shared.
init_state_shared ==
    /\ OpenFlow(run)
    /\ engine' = [engine EXCEPT ![run] = [NoEngine EXCEPT !.st = "recv", !.tx = TRUE]]
    /\ element' = "playing"

\* The flow must be new: a writer of the run and an engine thread with an empty
\* channel.  Otherwise the writer is dropped again (rejectWriter) and the caps
\* are refused.
init_state ==
    \/ /\ ~exists
       /\ OpenFlow(run)
       /\ engine' = [engine EXCEPT ![run] = [NoEngine EXCEPT !.st = "recv", !.tx = TRUE]]
       /\ element' = "playing"
    \/ /\ exists
       /\ OpenFlow(0)
       /\ element' = "refused" /\ UNCHANGED engine

init_state_with_video == media = "video" /\ init_state
init_state_with_audio == media = "audio" /\ init_state
init_state_with_data == media = "data" /\ init_state

\* Caps of the settled medium, or caps that are none of the three.
set_caps ==
    /\ element = "ready"
    /\ \/ init_state_with_video \/ init_state_with_audio \/ init_state_with_data
       \/ element' = "failed" /\ UNCHANGED <<engine, flowVars>>
    /\ UNCHANGED <<media, now, run, stateVars>>

rejectWriter ==
    /\ element = "refused"
    /\ CloseFlow(0) /\ element' = "failed"
    /\ UNCHANGED <<media, now, run, stateVars, engine>>

\* GStreamer changes the state: unlock() only sets a flag no one reads, so a
\* render() that is under way goes on and stop() waits for it.
unlock ==
    /\ element \in {"ready", "playing", "failed"}
    /\ element' = "stopping"
    /\ UNCHANGED <<media, now, run, stateVars, engine, flowVars>>

\* Mutant of stopEngine: the sender is kept with the element.
stopEngineKeepsSender(e) == [e EXCEPT !.flag = TRUE]

\* The sleep_flag is set and notified, the sender dropped; nobody joins.
stopEngine(e) == IF e.tx THEN [e EXCEPT !.flag = TRUE, !.tx = FALSE] ELSE e

stop ==
    /\ element = "stopping" /\ piece = NoPiece
    /\ engine' = [engine EXCEPT ![run] = stopEngine(@)]
    /\ element' = "null"
    /\ UNCHANGED <<media, now, run, stateVars, flowVars>>

(* --- render -------------------------------------------------------------- *)

\* The offset of the clocks is read once, with a moment between the readings.
mapClock == IF initial = Undefined THEN initial' \in {Skew, Skew + 1} ELSE UNCHANGED initial

\* ns_to_grains, ns_to_samples round down, grains_to_ns is exact here.
lateBy(pts) == (now - pts) \div Period

\* Mutants of newLatency: the delay replaces the latency; it is not made up for.
newLatencyReplaces(pts) == IF pts + latency * Period < now THEN lateBy(pts + latency * Period) ELSE latency
newLatencyKept(pts) == latency

\* A piece that would be late adds its delay, in whole indices, to the latency
\* of all that follow; it alone gets the cushion on top.
newLatency(pts) ==
    IF pts + latency * Period < now THEN latency + lateBy(pts + latency * Period) ELSE latency
placed(pts) ==
    LET late == pts + latency * Period < now
    IN  pts + newLatency(pts) * Period + (IF late THEN Cushion ELSE 0)

\* render() with the context locked: the next buffer of the stream.
render ==
    /\ element = "playing" /\ piece = NoPiece /\ count < MaxBufs
    /\ count' = count + 1
    /\ mapClock
    /\ UNCHANGED <<media, now, element, run, engine, flowVars>>

place(pts, left) ==
    /\ latency' = newLatency(pts)
    /\ piece' = [pts |-> pts, left |-> left, cmd |-> timestamp_to_index(placed(pts))]

video == media = "video" /\ render /\ place(count * Period + initial', 1)
data == media = "data" /\ render /\ place(count * Period + initial', 1)

\* An audio buffer is cut into pieces; the time is read again for each.  That
\* buffers come with one length and without gaps between them is an assumption
\* about the elements upstream, which could drop some or let their pts jitter.
audio ==
    /\ media = "audio" /\ render
    /\ piece' = [pts |-> count * BufLen * Period + initial', left |-> BufLen, cmd |-> Undefined]
    /\ UNCHANGED latency

audioPiece ==
    /\ piece.left > 0 /\ piece.cmd = Undefined
    /\ place(piece.pts, piece.left)
    /\ UNCHANGED <<media, now, element, run, initial, count, engine, flowVars>>

\* What is left of an audio buffer after a piece.
compute_chunk ==
    LET len == IF piece.left < MaxChunk THEN piece.left ELSE MaxChunk
    IN  IF piece.left = len THEN NoPiece
        ELSE [pts |-> piece.pts + len * Period, left |-> piece.left - len, cmd |-> Undefined]

\* send() blocks while the channel is full, with the context locked.
send(rest) ==
    /\ piece.cmd # Undefined /\ Len(engine[run].q) < Depth
    /\ engine' = [engine EXCEPT ![run].q = Append(@, piece.cmd)]
    /\ piece' = rest
    /\ UNCHANGED <<media, now, element, run, initial, latency, count, flowVars>>

\* The buffer cannot be mapped or converted: an error ends the stream.
renderFails ==
    /\ piece.cmd # Undefined
    /\ piece' = NoPiece
    /\ element' = IF element = "playing" THEN "failed" ELSE element
    /\ UNCHANGED <<media, now, run, initial, latency, count, engine, flowVars>>

commit_video == media = "video" /\ (send(NoPiece) \/ renderFails)
commit_data == media = "data" /\ (send(NoPiece) \/ renderFails)
sendPiece == media = "audio" /\ send(compute_chunk)

(* --- The engine: await_buffer and write_buffer --------------------------- *)

recv(r) ==
    /\ engine[r].st = "recv" /\ engine[r].q # <<>>
    /\ engine' = [engine EXCEPT ![r].st = "write", ![r].cmd = Head(engine[r].q), ![r].q = Tail(@)]
    /\ UNCHANGED <<media, now, element, run, stateVars, flowVars>>

written(r) == [engine EXCEPT ![r].st = "recv", ![r].cmd = Undefined]

\* The command is committed, or an error of the library ends it: only traced.
commit(r) ==
    /\ engine' = written(r) /\ head' = engine[r].cmd
    /\ top' = IF top < engine[r].cmd THEN engine[r].cmd ELSE top
giveUp(r) == engine' = written(r) /\ UNCHANGED <<head, top>>

\* The time of the index is compared with a clock reading, then the flag is
\* looked at under its mutex: sleep, give the command up, or commit.
sleepOrCommit(r) ==
    LET early == index_to_timestamp(engine[r].cmd) > now
    IN  \/ /\ early /\ ~engine[r].flag
           /\ engine' = [engine EXCEPT ![r].st = "wait"] /\ UNCHANGED <<head, top>>
        \/ early /\ engine[r].flag /\ giveUp(r)
        \/ ~early /\ (commit(r) \/ giveUp(r))

write_buffer(r) ==
    /\ engine[r].st = "write"
    /\ UNCHANGED <<media, now, element, run, stateVars, exists, holders>>

\* A grain is opened, and filled, before the wait.
write_video(r) == media = "video" /\ write_buffer(r) /\ (giveUp(r) \/ sleepOrCommit(r))
write_data(r) == media = "data" /\ write_buffer(r) /\ (giveUp(r) \/ sleepOrCommit(r))
\* Samples are opened after it.
write_audio(r) == media = "audio" /\ write_buffer(r) /\ sleepOrCommit(r)

\* Mutant of wake: a wait without a timeout.
wakeNotified(r) ==
    /\ engine[r].st = "wait" /\ engine[r].flag
    /\ engine' = written(r)
    /\ UNCHANGED <<media, now, element, run, stateVars, flowVars>>

\* wait_timeout ends once, by notification, timeout or without a reason: there
\* is no loop around it, so the commit may be early.
wake(r) ==
    /\ engine[r].st = "wait"
    /\ giveUp(r) \/ (~engine[r].flag /\ commit(r))
    /\ UNCHANGED <<media, now, element, run, stateVars, exists, holders>>

\* The channel is empty and its sender gone: the writer is destroyed.
destroy(r) ==
    /\ engine[r].st = "recv" /\ engine[r].q = <<>> /\ ~engine[r].tx
    /\ engine' = [engine EXCEPT ![r].st = "done"]
    /\ CloseFlow(r)
    /\ UNCHANGED <<media, now, element, run, stateVars>>

Tick ==
    /\ now < MaxTime /\ now' = now + 1
    /\ UNCHANGED <<media, element, run, stateVars, engine, flowVars>>

await_video_buffer(r) == media = "video" /\ (recv(r) \/ destroy(r))
await_audio_buffer(r) == media = "audio" /\ (recv(r) \/ destroy(r))
await_data_buffer(r) == media = "data" /\ (recv(r) \/ destroy(r))

Sending == audioPiece \/ sendPiece \/ commit_video \/ commit_data
Engine(r) == \/ await_video_buffer(r) \/ await_audio_buffer(r) \/ await_data_buffer(r)
             \/ write_video(r) \/ write_audio(r) \/ write_data(r) \/ wake(r)

Next == \/ start \/ set_caps \/ rejectWriter \/ unlock \/ stop
        \/ video \/ audio \/ data \/ Sending
        \/ \E r \in Runs : Engine(r)
        \/ Tick

\* Threads run, a wait with a timeout ends, and a state change goes on once
\* GStreamer has begun it.
Spec ==
    /\ Init /\ [][Next]_vars
    /\ WF_vars(Sending) /\ WF_vars(stop) /\ WF_vars(rejectWriter)
    /\ \A r \in Runs : WF_vars(Engine(r))

(* --- Properties ---------------------------------------------------------- *)

\* The shortest piece: a grain, or what the division of a buffer leaves.
Shortest ==
    IF media # "audio" THEN 1 ELSE IF BufLen % MaxChunk = 0 THEN MaxChunk ELSE BufLen % MaxChunk

\* Indices by which the cushion of a late piece may reach into the next one.
Overlap ==
    IF Cushion <= Shortest * Period THEN 0
    ELSE (Cushion - Shortest * Period + Period - 1) \div Period

(* The head of the flow falls behind the highest index committed by no more     *)
(* than the cushion of a late piece exceeds the piece (render_audio.rs:105: what *)
(* follows gets none), and never if all pieces are as long as the cushion:      *)
(* however late buffers come, however the latency grows, also within an audio   *)
(* buffer that is sent in pieces, retreats do not add up.                       *)
HeadRetreatIsBounded == exists => top <= head + Overlap

(* Lateness does not accumulate: what render() sends is placed at most one      *)
(* index behind the time it was placed at, whatever happened before.            *)
PlacedNearNow ==
    [][piece.cmd = Undefined /\ piece'.cmd # Undefined =>
           index_to_timestamp(piece'.cmd) > now - Period - Period \div 2]_vars

(* No two engines write to the flow: an engine of an earlier run that still     *)
(* drains its channel keeps a restarted element from opening it.                *)
OneWriterPerFlow ==
    \A r, s \in Runs : {r, s} \subseteq holders => r = s

(* GStreamer's state change does not hang: stop() is reached although unlock()  *)
(* cannot interrupt a render() that waits for room in the channel.              *)
StopReturns == element = "stopping" ~> element = "null"

(* A stopped element's flow disappears: the engine gives up what is not due,    *)
(* sees its sender gone and releases the writer, if no other run has opened     *)
(* the flow.                                                                    *)
StoppedFlowIsRemoved ==
    \A r \in Runs : engine[r].flag ~> r \notin holders
=============================================================================
