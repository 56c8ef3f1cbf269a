----------------------------- MODULE FlowPlayers -----------------------------
(* The programs that play a flow through GStreamer: mxl-gst-sink, which follows *)
(* a cursor paced by time, and the element mxlsrc, which computes an index for   *)
(* each buffer it is asked for.  Both block in a read of the MXL library with a  *)
(* timeout, meet writers that stall, flows that are deleted and created again,   *)
(* and reads that are too late, and then realign, reopen or initialise again.    *)
(* Time is counted in indices (grains or samples).  The writer, the library and  *)
(* GStreamer are external.                                                      *)
EXTENDS Integers

CONSTANTS
    Ring,        \* grainCount of a discrete flow
    Length,      \* bufferLength of a continuous flow
    Window,      \* windowSize of the cursor, for audio
    Batch,       \* batch of mxlsrc, for audio
    Delay,       \* readDelay of the cursor, in indices
    Timeout,     \* GET_GRAIN_TIMEOUT, GET_SAMPLE_TIMEOUT
    MinOffset,   \* MIN_PTS_OFFSET_NS
    StartTime, MaxTime,   \* bounds: first and last time
    LastFault,   \* bound: no deletion of the flow after this time
    MaxGen,      \* bound: generations of the flow
    MaxRaises    \* bound: offset adjustments by the other pipeline, and audio buffers
                 \* that GStreamer fails to make

ASSUME PlayerAssumption ==
    /\ {Ring, Length, Window, Batch} \subseteq Nat \ {0}
    \* the read delay, in whole windows, fits the part of the ring a reader is given
    /\ 6 * Batch <= Length    \* mxlsrc jumps two batches behind the head
    /\ Delay < Ring /\ Delay + 2 * Window - 1 <= Length \div 2
    /\ {Delay, Timeout, MinOffset, MaxTime, MaxGen, MaxRaises} \subseteq Nat
    \* time enough to play what a deleted flow holds
    /\ LastFault \in Nat /\ LastFault + Delay + 3 * Window <= MaxTime + 2
    /\ StartTime \in Nat /\ StartTime >= Ring + Delay + 2 * Window /\ MaxGen > 0

VARIABLES
    app,       \* which player, for which medium
    now,
    up, gen,   \* external: whether the flow exists, and its generation
    head,      \* external: head index of each generation
    reader,    \* generation the reader is open on, 0 without a reader
    status,    \* where the player's thread is
    began,     \* iterationStartTime; when the read was called (no value outside a call)
    req,       \* requestedIndex; next_frame_index; AudioState.index
    current,   \* cursor: currentIndex; mxlsrc: frame_counter, batch_counter
    initial,   \* mxlsrc: InitialTime, and whether it is set
    discont,   \* mxlsrc: next_discont
    offset,    \* mxl-gst-sink: _ptsOffset, shared by both pipelines
    seen,      \* the offset that pushBuffer has loaded
    raises,
    out        \* history: the last buffer, and whether it predates the last init()

vars == <<app, now, up, gen, head, reader, status, began, req, current, initial, discont,
          offset, seen, raises, out>>

Apps == [tool : {"sink"}, media : {"video", "audio"}]
        \cup [tool : {"src"}, media : {"video", "audio", "data"}]
IsSink == app.tool = "sink"
Grains == app.media # "audio"    \* a discrete flow
Size == IF Grains THEN 1 ELSE IF IsSink THEN Window ELSE Batch
Running == now - StartTime       \* running time of the pipeline

Init ==
    /\ app \in Apps /\ now = StartTime
    /\ up = TRUE /\ gen = 1
    /\ \E lag \in 0..1 : head = [g \in 1..MaxGen |-> IF g = 1 THEN StartTime - lag ELSE 0]
    /\ reader = 0 /\ status = "setup" /\ began = 0
    /\ req = 0 /\ current = 0 /\ initial = [set |-> FALSE, index |-> 0, time |-> 0]
    /\ discont = FALSE /\ offset = 0 /\ seen = 0 /\ raises = 0
    /\ out = [index |-> 0, pts |-> 0, discont |-> FALSE, fresh |-> FALSE]

flowVars == <<up, gen, head>>
srcVars == <<initial, discont>>
pushVars == <<offset, seen, raises>>

(* --- The flow and time (external) ---------------------------------------- *)

Tick == /\ now < MaxTime /\ now' = now + 1
        /\ UNCHANGED <<app, flowVars, reader, status, began, req, current, srcVars, pushVars, out>>

\* A writer commits up to the current index, at once or after a stall.
Commit ==
    /\ up
    /\ \E i \in head[gen] + 1..now : head' = [head EXCEPT ![gen] = i]
    /\ UNCHANGED <<app, now, up, gen, reader, status, began, req, current, srcVars, pushVars, out>>

DeleteFlow ==
    /\ up /\ now <= LastFault /\ up' = FALSE
    /\ UNCHANGED <<app, now, gen, head, reader, status, began, req, current, srcVars, pushVars, out>>

CreateFlow ==
    /\ ~up /\ gen < MaxGen /\ up' = TRUE /\ gen' = gen + 1
    /\ UNCHANGED <<app, now, head, reader, status, began, req, current, srcVars, pushVars, out>>

\* What a read of req answers (DiscreteFlow and ContinuousFlow have the detail):
\* too early only at its deadline, and then the flow may turn out to be stale.
readAnswers ==
    LET h == head[reader]
        ok == IF Grains THEN req > h - Ring
              ELSE LET oldest == IF h >= Length \div 2 THEN h - Length \div 2 ELSE 0
                   IN  req - oldest >= Size
        deadline == IF IsSink THEN current + Size ELSE began + Timeout
    IN  CASE reader = 0 -> {"ERROR"}
          [] reader # 0 /\ req <= h /\ ok -> {"OK"}
          [] reader # 0 /\ req <= h /\ ~ok -> {"LATE"}
          [] OTHER -> IF now < deadline /\ now < MaxTime THEN {}
                      ELSE IF up /\ reader = gen THEN {"EARLY"} ELSE {"INVALID"}

(* --- mxl-gst-sink: MxlReader, Cursor ------------------------------------- *)

delayGrains == ((Delay + Size - 1) \div Size) * Size

\* To the window of the time the iteration began at, which is before the read.
realign(t) ==
    /\ current' = ((t + Size \div 2) \div Size) * Size
    /\ req' = current' - delayGrains

\* The constructor; without a flow it throws and the thread ends.
openReader ==
    /\ status = "setup" /\ IsSink
    /\ \/ up /\ reader' = gen /\ realign(now) /\ status' = "idle"
       \/ ~up /\ status' = "exited" /\ UNCHANGED <<reader, current, req>>
    /\ UNCHANGED <<app, now, flowVars, began, srcVars, pushVars, out>>

beginIteration ==
    /\ status = "idle" /\ IsSink
    /\ status' = "call" /\ began' = now
    /\ UNCHANGED <<app, now, flowVars, reader, req, current, srcVars, pushVars, out>>

\* Mutant of handleInvalidFlow: the reader is kept and the cursor realigned.
handleInvalidFlowKeeps == reader' = reader /\ realign(began)

\* Release the reader and open the flow anew; realign only when that works.
handleInvalidFlow ==
    \/ up /\ reader' = gen /\ realign(began)
    \/ ~up /\ reader' = 0 /\ UNCHANGED <<current, req>>

\* What both run() functions do when they get no data.
retryRead(answer) ==
    \/ /\ answer = "LATE" /\ realign(began) /\ UNCHANGED reader
    \/ /\ answer = "EARLY" /\ UNCHANGED <<reader, current, req>>
    \/ /\ answer = "INVALID" /\ handleInvalidFlow
    \/ /\ answer = "ERROR"                \* no reader: try to open one
       /\ \/ up /\ reader' = gen /\ realign(began)
          \/ ~up /\ UNCHANGED <<reader, current, req>>

\* One read of run(VideoPipeline): a complete grain that is marked invalid is
\* skipped, a partial one read again, which changes nothing here.
runVideo ==
    /\ status = "call" /\ IsSink /\ app.media = "video"
    /\ \E answer \in readAnswers :
          \/ /\ answer = "OK"
             /\ \/ status' = "push" /\ seen' = offset
                \/ status' = "sleep" /\ seen' = seen
             /\ UNCHANGED <<reader, current, req>>
          \/ retryRead(answer) /\ status' = "idle" /\ UNCHANGED seen
    /\ began' = 0
    /\ UNCHANGED <<app, now, flowVars, srcVars, offset, raises, out>>

\* One read of run(AudioPipeline): a buffer that cannot be made or mapped is
\* given up, and the same window read again.
runAudio ==
    /\ status = "call" /\ IsSink /\ app.media = "audio"
    /\ \E answer \in readAnswers :
          \/ /\ answer = "OK"
             /\ \/ status' = "push" /\ seen' = offset /\ UNCHANGED raises
                \/ /\ raises < MaxRaises /\ raises' = raises + 1
                   /\ status' = "idle" /\ seen' = seen
             /\ UNCHANGED <<reader, current, req>>
          \/ retryRead(answer) /\ status' = "idle" /\ UNCHANGED <<seen, raises>>
    /\ began' = 0
    /\ UNCHANGED <<app, now, flowVars, srcVars, offset, out>>

\* Time of the buffer: of the grain, or of the first sample of the window.
bufferTime == IF Grains THEN req ELSE req - Size + 1

\* Mutant of adjustOffset: a store where the code compares and exchanges.
adjustOffsetStore(new) == offset' = new
adjustOffset(new) == offset' = IF offset = seen THEN new ELSE offset

\* pushBuffer after its load of _ptsOffset: the other pipeline may have raised
\* the offset meanwhile; then the exchange fails and the buffer keeps its pts.
\* A buffer from before the start of the pipeline that no offset makes up for yet
\* has a negative pts, which wraps in the code and is then not taken for late.
pushBuffer ==
    LET pts == bufferTime - StartTime + seen
        new == Running + MinOffset + StartTime - bufferTime
        late == 0 <= pts /\ pts < Running + MinOffset
    IN  /\ status = "push"
        /\ IF late THEN adjustOffset(new) ELSE UNCHANGED offset
        /\ out' = [index |-> req, discont |-> FALSE, fresh |-> FALSE,
                   pts |-> IF late /\ offset = seen THEN bufferTime - StartTime + new ELSE pts]
        /\ status' = "sleep" /\ seen' = 0
        /\ UNCHANGED <<app, now, flowVars, reader, began, req, current, srcVars, raises>>

OtherPipelineRaises ==
    /\ IsSink /\ raises < MaxRaises /\ raises' = raises + 1
    /\ \E by \in 1..2 : offset' = offset + by
    /\ UNCHANGED <<app, now, flowVars, reader, status, began, req, current, srcVars, seen, out>>

\* Mutant of next: the cursor moves on without waiting for the deadline.
nextAtOnce ==
    /\ status = "sleep"
    /\ current' = current + Size /\ req' = req + Size /\ status' = "idle"
    /\ UNCHANGED <<app, now, flowVars, reader, began, srcVars, pushVars, out>>

\* Cursor::next sleeps until the deadline.
next ==
    /\ status = "sleep" /\ now >= current + Size
    /\ current' = current + Size /\ req' = req + Size /\ status' = "idle"
    /\ UNCHANGED <<app, now, flowVars, reader, began, srcVars, pushVars, out>>

(* --- mxlsrc -------------------------------------------------------------- *)

\* Polls until the flow exists.
init_mxl_reader == up /\ reader' = gen

\* init(): the whole state is replaced.  The two readers that audio opens are one
\* here, and it succeeds: create() ignores that a later one failed and goes on
\* with the old state.
init ==
    /\ init_mxl_reader
    /\ current' = 0 /\ initial' = [set |-> FALSE, index |-> 0, time |-> 0]
    /\ req' = 0 /\ discont' = FALSE
    /\ out' = [out EXCEPT !.fresh = TRUE]

\* The first attachment, on the streaming thread; a later one is of create().
negotiate ==
    /\ status = "setup" /\ ~IsSink /\ reader = 0
    /\ init /\ status' = "idle"
    /\ UNCHANGED <<app, now, flowVars, began, pushVars>>

reattach ==
    /\ status = "setup" /\ ~IsSink /\ reader # 0
    /\ init /\ status' = "idle"
    /\ UNCHANGED <<app, now, flowVars, began, pushVars>>

\* Mutant of shifted: the shift replaces the initial time.
shiftedReplaced(ini, counter, ts_gst) ==
    LET pts == counter * Size + ini.time
    IN  IF pts < ts_gst THEN [ini EXCEPT !.time = ts_gst - pts] ELSE ini

\* A pts that has passed moves the initial time by what it is behind.
shifted(ini, counter, ts_gst) ==
    LET pts == counter * Size + ini.time
    IN  IF pts < ts_gst THEN [ini EXCEPT !.time = @ + ts_gst - pts] ELSE ini

\* create_video and create_data up to the read: never an index in the past.
requestGrain ==
    /\ status = "idle" /\ ~IsSink
    /\ LET ini == IF initial.set THEN initial ELSE [set |-> TRUE, index |-> now, time |-> Running]
           idx == ini.index + current
       IN  /\ req' = IF idx < now THEN now ELSE idx
           /\ initial' = shifted(ini, current, Running)
    /\ began' = now /\ status' = "call"
    /\ UNCHANGED <<app, now, flowVars, reader, current, discont, pushVars, out>>

create_video == app.media = "video" /\ requestGrain
create_data == app.media = "data" /\ requestGrain

\* Mutant of catch_up: the jump is not marked.
catch_upSilently(h, i) ==
    [index |-> IF i < h - (Length - Size) THEN h - 2 * Size ELSE i, jumped |-> FALSE]

\* A reader behind the oldest sample, by the head read at first, jumps forward.
catch_up(h, i) ==
    IF i < h - (Length - Size)
    THEN [index |-> IF h >= 2 * Size THEN h - 2 * Size ELSE 0, jumped |-> TRUE]
    ELSE [index |-> i, jumped |-> FALSE]

\* create_audio up to the read; the wait of 100 ms for the producer passes in
\* it.  A jump restarts the clock and marks the next buffer.
create_audio ==
    /\ status = "idle" /\ ~IsSink /\ ~Grains
    /\ LET h == head[reader]
           first == [set |-> TRUE, index |-> 0, time |-> Running]
           i == IF initial.set THEN req ELSE IF h >= Size THEN h - Size ELSE 0
           c == catch_up(h, i)
       IN  /\ req' = c.index
           /\ initial' = IF c.jumped \/ ~initial.set THEN first ELSE initial
           /\ current' = IF c.jumped \/ ~initial.set THEN 0 ELSE current
           /\ discont' = (discont \/ c.jumped)
    /\ began' = now /\ status' = "call"
    /\ UNCHANGED <<app, now, flowVars, reader, pushVars, out>>

\* The outcome of the read: a buffer, an error for an invalid grain, or no data,
\* after which create() starts over with a new reader unless the element pauses.
createdBuffer ==
    LET ini == IF ~Grains THEN shifted(initial, current, began - StartTime) ELSE initial
    IN  /\ out' = [index |-> req, pts |-> current * Size + ini.time, discont |-> discont,
                   fresh |-> FALSE]
        /\ initial' = ini /\ discont' = FALSE /\ current' = current + 1
        /\ req' = IF ~Grains THEN req + Size ELSE req
        /\ status' = "idle"

create ==
    /\ status = "call" /\ ~IsSink
    /\ \E answer \in readAnswers :
          \/ answer = "OK" /\ createdBuffer
          \/ /\ answer = "OK" /\ Grains /\ status' = "exited"
             /\ UNCHANGED <<out, initial, discont, current, req>>
          \/ /\ answer # "OK" /\ status' \in {"setup", "exited"}
             /\ UNCHANGED <<out, initial, discont, current, req>>
    /\ began' = 0
    /\ UNCHANGED <<app, now, flowVars, reader, pushVars>>

Player == \/ openReader \/ beginIteration \/ runVideo \/ runAudio \/ pushBuffer \/ next
          \/ negotiate \/ reattach \/ create_video \/ create_data \/ create_audio \/ create

Next == Player \/ Tick \/ Commit \/ DeleteFlow \/ CreateFlow \/ OtherPipelineRaises

\* Time passes and the player's thread runs; nothing is assumed of the writer.
Spec == Init /\ [][Next]_vars /\ WF_vars(Player) /\ WF_vars(Tick)

(* --- Properties ---------------------------------------------------------- *)

(* mxl-gst-sink pushes every window once and in order, through realignments and *)
(* reopened flows: the cursor waits for its deadline before it moves, so that   *)
(* realigning to a time read before the call never falls behind what was        *)
(* pushed.                                                                      *)
PushedIndexGrows == [][IsSink /\ out # out' => out'.index > out.index]_vars

(* Between two initialisations mxlsrc delivers indices that never run backwards, *)
(* however late it is asked, and times that do so only where DISCONT announces   *)
(* a jump (a writer that moves on from far in the past makes the reader late     *)
(* before the clock is).                                                         *)
CreatedInOrder ==
    [][~IsSink /\ out' # out /\ ~out.fresh /\ ~out'.fresh =>
           out'.index >= out.index /\ (out'.pts >= out.pts \/ out'.discont)]_vars

(* The offset that both pipelines share only grows, although either adjusts it  *)
(* from a value it has loaded before.                                           *)
OffsetOnlyGrows == [][offset' >= offset]_vars

(* Audio that mxlsrc skips within an attachment is announced: a buffer that     *)
(* does not follow the one before carries DISCONT.                              *)
SkippedAudioIsMarked ==
    [][~IsSink /\ ~Grains /\ out' # out /\ ~out.fresh /\ ~out'.fresh
           => out'.index = out.index + Size \/ out'.discont]_vars

(* A player whose flow was deleted and created again comes back to the new one: *)
(* the read that finds the old one stale leads to a reader on the new one.      *)
PlayerReconnects ==
    (up /\ reader # gen) ~> (reader = gen \/ ~up \/ status = "exited")
=============================================================================
