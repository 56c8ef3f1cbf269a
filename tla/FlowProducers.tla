---------------------------- MODULE FlowProducers ----------------------------
(* The tools that feed a flow from a GStreamer pipeline: mxl-gst-testsrc (a     *)
(* test pattern, a tone or a looped file) and mxl-gst-looping-filesrc.  Each    *)
(* media type has its own thread; this module is one of them.  An iteration of  *)
(* its loop pulls a buffer, turns its timestamp into an index, compares that    *)
(* with the index it expects and writes the buffer, fills a gap or complains.   *)
(* Times are in ticks, IndexPeriod of them per index; GStreamer is external and *)
(* may drop buffers; the calls of the MXL library may fail.                     *)
EXTENDS Integers

CONSTANTS
    IndexPeriod, \* ticks from one index to the next
    Jitter,      \* external: how far a live timestamp is off, in ticks
    Batch,       \* samplesPerBatch, audioBatchSize
    Offset,      \* --video-offset, --audio-offset, in indices
    FileLen,     \* frames of the looped input file
    Slices,      \* frameHeight
    SliceBatch,  \* maxCommitBatchSizeHint of a video flow
    MaxBuffer,   \* bound: samples in a decoded buffer of the player
    MaxPos,      \* bound: stream position of the pipeline
    MaxDrops,    \* bound: buffers the pipeline loses
    MaxFaults    \* bound: failed calls

ASSUME ProducerAssumption ==
    /\ IndexPeriod \in Nat \ {0} /\ Jitter \in Nat /\ 2 * Jitter < IndexPeriod
    /\ Batch \in Nat \ {0} /\ Offset \in Nat
    /\ FileLen \in Nat /\ FileLen > 1     \* see LoopIsUnbroken
    /\ Slices \in Nat \ {0} /\ SliceBatch \in 1..Slices
    /\ MaxBuffer \in Nat \ {0}
    /\ MaxPos \in Nat /\ MaxDrops \in Nat /\ MaxFaults \in Nat

VARIABLES
    app,      \* which tool, medium and kind of source this thread serves
    status,   \* "setup", "ready", "running", "broken" (left by break), "failed" or "done"
    exit,     \* g_exit_requested; running of the player
    base,     \* _mxlBaseTime; gstBaseTime plus the application sink's offset
    wrap,     \* _ptsWrapOffset
    last,     \* _lastEmittedPts
    next,     \* grainIndex, sampleIndex
    first,    \* history: index of the first buffer
    pos,      \* external: where the pipeline is in its stream, in indices
    flow,     \* external: what was committed, by index, and whether it was counted
    drops,    \* external: buffers the pipeline has lost so far
    faults    \* failed calls so far

producerVars == <<app, status, exit, base, wrap, last, next, first, pos, flow, drops, faults>>

NoIndex == -1
StartIndex == Offset + 1

Apps == {[tool |-> "testsrc", media |-> "video", source |-> "live"],
         [tool |-> "testsrc", media |-> "video", source |-> "file"],
         [tool |-> "testsrc", media |-> "audio", source |-> "live"],
         [tool |-> "looping", media |-> "video", source |-> "file"],
         [tool |-> "looping", media |-> "audio", source |-> "file"]}

\* actualGrainIndex, actualSampleIndex; the player has no such option.
Actual(i) == IF app.tool = "testsrc" THEN i - Offset ELSE i

Unit == IF app.media = "audio" THEN Batch ELSE 1   \* what one iteration advances

timestampToIndex(ts) == (ts + IndexPeriod \div 2) \div IndexPeriod
indexToTimestamp(i) == i * IndexPeriod

ProducerInit ==
    /\ app \in Apps /\ status = "setup" /\ exit = FALSE
    /\ base = 0 /\ wrap = 0 /\ last = 0
    /\ next = NoIndex /\ first = NoIndex
    /\ pos = 0 /\ flow = <<>> /\ drops = 0 /\ faults = 0

(* --- Setting up ---------------------------------------------------------- *)

unchangedBySetup == <<app, exit, wrap, last, next, first, pos, flow, drops, faults>>

\* The results of the calls that set a thread up.
Calls == [instance : BOOLEAN, writer : BOOLEAN, parsed : BOOLEAN, appsink : BOOLEAN, clock : BOOLEAN]

\* MxlWriter's constructor throws unless both succeed; a flow that exists is reused.
writerOpens(c) == c.instance /\ c.writer

\* launchPipeline() throws unless all three succeed.
pipelineLaunches(c) == c.parsed /\ c.appsink /\ c.clock

setUp(tool, medium, accepted) ==
    /\ status = "setup" /\ app.tool = tool /\ app.media = medium
    /\ status' = IF accepted THEN "ready" ELSE "failed"
    /\ UNCHANGED <<base, unchangedBySetup>>

\* main(): an interlaced flow, or a batch larger than a frame, throws.
setUpVideo ==
    \E c \in Calls, progressive \in BOOLEAN, hint \in {SliceBatch, Slices + 1} :
        setUp("testsrc", "video",
              progressive /\ writerOpens(c) /\ hint <= Slices /\ pipelineLaunches(c))

setUpAudio == \E c \in Calls : setUp("testsrc", "audio", writerOpens(c) /\ pipelineLaunches(c))

\* The player's open(): the caps the decoder settled on; interlaced material is
\* taken for progressive.
openVideo ==
    \E c \in Calls, size \in 0..1, rate \in 0..1 :
        setUp("looping", "video",
              c.parsed /\ c.appsink /\ size > 0 /\ rate > 0 /\ writerOpens(c))

openAudio ==
    \E c \in Calls, channels \in 0..1, rate \in 0..1, depth \in 0..1 :
        setUp("looping", "audio",
              c.parsed /\ c.appsink /\ channels > 0 /\ rate > 0 /\ depth > 0 /\ writerOpens(c))

\* Mutant of startPipeline: the base time is taken in the middle of a grain.
startUnaligned ==
    /\ status = "ready" /\ app.tool = "testsrc"
    /\ status' = "running"
    /\ base' = indexToTimestamp(StartIndex) + IndexPeriod \div 2
    /\ UNCHANGED unchangedBySetup

\* run(): a flow of another medium throws; otherwise start() aligns the base
\* time of the pipeline with the next index.
startPipeline ==
    /\ status = "ready" /\ app.tool = "testsrc"
    /\ \E format \in {"video", "audio"} :
          status' = IF format = app.media THEN "running" ELSE "failed"
    /\ base' = indexToTimestamp(StartIndex)
    /\ UNCHANGED unchangedBySetup

\* The player's base time is that of its pipeline, see adjustPts.
startPlayer ==
    /\ status = "ready" /\ app.tool = "looping"
    /\ status' = "running"
    /\ UNCHANGED <<base, unchangedBySetup>>

(* --- The pipeline (GStreamer, external) ---------------------------------- *)

\* The timestamps a buffer may carry: exact from a file, that the test source
\* loops by seeking back to zero, off by less than half a period when live.
\* That those of a file are whole multiples of the period is an assumption: a
\* container may round them, by far less than half a period.
RawPts == IF app.source = "live"
          THEN {t \in pos * IndexPeriod - Jitter .. pos * IndexPeriod + Jitter : t >= 0}
          ELSE IF app.tool = "testsrc" THEN {(pos % FileLen) * IndexPeriod}
          ELSE {pos * IndexPeriod}

\* Decoded audio comes in buffers of any size; audioBatchSize is only the size
\* of the one that open() saw.
Sizes == IF app.tool = "looping" /\ app.media = "audio" THEN 1..MaxBuffer ELSE {Unit}

\* A live source stalls or a decoder loses a frame: the timestamps jump.  That
\* a looped file loses neither its first nor its last frame is assumed: pull()
\* bridges every loop with one frame, so that such a loss would shift the rest.
LoseBuffer ==
    /\ status = "running" /\ pos <= MaxPos - Unit
    /\ app.tool = "testsrc" /\ app.source = "file" => pos % FileLen \notin {0, FileLen - 1}
    /\ drops < MaxDrops /\ drops' = drops + 1
    /\ pos' = pos + Unit
    /\ UNCHANGED <<app, status, exit, base, wrap, last, next, first, flow, faults>>

(* --- One iteration of the loop ------------------------------------------- *)

\* Mutant of pullOffset: the loop is bridged without a frame's duration.
pullOffsetShort(pts) ==
    IF pts + wrap <= last /\ last # 0 THEN last - pts ELSE wrap

\* pull(): the offset that makes the timestamps of a looped file continuous.
pullOffset(pts) ==
    IF pts + wrap <= last /\ last # 0 THEN last - pts + IndexPeriod ELSE wrap

\* The timestamp of the buffer in MXL time, and what the tool remembers.
pull(pts) ==
    /\ wrap' = pullOffset(pts)
    /\ last' = pts + pullOffset(pts)
    /\ base' = base

\* The first buffer is put at the current time, wherever that is in a period.
adjustPts(pts) ==
    /\ IF first = NoIndex
       THEN \E phase \in 0..IndexPeriod - 1 : base' = indexToTimestamp(StartIndex) + phase - pts
       ELSE base' = base
    /\ UNCHANGED <<wrap, last>>

fault == faults < MaxFaults /\ faults' = faults + 1

\* Opening a grain or samples, or a commit of the whole, fails: the thread
\* leaves its loop for good.
leaveLoop(n) == fault /\ status' = "broken" /\ next' = n /\ UNCHANGED flow

\* The buffer cannot be mapped: nothing is written, the index moves on.
skipUnmapped(n) == fault /\ next' = n + Unit /\ UNCHANGED <<flow, status>>

\* The flow once more is committed: what was under the same index is lost.
overwrite(entries) ==
    [i \in DOMAIN entries \cup DOMAIN flow |->
        IF i \in DOMAIN entries THEN entries[i] ELSE flow[i]]

\* A buffer is committed with its own size, while the expected index moves on by
\* a unit: what is beyond that was committed and not counted.
committed(n, size, slices) ==
    overwrite([i \in Actual(n)..Actual(n + size) - 1 |->
                  [kind |-> "data", pos |-> pos + i - Actual(n), slices |-> slices,
                   counted |-> i < Actual(n + Unit)]])

\* Mutant of writeSlices: the index does not move on after a grain.
writeSlicesStays(n, size) ==
    /\ flow' = committed(n, 1, Slices)
    /\ next' = n
    /\ UNCHANGED <<status, faults>>

\* The test source commits a grain in batches of slices, the last one cut to
\* the slices that are left; a failed commit ends the batches only.
writeSlices(n, size) ==
    /\ \E batches \in 0..((Slices + SliceBatch - 1) \div SliceBatch) :
          LET valid == IF batches * SliceBatch > Slices THEN Slices ELSE batches * SliceBatch
          IN  /\ IF valid = Slices THEN faults' = faults ELSE fault
              /\ flow' = IF valid = 0 THEN flow ELSE committed(n, 1, valid)
    /\ next' = n + 1
    /\ UNCHANGED status

\* The player commits it at once.
writeGrain(n, size) ==
    flow' = committed(n, 1, Slices) /\ next' = n + 1 /\ UNCHANGED <<status, faults>>

writeSamples(n, size) ==
    flow' = committed(n, size, 0) /\ next' = n + Unit /\ UNCHANGED <<status, faults>>

\* The indices before the buffer's are committed as filler, up to a call that
\* fails; the buffer itself is dropped.
fill(n, upto, g, kind) ==
    /\ IF upto = g THEN faults' = faults ELSE fault
    /\ flow' = overwrite([i \in Actual(n)..Actual(upto) - 1 |->
                             [kind |-> kind, pos |-> NoIndex, slices |-> 0, counted |-> TRUE]])
    /\ next' = upto + Unit
    /\ UNCHANGED status

fillInvalid(n, g) == \E upto \in n..g : fill(n, upto, g, "invalid")

\* Silence is committed in batches, the last of which may be shorter.
fillSilence(n, g) ==
    \E upto \in n..g : (upto = g \/ (upto - n) % Batch = 0) /\ fill(n, upto, g, "silence")

\* "Time went backward??": the buffer is dropped and the index moves on.
timeWentBackward(n, g) == next' = n + Unit /\ UNCHANGED <<flow, status, faults>>

\* The player forgives audio that is less than a batch behind: it forgets the
\* expected index.
resetDrift(n, g) ==
    \/ n - g < Batch /\ next' = NoIndex /\ UNCHANGED <<flow, status, faults>>
    \/ n - g >= Batch /\ timeWentBackward(n, g)

\* The iteration the four loops share.  Stamp puts a timestamp into MXL time;
\* a buffer is behind, ahead of or at the expected index.  Nothing happens when
\* no buffer comes in time.
iterate(Stamp(_), Behind(_, _), Ahead(_, _), Write(_, _)) ==
    /\ status = "running" /\ ~exit /\ pos <= MaxPos
    /\ \E pts \in RawPts, size \in Sizes :
          /\ Stamp(pts)
          /\ LET g == timestampToIndex(base' + pts + wrap')
                 n == IF next = NoIndex THEN g ELSE next
             IN  /\ \/ g < n /\ Behind(n, g)
                    \/ g > n /\ Ahead(n, g)
                    \/ g = n /\ (Write(n, size) \/ leaveLoop(n) \/ skipUnmapped(n))
                 /\ first' = IF first = NoIndex THEN g ELSE first
          /\ pos' = pos + size
    /\ UNCHANGED <<app, exit, drops>>

runVideo ==
    /\ app.tool = "testsrc" /\ app.media = "video"
    /\ iterate(pull, timeWentBackward, fillInvalid, writeSlices)

runAudio ==
    /\ app.tool = "testsrc" /\ app.media = "audio"
    /\ iterate(pull, timeWentBackward, fillSilence, writeSamples)

videoThread ==
    /\ app.tool = "looping" /\ app.media = "video"
    /\ iterate(adjustPts, timeWentBackward, fillInvalid, writeGrain)

audioThread ==
    /\ app.tool = "looping" /\ app.media = "audio"
    /\ iterate(adjustPts, resetDrift, fillSilence, writeSamples)

signal_handler ==
    /\ status = "running" /\ ~exit /\ exit' = TRUE
    /\ UNCHANGED <<app, status, base, wrap, last, next, first, pos, flow, drops, faults>>

\* The thread is joined and its writer released.
finish ==
    /\ (status = "running" /\ exit) \/ status = "broken"
    /\ status' = "done"
    /\ UNCHANGED <<app, exit, base, wrap, last, next, first, pos, flow, drops, faults>>

ProducerNext ==
    \/ setUpVideo \/ setUpAudio \/ openVideo \/ openAudio \/ startPipeline \/ startPlayer
    \/ runVideo \/ runAudio \/ videoThread \/ audioThread
    \/ LoseBuffer \/ signal_handler \/ finish

ProducerSpec == ProducerInit /\ [][ProducerNext]_producerVars

(* --- Properties ---------------------------------------------------------- *)

\* What the pipeline produced at stream position p is committed under the index
\* p places after the first one and nowhere else, whatever was dropped, whatever
\* the jitter and however often the file was looped: the base time is aligned to
\* an index (startPipeline) and the offset of pull() bridges a loop exactly.
DataKeepsItsPlace ==
    \A i, j \in DOMAIN flow :
        flow[i].kind = "data" /\ flow[j].kind = "data" => i - flow[i].pos = j - flow[j].pos

\* While nothing is dropped and no call fails, every frame is committed, so
\* that a looped file plays without a hole and the expected index never runs
\* ahead of the pipeline.  A file of one frame is outside the assumption:
\* _lastEmittedPts stays 0, which pull() takes for "nothing emitted yet".
LoopIsUnbroken ==
    drops = 0 /\ faults = 0 /\ status = "running" /\ first # NoIndex
        /\ ~(app.tool = "looping" /\ app.media = "audio")
    => /\ next = first + pos
       /\ \A i \in Actual(first)..Actual(next) - 1 :
             i \in DOMAIN flow /\ flow[i].kind = "data"

(* What readers may have seen stays: no thread writes an index a second time,   *)
(* not even when the player resets the index it expects.  The exception is a    *)
(* decoded buffer longer than the first one: the player counts a batch of it    *)
(* only, takes the rest for skipped and overwrites that with silence            *)
(* (looping_filesrc.cpp:869-872 and :908).  Data never takes the place of data. *)
CommittedIsKept ==
    [][\A i \in DOMAIN flow :
           /\ i \in DOMAIN flow'
           /\ flow'[i] = flow[i] \/ (~flow[i].counted /\ flow'[i].kind # "data")]_producerVars

=============================================================================
