------------------------------ MODULE FlowApi -------------------------------
(***************************************************************************)
(* The C API of the library as its clients see it: an instance reads its   *)
(* history duration from the options of the domain, a flow definition and  *)
(* its options are parsed and turned into the geometry of a ring, handles  *)
(* are counted, and every call answers with a status.                      *)
(*                                                                         *)
(* One flow identifier; the steps inside creation, attachment and removal  *)
(* are the subject of FlowLifecycle, those inside reads and writes of      *)
(* DiscreteFlow and ContinuousFlow.  Here a call is one step, and clients  *)
(* of several processes take turns.  A client never uses a handle that it  *)
(* has released: where it has none it passes a null pointer.               *)
(***************************************************************************)
EXTENDS Integers, Sequences

CONSTANTS
  Instances,       \* instances, each in a process of its own
  Requests,        \* pairs of a flow definition and flow options that clients pass
  DomainOptions,   \* contents the options.json of the domain may have
  DefaultHistory,  \* _historyDuration without options, in ticks
  Second,          \* ticks per second: 1'000'000'000 in the code
  PageSize,        \* 4096 in the code
  GrainSize,       \* MXL_DATA_FORMAT_GRAIN_SIZE
  Undefined,       \* MXL_UNDEFINED_INDEX, beyond every index and every time
  MaxGen,          \* bound: number of generations of the flow
  MaxRefs,         \* bound: references to a reader or a writer
  MaxIndex         \* bound: indices that are written and read

None == 0
Absent == -1

\* What the parser tells apart in a definition.  A missing or mistyped number
\* is 0, a missing channel_count Absent; a hint is its parts between colons.
DefinitionRecords ==
  [json : BOOLEAN, id : BOOLEAN, format : STRING, rated : BOOLEAN, num : Nat, den : Nat,
   label : BOOLEAN, hints : Seq(Seq(STRING)), width : Nat, height : Nat, mode : STRING,
   media : STRING, depth : Nat, channels : Nat \cup {Absent}]

OptionRecords == [json : BOOLEAN, commit : Nat \cup {Absent}, sync : Nat \cup {Absent}]

ASSUME ApiAssumption ==
  /\ Requests \subseteq DefinitionRecords \X OptionRecords
  /\ DomainOptions \subseteq [json : BOOLEAN, history : Nat \cup {Absent}]
  /\ DefaultHistory \in Nat
  /\ Second \in Nat \ {0} /\ Second % 2 = 0
  /\ PageSize \in Nat /\ PageSize >= 8
  /\ GrainSize \in Nat /\ Undefined \in Nat
  /\ MaxGen \in Nat /\ MaxRefs \in Nat \ {0} /\ MaxIndex \in Nat

VARIABLES
  history,   \* instance -> _historyDuration, Absent when there is no instance
  path,      \* generation that the name of the flow refers to, or None
  created,   \* number of generations
  config,    \* generation -> mxlFlowConfigInfo and sizes of the files
  head,      \* generation -> headIndex
  complete,  \* generation -> ring entries whose slices are all valid
  writers, readers,  \* instance -> its entry in _writers, in _readers
  ret        \* what the last call answered

flowVars == <<path, created, config, head, complete>>
vars == <<history, flowVars, writers, readers, ret>>

Gens == 1 .. MaxGen

Detached == [gen |-> None, refs |-> 0, word |-> 0, current |-> Absent]

(* --- Index and time ------------------------------------------------------ *)

isRate(rate) == rate.num # 0 /\ rate.den # 0

\* Faulty variant: the index whose period has begun.
timestampToIndexBegun(rate, ts) ==
  IF isRate(rate) THEN (ts * rate.num) \div (Second * rate.den) ELSE Undefined

\* The index nearest to a time.
timestampToIndex(rate, ts) ==
  IF isRate(rate)
  THEN (ts * rate.num + (Second \div 2) * rate.den) \div (Second * rate.den)
  ELSE Undefined

\* The time of an index, rounded to the nearest tick.
indexToTimestamp(rate, index) ==
  IF isRate(rate) THEN (index * rate.den * Second + rate.num \div 2) \div rate.num ELSE 0

\* Time 0 is the time of index 0 only.
mxlIndexToTimestamp(rate, index) ==
  LET ts == indexToTimestamp(rate, index)
  IN  IF ts # 0 \/ index = 0 THEN ts ELSE Undefined

\* A clock that cannot be read says 0.
mxlGetCurrentIndex(rate, now) ==
  IF isRate(rate) /\ now # 0 THEN timestampToIndex(rate, now) ELSE Undefined

mxlGetNsUntilIndex(rate, index, now) ==
  LET target == mxlIndexToTimestamp(rate, index)
  IN  IF ~isRate(rate) THEN Undefined
      ELSE IF now # 0 /\ target >= now THEN target - now ELSE 0

(* --- FlowParser ---------------------------------------------------------- *)

CommonDivisors(a, b) == {k \in 1 .. b : a % k = 0 /\ b % k = 0}

gcd(a, b) ==
  IF b = 0 THEN a
  ELSE IF a = 0 THEN b
  ELSE CHOOSE g \in CommonDivisors(a, b) : \A k \in CommonDivisors(a, b) : k <= g

extractRational(d) ==
  LET g == gcd(d.num, d.den)
  IN  IF g = 0 THEN [num |-> d.num, den |-> d.den]
      ELSE [num |-> d.num \div g, den |-> d.den \div g]

sameRate(r, num, den) == r.num * den = r.den * num

\* "<group-name>:<role-in-group>[:<group-scope>]", at least one of them.
validateGroupHint(hints) ==
  /\ hints # <<>>
  /\ \A k \in DOMAIN hints :
       LET parts == hints[k]
       IN  /\ Len(parts) \in 2 .. 3
           /\ parts[1] # "" /\ parts[2] # ""
           /\ Len(parts) = 3 => parts[3] \in {"device", "node"}

isDiscrete(format) == format \in {"video", "data"}

interlaced(d) == d.format = "video" /\ d.mode \in {"interlaced_tff", "interlaced_bff"}

validVideo(d) ==
  /\ d.width \in 2 .. 7680 /\ d.height \in 1 .. 4320
  /\ d.mode \in {"absent", "progressive", "interlaced_tff", "interlaced_bff"}
  /\ interlaced(d) => \/ sameRate(extractRational(d), 30000, 1001)
                      \/ sameRate(extractRational(d), 25, 1)

\* The constructor does not throw.
parses(d) ==
  /\ d.json /\ d.id
  /\ d.format \in {"video", "audio", "data"}
  /\ d.rated /\ d.label
  /\ validateGroupHint(d.hints)
  /\ d.format = "video" => validVideo(d)

\* Interlaced video is handled as fields, at twice the rate.
grainRate(d) ==
  LET r == extractRational(d)
  IN  IF interlaced(d) THEN [r EXCEPT !.num = 2 * @] ELSE r

getV210LineLength(width) == ((width + 47) \div 48) * 128
get10BitAlphaLineLength(width) == ((width + 2) \div 3) * 4

\* getPayloadSize and getChannelCount do not throw.
payloadIsSupported(d) ==
  CASE d.format = "video" -> /\ d.media \in {"video/v210", "video/v210a"}
                             /\ interlaced(d) => d.height % 2 = 0
    [] d.format = "data" -> d.media = "video/smpte291"
    [] OTHER -> d.depth \in {32, 64} /\ d.channels # 0

\* Faulty variant: a field has the lines of its frame.
frameLines(d) == d.height

lines(d) == IF interlaced(d) THEN d.height \div 2 ELSE d.height

getPayloadSize(d) ==
  CASE d.format = "video" ->
         (IF interlaced(d) THEN d.height \div 2 ELSE d.height)
           * (getV210LineLength(d.width)
                + (IF d.media = "video/v210a" THEN get10BitAlphaLineLength(d.width) ELSE 0))
    [] d.format = "data" -> GrainSize
    [] OTHER -> d.depth \div 8

\* The bytes of one slice in each plane; the last two are never used.
getPayloadSliceLengths(d) ==
  IF d.format = "data" THEN <<1, 0>>
  ELSE <<getV210LineLength(d.width),
         IF d.media = "video/v210a" THEN get10BitAlphaLineLength(d.width) ELSE 0>>

getTotalPayloadSlices(d) == IF d.format = "data" THEN GrainSize ELSE lines(d)

getChannelCount(d) == IF d.channels = Absent THEN 1 ELSE d.channels

(* --- FlowOptionsParser --------------------------------------------------- *)

NoOptions == [json |-> TRUE, commit |-> Absent, sync |-> Absent]

valueOr(hint, default) == IF hint = Absent THEN default ELSE hint

optionsParse(o) ==
  /\ o.json
  /\ o.commit # 0
  /\ o.sync # 0
  /\ o.sync # Absent => o.sync % valueOr(o.commit, 1) = 0

(* --- Instance and FlowManager: the geometry of a new flow ----------------- *)

\* history and defaults say what the flow was made from; the code keeps neither.

discreteConfig(d, o, duration) ==
  LET rate == grainRate(d)
      default == getTotalPayloadSlices(d)
  IN  [kind |-> "discrete", rate |-> rate,
       sync |-> valueOr(o.sync, default), commit |-> valueOr(o.commit, default),
       length |-> (duration * rate.num) \div (Second * rate.den),
       grainSize |-> getPayloadSize(d), slices |-> getTotalPayloadSlices(d),
       sliceSizes |-> getPayloadSliceLengths(d), channels |-> 0, bytes |-> 0,
       history |-> duration, defaults |-> o.commit = Absent]

bufferLength(rate, duration) == (duration * rate.num) \div ((Second \div 2) * rate.den)

roundUp(length, unit) == ((length + unit - 1) \div unit) * unit

continuousConfig(d, o, duration) ==
  LET rate == grainRate(d)
      word == getPayloadSize(d)
      length == roundUp(bufferLength(rate, duration), PageSize \div word)
      default == rate.num \div (100 * rate.den)
  IN  [kind |-> "continuous", rate |-> rate,
       sync |-> valueOr(o.sync, default), commit |-> valueOr(o.commit, default),
       length |-> length, grainSize |-> word, slices |-> 0, sliceSizes |-> <<0, 0>>,
       channels |-> getChannelCount(d), bytes |-> getChannelCount(d) * length * word,
       history |-> duration, defaults |-> o.commit = Absent]

configure(d, o, duration) ==
  IF isDiscrete(d.format) THEN discreteConfig(d, o, duration)
  ELSE continuousConfig(d, o, duration)

NoConfig ==
  [kind |-> "none", rate |-> [num |-> 1, den |-> 1], sync |-> 0, commit |-> 0,
   length |-> 0, grainSize |-> 0, slices |-> 0, sliceSizes |-> <<0, 0>>, channels |-> 0,
   bytes |-> 0, history |-> 0, defaults |-> TRUE]

\* Channel buffers of no samples are refused; a ring of no grains is not.
geometryIsValid(c) == c.kind = "continuous" => c.length > 0

\* openChannelBuffers: who attaches finds the word size from the mapped bytes.
mappedWordSize(c) ==
  IF c.kind = "discrete" THEN 0 ELSE c.bytes \div (c.channels * c.length)

Init ==
  /\ history = [i \in Instances |-> Absent]
  /\ path = None /\ created = 0
  /\ config = [g \in Gens |-> NoConfig]
  /\ head = [g \in Gens |-> 0]
  /\ complete = [g \in Gens |-> {}]
  /\ writers = [i \in Instances |-> Detached]
  /\ readers = [i \in Instances |-> Detached]
  /\ ret = "none"

(* --- Instances ----------------------------------------------------------- *)

Alive(i) == history[i] # Absent

\* Options that cannot be parsed are logged and ignored.
parseOptions(file) ==
  IF file.json /\ file.history # Absent THEN file.history ELSE DefaultHistory

\* Whatever the options.json of the domain holds at that time; instances keep it.
mxlCreateInstance(i) ==
  /\ ~Alive(i)
  /\ \E file \in DomainOptions : history' = [history EXCEPT ![i] = parseOptions(file)]
  /\ ret' = "OK"
  /\ UNCHANGED <<flowVars, writers, readers>>

\* makeExclusive: no other instance has a writer of the same generation.
makeExclusive(i) ==
  \A j \in Instances \ {i} : writers[j].refs = 0 \/ writers[j].gen # writers[i].gen

\* The handles of a process that ends, in whatever way, are gone.
Forget(i) ==
  /\ history' = [history EXCEPT ![i] = Absent]
  /\ writers' = [writers EXCEPT ![i] = Detached]
  /\ readers' = [readers EXCEPT ![i] = Detached]

\* The flows of leaked writers are cleaned up.
mxlDestroyInstance(i) ==
  /\ Alive(i)
  /\ path' = IF writers[i].refs > 0 /\ makeExclusive(i) THEN None ELSE path
  /\ Forget(i)
  /\ ret' = "OK"
  /\ UNCHANGED <<created, config, head, complete>>

\* The process dies, on its own or by a division by zero: see Divides.
Die(i) ==
  /\ Alive(i)
  /\ Forget(i)
  /\ ret' = "died"
  /\ UNCHANGED <<flowVars>>

\* Faulty variant: the lock of the flow is not asked for.
removeAll(i) == TRUE

\* Nobody holds the lock of a writer.
inactive(i) == \A j \in Instances : writers[j].refs = 0 \/ writers[j].gen # path

mxlGarbageCollectFlows(i) ==
  /\ path' = IF Alive(i) /\ inactive(i) THEN None ELSE path
  /\ ret' = IF Alive(i) THEN "OK" ELSE "INVALID_ARG"
  /\ UNCHANGED <<history, created, config, head, complete, writers, readers>>

Answer(status) == ret' = status /\ UNCHANGED <<history, flowVars, writers, readers>>

mxlIsFlowActive(i) ==
  Answer(CASE ~Alive(i) -> "INVALID_ARG"
           [] path = None -> "FLOW_NOT_FOUND"
           [] inactive(i) -> "inactive"
           [] OTHER -> "active")

\* The client's buffer holds the definition, or does not.
mxlGetFlowDef(i) ==
  \E fits \in BOOLEAN :
    Answer(CASE ~Alive(i) -> "INVALID_ARG"
             [] path = None -> "FLOW_NOT_FOUND"
             [] OTHER -> IF fits THEN "OK" ELSE "INVALID_ARG")

(* --- Writers and readers -------------------------------------------------- *)

NewHandle(g, c) == [gen |-> g, refs |-> 1, word |-> mappedWordSize(c), current |-> Absent]

\* The entry of the instance gets a reference, or becomes one for generation g.
Refer(handles, i, g, c) ==
  [handles EXCEPT ![i] =
     IF handles[i].refs > 0 THEN [handles[i] EXCEPT !.refs = handles[i].refs + 1]
     ELSE NewHandle(g, c)]

\* The rate is divided by before anything else is looked at.
Divides(i, d, o) == parses(d) /\ optionsParse(o) /\ grainRate(d).den = 0

\* The flow can be created under its temporary name.
isConfigured(d, o, duration) ==
  /\ parses(d) /\ optionsParse(o)
  /\ grainRate(d).den # 0
  /\ payloadIsSupported(d)
  /\ geometryIsValid(configure(d, o, duration))

\* It is published: the name was free.
publish(i, d, o) ==
  /\ path = None /\ created < MaxGen
  /\ created' = created + 1
  /\ path' = created + 1
  /\ config' = [config EXCEPT ![created + 1] = configure(d, o, history[i])]
  /\ writers' = Refer(writers, i, created + 1, configure(d, o, history[i]))
  /\ ret' = "created"
  /\ UNCHANGED <<history, head, complete, readers>>

\* Or opened, when it is of the same kind.
attach(i, d) ==
  /\ path # None
  /\ config[path].kind = IF isDiscrete(d.format) THEN "discrete" ELSE "continuous"
  /\ writers[i].refs < MaxRefs
  /\ writers' = Refer(writers, i, path, config[path])
  /\ ret' = "OK"
  /\ UNCHANGED <<history, flowVars, readers>>

otherKind(d) ==
  path # None /\ config[path].kind # (IF isDiscrete(d.format) THEN "discrete" ELSE "continuous")

mxlCreateFlowWriter(i, d, o) ==
  \/ ~Alive(i) /\ Answer("INVALID_ARG")
  \/ Alive(i) /\ Divides(i, d, o) /\ Die(i)
  \/ /\ Alive(i) /\ ~Divides(i, d, o)
     /\ ~isConfigured(d, o, history[i]) \/ otherKind(d)
     /\ Answer("UNKNOWN")
  \/ /\ Alive(i) /\ isConfigured(d, o, history[i])
     /\ publish(i, d, o) \/ attach(i, d)

\* The last reference of the instance: the last writer deletes the flow.
mxlReleaseFlowWriter(i) ==
  \/ writers[i].refs = 0 /\ Answer("INVALID_ARG")
  \/ /\ writers[i].refs > 1
     /\ writers' = [writers EXCEPT ![i].refs = @ - 1]
     /\ ret' = "OK"
     /\ UNCHANGED <<history, flowVars, readers>>
  \/ /\ writers[i].refs = 1
     /\ path' = IF makeExclusive(i) THEN None ELSE path
     /\ writers' = [writers EXCEPT ![i] = Detached]
     /\ ret' = "OK"
     /\ UNCHANGED <<history, created, config, head, complete, readers>>

\* A reader that the instance has is shared, whatever generation it is of.
mxlCreateFlowReader(i) ==
  \/ ~Alive(i) /\ Answer("INVALID_ARG")
  \/ Alive(i) /\ readers[i].refs = 0 /\ path = None /\ Answer("FLOW_NOT_FOUND")
  \/ /\ Alive(i) /\ readers[i].refs < MaxRefs /\ (readers[i].refs > 0 \/ path # None)
     /\ readers' = Refer(readers, i, path, config[path])
     /\ ret' = "OK"
     /\ UNCHANGED <<history, flowVars, writers>>

mxlReleaseFlowReader(i) ==
  \/ readers[i].refs = 0 /\ Answer("INVALID_ARG")
  \/ /\ readers[i].refs > 0
     /\ readers' = [readers EXCEPT ![i] =
                      IF readers[i].refs = 1 THEN Detached
                      ELSE [readers[i] EXCEPT !.refs = readers[i].refs - 1]]
     /\ ret' = "OK"
     /\ UNCHANGED <<history, flowVars, writers>>

(* --- Data ---------------------------------------------------------------- *)

\* dynamic_cast: the handle is of this kind of flow.
isA(h, kind) == h.refs > 0 /\ config[h.gen].kind = kind

\* mxlFlowReaderGetInfo, -GetConfigInfo and -GetRuntimeInfo.
mxlFlowReaderGetInfo(i) == Answer(IF readers[i].refs > 0 THEN "OK" ELSE "INVALID_FLOW_READER")

\* A ring of no grains is divided by.
mxlFlowWriterOpenGrain(i, index) ==
  \/ ~isA(writers[i], "discrete") /\ Answer("INVALID_FLOW_WRITER")
  \/ isA(writers[i], "discrete") /\ config[writers[i].gen].length = 0 /\ Die(i)
  \/ /\ isA(writers[i], "discrete") /\ config[writers[i].gen].length > 0
     /\ writers' = [writers EXCEPT ![i].current = index]
     /\ ret' = "OK"
     /\ UNCHANGED <<history, flowVars, readers>>

mxlFlowWriterGetGrainInfo(i) ==
  \/ ~isA(writers[i], "discrete") /\ Answer("INVALID_FLOW_WRITER")
  \/ isA(writers[i], "discrete") /\ config[writers[i].gen].length = 0 /\ Die(i)
  \/ isA(writers[i], "discrete") /\ config[writers[i].gen].length > 0 /\ Answer("OK")

\* What was opened is no longer.
cancel(i, kind) ==
  \/ ~isA(writers[i], kind) /\ Answer("INVALID_FLOW_WRITER")
  \/ /\ isA(writers[i], kind)
     /\ writers' = [writers EXCEPT ![i].current = Absent]
     /\ ret' = "OK"
     /\ UNCHANGED <<history, flowVars, readers>>

mxlFlowWriterCancelGrain(i) == cancel(i, "discrete")
mxlFlowWriterCancelSamples(i) == cancel(i, "continuous")

\* The client commits a whole grain, of the index it opened or of another.
mxlFlowWriterCommitGrain(i, index) ==
  LET g == writers[i].gen
  IN  \/ ~isA(writers[i], "discrete") /\ Answer("INVALID_FLOW_WRITER")
      \/ isA(writers[i], "discrete") /\ writers[i].current # index /\ Answer("INVALID_ARG")
      \/ /\ isA(writers[i], "discrete") /\ writers[i].current = index
         /\ head' = [head EXCEPT ![g] = index]
         /\ complete' = [complete EXCEPT ![g] = @ \cup {index % config[g].length}]
         /\ writers' = [writers EXCEPT ![i].current = Absent]
         /\ ret' = "OK"
         /\ UNCHANGED <<history, path, created, config, readers>>

oldest(g, window) == IF head[g] >= window THEN head[g] - window ELSE 0

\* A reader that is too early looks whether its flow is still the one of the name.
early(i) == IF readers[i].gen = path THEN "TOO_EARLY" ELSE "FLOW_INVALID"

\* The four calls that read a grain; those that wait have run out of time.
mxlFlowReaderGetGrain(i, index) ==
  LET g == readers[i].gen
      n == config[g].length
  IN  \/ ~isA(readers[i], "discrete") /\ Answer("INVALID_FLOW_READER")
      \/ /\ isA(readers[i], "discrete")
         /\ Answer(CASE index > head[g] -> early(i)
                     [] index < oldest(g, n - 1) -> "TOO_LATE"
                     [] index % n \in complete[g] -> "OK"
                     [] OTHER -> early(i))

mxlFlowReaderGetMaxReadLengthSamples(i) ==
  Answer(IF isA(readers[i], "continuous") THEN "OK" ELSE "INVALID_FLOW_READER")

mxlFlowWriterGetMaxWriteLengthSamples(i) ==
  Answer(IF isA(writers[i], "continuous") THEN "OK" ELSE "INVALID_FLOW_WRITER")

mxlFlowReaderGetSamples(i, index, count) ==
  LET g == readers[i].gen
      first == oldest(g, config[g].length \div 2)
  IN  \/ ~isA(readers[i], "continuous") /\ Answer("INVALID_FLOW_READER")
      \/ /\ isA(readers[i], "continuous")
         /\ Answer(CASE index > head[g] -> early(i)
                     [] index >= first /\ index - first >= count -> "OK"
                     [] OTHER -> "TOO_LATE")

\* The client asks for one sample, for as many as the hint says, or for too many.
mxlFlowWriterOpenSamples(i, index, count) ==
  \/ ~isA(writers[i], "continuous") /\ Answer("INVALID_FLOW_WRITER")
  \/ /\ isA(writers[i], "continuous") /\ count > config[writers[i].gen].length \div 2
     /\ Answer("INVALID_ARG")
  \/ /\ isA(writers[i], "continuous") /\ count <= config[writers[i].gen].length \div 2
     /\ writers' = [writers EXCEPT ![i].current = index]
     /\ ret' = "OK"
     /\ UNCHANGED <<history, flowVars, readers>>

\* A client commits only samples that it has opened.
mxlFlowWriterCommitSamples(i) ==
  \/ ~isA(writers[i], "continuous") /\ Answer("INVALID_FLOW_WRITER")
  \/ /\ isA(writers[i], "continuous") /\ writers[i].current # Absent
     /\ head' = [head EXCEPT ![writers[i].gen] = writers[i].current]
     /\ writers' = [writers EXCEPT ![i].current = Absent]
     /\ ret' = "OK"
     /\ UNCHANGED <<history, path, created, config, complete, readers>>

Indices == 0 .. MaxIndex

Counts(i) == IF isA(writers[i], "continuous")
             THEN LET c == config[writers[i].gen] IN {1, c.commit, c.length}
             ELSE {1}

FlowCalls(i) ==
  \/ \E r \in Requests : mxlCreateFlowWriter(i, r[1], r[2])
  \/ mxlReleaseFlowWriter(i)
  \/ mxlCreateFlowReader(i)
  \/ mxlReleaseFlowReader(i)
  \/ mxlIsFlowActive(i)
  \/ mxlGetFlowDef(i)
  \/ mxlFlowReaderGetInfo(i)

DataCalls(i) ==
  \/ \E index \in Indices :
       \/ mxlFlowWriterOpenGrain(i, index)
       \/ mxlFlowWriterCommitGrain(i, index)
       \/ mxlFlowReaderGetGrain(i, index)
       \/ \E count \in 0 .. MaxIndex : mxlFlowReaderGetSamples(i, index, count)
       \/ \E count \in Counts(i) : mxlFlowWriterOpenSamples(i, index, count)
  \/ mxlFlowWriterGetGrainInfo(i)
  \/ mxlFlowWriterCommitSamples(i)
  \/ mxlFlowReaderGetMaxReadLengthSamples(i)
  \/ mxlFlowWriterGetMaxWriteLengthSamples(i)
  \/ mxlFlowWriterCancelGrain(i)
  \/ mxlFlowWriterCancelSamples(i)

Next ==
  \E i \in Instances :
       \/ mxlCreateInstance(i)
       \/ mxlDestroyInstance(i)
       \/ mxlGarbageCollectFlows(i)
       \/ Die(i)
       \/ FlowCalls(i)
       \/ DataCalls(i)

Spec == Init /\ [][Next]_vars

-----------------------------------------------------------------------------
(* Properties *)

(* A writer's flow is there for as long as the writer is: whoever releases, *)
(* destroys, dies or collects, the name keeps referring to the generation   *)
(* that the writer was created for (releaseWriter, ~Instance,               *)
(* garbageCollect).  Calls take turns here; FlowLifecycle has those that    *)
(* overlap.                                                                 *)
WriterKeepsItsFlow ==
  \A i \in Instances : writers[i].refs > 0 => Alive(i) /\ writers[i].gen = path

(* The sizes that are computed from one definition in different places fit  *)
(* together: the slices of all planes make up the grain; half of the ring   *)
(* of a continuous flow holds the history, and with a history of at least   *)
(* 10ms what a writer commits at a time by default; everyone who attaches   *)
(* finds the word size that the flow was created with.                      *)
GeometryFits ==
  \A g \in 1 .. created :
    LET c == config[g]
    IN  /\ c.kind = "discrete" => c.grainSize = c.slices * (c.sliceSizes[1] + c.sliceSizes[2])
        /\ c.kind = "continuous" =>
             /\ (c.length + 1) * Second * c.rate.den > 2 * c.history * c.rate.num
             /\ c.defaults /\ 100 * c.history >= Second => c.commit <= c.length \div 2
             /\ \A i \in Instances :
                  /\ writers[i].refs > 0 /\ writers[i].gen = g => writers[i].word = c.grainSize
                  /\ readers[i].refs > 0 /\ readers[i].gen = g => readers[i].word = c.grainSize

(* At the rate of any flow whose period is longer than a tick, an index is  *)
(* the index of its own time, and a client that sleeps for as long as       *)
(* mxlGetNsUntilIndex says finds that index, or a later one, to be current. *)
IndexAndTimeAgree ==
  \A g \in 1 .. created :
    LET rate == config[g].rate
    IN  rate.num > 0 /\ rate.num < Second * rate.den =>
          \A index \in Indices :
            /\ timestampToIndex(rate, mxlIndexToTimestamp(rate, index)) = index
            /\ \A now \in 1 .. 4 * MaxIndex :
                 mxlGetCurrentIndex(rate, now + mxlGetNsUntilIndex(rate, index, now)) >= index
=============================================================================
