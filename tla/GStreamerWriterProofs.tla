------------------------ MODULE GStreamerWriterProofs ------------------------
(* Proofs about the programs that turn the buffers of a GStreamer pipeline into *)
(* the indices of a flow.                                                       *)
(* GstMxlSink, for every number of restarts, channel depth, period, buffer,     *)
(* cushion and clock: no two engines of mxlsink write to the flow, since        *)
(* create_flow_writer tells a new flow from one that exists, and a flow exists  *)
(* for as long as somebody holds its lock; the order of what is sent and its    *)
(* distance from the clock follow from how render() places a piece: only the    *)
(* cushion of a late piece, by what it exceeds the piece, moves the head back.  *)
(* FlowProducers, for every period, jitter, batch and file of two frames or     *)
(* more and decoded buffers of any size: whatever the pipeline loses, what it   *)
(* produced has its place in the flow, and only silence is ever written over    *)
(* an index, over the rest of a buffer longer than the first.                   *)
EXTENDS GstMxlSink, FlowProducers, TLAPS

\* A held flow exists; 0, the writer of refused caps, is no run.
HeldFlowExists == holders # {} => exists
WriterInv == HeldFlowExists /\ OneWriterPerFlow

\* Releasing a writer keeps the flow of the others.
LEMMA CloseKeepsTheFlow ==
    ASSUME NEW h, CloseFlow(h), WriterInv
    PROVE  WriterInv'
<1>1. HeldFlowExists'
    BY DEF CloseFlow, WriterInv, HeldFlowExists
<1>2. OneWriterPerFlow'
    BY DEF CloseFlow, WriterInv, OneWriterPerFlow
<1> QED BY <1>1, <1>2 DEF WriterInv

\* Caps are accepted only when nobody holds the flow; a refused writer is no run's.
LEMMA CapsKeepOneWriter ==
    ASSUME init_state, WriterInv
    PROVE  WriterInv'
<1>1. HeldFlowExists'
    BY DEF init_state, OpenFlow, HeldFlowExists
<1>2. CASE ~exists /\ OpenFlow(run)
    <2>1. holders' = {run}
        BY <1>2 DEF OpenFlow, WriterInv, HeldFlowExists
    <2> QED BY <1>1, <2>1 DEF WriterInv, OneWriterPerFlow
<1>3. CASE OpenFlow(0)
    <2>1. \A r \in Runs : r # 0
        BY SinkAssumption DEF Runs
    <2>2. \A r \in Runs : r \in holders' => r \in holders
        BY <1>3, <2>1 DEF OpenFlow
    <2> QED BY <1>1, <2>2 DEF WriterInv, OneWriterPerFlow
<1> QED BY <1>2, <1>3 DEF init_state

LEMMA StepKeepsOneWriter ==
    ASSUME WriterInv, [Next]_vars
    PROVE  WriterInv'
<1>1. ASSUME UNCHANGED <<exists, holders>> PROVE WriterInv'
    BY <1>1 DEF WriterInv, HeldFlowExists, OneWriterPerFlow
<1>2. CASE start
    BY <1>2 DEF start, WriterInv, HeldFlowExists, OneWriterPerFlow
<1>3. CASE set_caps
    BY <1>1, <1>3, CapsKeepOneWriter
    DEF set_caps, init_state_with_video, init_state_with_audio, init_state_with_data, flowVars
<1>4. CASE rejectWriter
    BY <1>4, CloseKeepsTheFlow DEF rejectWriter
<1>5. CASE unlock \/ stop \/ Tick
    BY <1>1, <1>5 DEF unlock, stop, Tick, flowVars
<1>6. CASE video \/ audio \/ data
    BY <1>1, <1>6 DEF video, audio, data, render, flowVars
<1>7. CASE Sending
    <2>1. CASE audioPiece BY <1>1, <2>1 DEF audioPiece, flowVars
    <2>2. CASE sendPiece BY <1>1, <2>2 DEF sendPiece, send, flowVars
    <2>3. CASE commit_video \/ commit_data
        BY <1>1, <2>3 DEF commit_video, commit_data, send, renderFails, flowVars
    <2> QED BY <1>7, <2>1, <2>2, <2>3 DEF Sending
<1>8. ASSUME NEW r \in Runs, Engine(r) PROVE WriterInv'
    <2>1. CASE recv(r) BY <1>1, <2>1 DEF recv, flowVars
    <2>2. CASE destroy(r) BY <2>2, CloseKeepsTheFlow DEF destroy
    <2>3. CASE write_buffer(r) BY <1>1, <2>3 DEF write_buffer
    <2>4. CASE wake(r) BY <1>1, <2>4 DEF wake
    <2> QED BY <1>8, <2>1, <2>2, <2>3, <2>4
        DEF Engine, await_video_buffer, await_audio_buffer, await_data_buffer,
            write_video, write_audio, write_data
<1>9. CASE UNCHANGED vars
    BY <1>1, <1>9 DEF vars
<1> QED BY <1>2, <1>3, <1>4, <1>5, <1>6, <1>7, <1>8, <1>9 DEF Next

\* Of all engines of an element that is stopped and started again and again, one
\* at most holds a writer of the flow (start, init_state_with_*, destroy).
THEOREM OneEngineWrites == Spec => []OneWriterPerFlow
<1>1. Init => WriterInv
    BY DEF Init, WriterInv, HeldFlowExists, OneWriterPerFlow
<1>2. WriterInv /\ [Next]_vars => WriterInv'
    BY StepKeepsOneWriter
<1>3. WriterInv => OneWriterPerFlow
    BY DEF WriterInv
<1> QED BY <1>1, <1>2, <1>3, PTL DEF Spec

(* --- Order of the indices and delay -------------------------------------- *)

(* What is sent is in order along the whole way of a command: committed to the  *)
(* flow, in the engine's hand, in the channel, in render()'s hand, and not yet  *)
(* placed.                                                                      *)

Active(r) == engine[r].st \in {"recv", "write", "wait"}
Streaming == element = "playing" \/ piece # NoPiece

Indices == Nat \cup {Undefined}
Engines == [st : {"none", "recv", "write", "wait", "done"}, q : Seq(Nat),
            flag : BOOLEAN, tx : BOOLEAN, cmd : Indices]
SinkTypes ==
    /\ media \in {"video", "audio", "data"}
    /\ now \in Nat /\ run \in Nat /\ count \in Nat /\ latency \in Nat
    /\ initial \in Indices /\ head \in Indices /\ top \in Indices
    /\ piece \in [pts : Nat, left : Nat, cmd : Indices]
    /\ engine \in [Runs -> Engines]

\* A stream has a living engine, which holds the flow; an engine has a command
\* unless it waits for one.
ThreadsInv ==
    /\ element # "null" => run \in Runs
    /\ piece # NoPiece => element \in {"playing", "stopping"}
    /\ Streaming => engine[run].tx /\ Active(run)
    /\ \A r \in Runs : /\ Active(r) => r \in holders
                       /\ engine[r].st = "recv" <=> Active(r) /\ engine[r].cmd = Undefined

\* What comes after i may be no more than the cushion before it.
Follows(i, j) == i <= j + Overlap

\* What an engine holds follows all that was committed, what is in its channel
\* follows both and is in order.
EngineOrder ==
    \A r \in Runs : Active(r) =>
        /\ engine[r].cmd # Undefined => Follows(top, engine[r].cmd)
        /\ \A i \in 1..Len(engine[r].q) : /\ Follows(top, engine[r].q[i])
                                          /\ Follows(engine[r].cmd, engine[r].q[i])
        /\ \A i, j \in 1..Len(engine[r].q) : i <= j => Follows(engine[r].q[i], engine[r].q[j])

\* The rest of a buffer ends where the next buffer begins, and it is cut into
\* pieces of MaxChunk and one of what the division leaves.
BufferLen == IF media = "audio" THEN BufLen ELSE 1
PieceInv ==
    /\ piece.left = 0 => piece = NoPiece
    /\ piece.left > 0 =>
        /\ piece.pts + piece.left * Period = (count * BufferLen) * Period + initial
        /\ media = "audio" => piece.left % MaxChunk = BufLen % MaxChunk
        /\ media # "audio" => piece.left = 1 /\ piece.cmd # Undefined

\* The time that is placed next, with the latency so far.
ChunkLen == IF media = "audio" /\ MaxChunk < piece.left THEN MaxChunk ELSE piece.left
nextTime == latency * Period +
    (IF piece.left = 0 THEN (count * BufferLen) * Period + initial
     ELSE IF piece.cmd = Undefined THEN piece.pts
     ELSE piece.pts + ChunkLen * Period)

SentUpTo(i) ==
    /\ Follows(top, i) /\ Follows(engine[run].cmd, i)
    /\ \A k \in 1..Len(engine[run].q) : Follows(engine[run].q[k], i)
StreamOrder ==
    Streaming =>
        /\ SentUpTo(timestamp_to_index(nextTime))
        /\ piece.cmd # Undefined => /\ SentUpTo(piece.cmd)
                                    /\ Follows(piece.cmd, timestamp_to_index(nextTime))

SinkInv ==
    /\ WriterInv /\ SinkTypes /\ ThreadsInv /\ EngineOrder /\ PieceInv /\ StreamOrder
    /\ Follows(top, head)

\* The quotient, rounded down.
LEMMA Quotient ==
    ASSUME NEW a \in Int, NEW b \in Nat, b > 0
    PROVE  a \div b \in Int /\ (a \div b) * b <= a /\ a < (a \div b) * b + b
BY SMT

\* Quotients keep an order.
LEMMA QuotientsAreMonotone ==
    ASSUME NEW a \in Int, NEW c \in Int, NEW b \in Nat, b > 0, a <= c
    PROVE  a \div b <= c \div b
<1> DEFINE x == a \div b
           y == c \div b
<1>1. x \in Int /\ y \in Int /\ x * b <= a /\ c < y * b + b
    BY Quotient
<1>2. SUFFICES ASSUME y + 1 <= x PROVE FALSE
    BY <1>1
<1> HIDE DEF x, y
<1>3. (y + 1) * b <= x * b
    BY <1>1, <1>2
<1>4. (y + 1) * b = y * b + b
    BY <1>1
<1> QED BY <1>1, <1>3, <1>4

\* Multiples keep an order.
LEMMA Ordered ==
    ASSUME NEW p \in Int, NEW q \in Int, NEW b \in Nat, p <= q
    PROVE  p * b \in Int /\ q * b \in Int /\ p * b <= q * b
    BY SMT

\* The next multiples.
LEMMA Next1 ==
    ASSUME NEW p \in Int, NEW b \in Nat
    PROVE  p * b \in Int /\ (p + 1) * b = p * b + b /\ (p - 1) * b = p * b - b
    BY SMT

\* A number whose multiples enclose a is its quotient.
LEMMA IntQuotientIs ==
    ASSUME NEW a \in Int, NEW b \in Nat, b > 0, NEW q \in Int,
           q * b <= a, a < q * b + b
    PROVE  a \div b = q
<1> DEFINE d == a \div b
<1>1. d \in Int /\ d * b <= a /\ a < d * b + b
    BY Quotient
<1>2. q * b \in Int /\ d * b \in Int
    BY <1>1, Next1
<1> HIDE DEF d
<1>3. ~(d + 1 <= q)
    <2>1. SUFFICES ASSUME d + 1 <= q PROVE FALSE
        OBVIOUS
    <2>2. (d + 1) * b <= q * b /\ (d + 1) * b = d * b + b
        BY <1>1, <2>1, Ordered, Next1
    <2> QED BY <1>1, <1>2, <2>2
<1>4. ~(q + 1 <= d)
    <2>1. SUFFICES ASSUME q + 1 <= d PROVE FALSE
        OBVIOUS
    <2>2. (q + 1) * b <= d * b /\ (q + 1) * b = q * b + b
        BY <1>1, <2>1, Ordered, Next1
    <2> QED BY <1>1, <1>2, <2>2
<1>5. d = q
    BY <1>1, <1>3, <1>4
<1> QED BY <1>5 DEF d

\* A remainder does not depend on whole divisors.
LEMMA RemainderOfLess ==
    ASSUME NEW a \in Nat, NEW b \in Nat, b > 0, b <= a
    PROVE  (a - b) % b = a % b
<1> DEFINE d == a \div b
           e == (a - b) \div b
<1>1. d \in Int /\ d * b <= a /\ a < d * b + b
    BY Quotient
<1>2. e \in Int /\ e * b <= a - b /\ a - b < e * b + b
    BY Quotient
<1>3. a % b = a - d * b /\ (a - b) % b = (a - b) - e * b
    BY SMT
<1> HIDE DEF d, e
<1>4. (e + 1) * b = e * b + b /\ (e + 2) * b = e * b + b + b /\ e * b \in Int /\ d * b \in Int
    BY <1>1, <1>2
<1>5. ~(e + 2 <= d)
    <2>1. SUFFICES ASSUME e + 2 <= d PROVE FALSE
        OBVIOUS
    <2>2. (e + 2) * b <= d * b
        BY <1>1, <1>2, <2>1
    <2> QED BY <1>1, <1>2, <1>4, <2>2
<1>6. ~(d <= e)
    <2>1. SUFFICES ASSUME d <= e PROVE FALSE
        OBVIOUS
    <2>2. d * b <= e * b
        BY <1>1, <1>2, <2>1
    <2> QED BY <1>1, <1>2, <1>4, <2>2
<1>7. d = e + 1
    BY <1>1, <1>2, <1>5, <1>6
<1>8. d * b = e * b + b
    BY <1>4, <1>7
<1> QED BY <1>3, <1>4, <1>8

LEMMA SmallRemainder ==
    ASSUME NEW a \in Nat, NEW b \in Nat, a < b
    PROVE  a % b = a
BY SMT

LEMMA PeriodIsPositive == Period \in Nat /\ Period > 0
BY SinkAssumption DEF Period

LEMMA BufferIsNotEmpty == BufferLen \in Nat /\ BufferLen > 0
BY SinkAssumption DEF BufferLen

\* Later times get larger indices.
LEMMA IndicesAreMonotone ==
    ASSUME NEW a \in Int, NEW c \in Int, a <= c
    PROVE  /\ timestamp_to_index(a) \in Int
           /\ timestamp_to_index(a) <= timestamp_to_index(c)
           /\ a >= 0 => timestamp_to_index(a) \in Nat
           /\ a >= -1 => timestamp_to_index(a) >= -1
<1> DEFINE P == Period
           h == P \div 2
<1>1. P \in Nat /\ P > 0 /\ h \in Nat
    BY PeriodIsPositive
<1>2. \A x \in Int : timestamp_to_index(x) = (x + h) \div P
    BY DEF timestamp_to_index
<1> HIDE DEF P, h
<1>3. (a + h) \div P \in Int /\ (a + h) \div P <= (c + h) \div P
    BY <1>1, Quotient, QuotientsAreMonotone
<1>4. a >= 0 => 0 \div P <= (a + h) \div P
    BY <1>1, QuotientsAreMonotone
<1>5. a >= -1 => (-1) \div P <= (a + h) \div P
    BY <1>1, QuotientsAreMonotone
<1>6. 0 \div P = 0 /\ (-1) \div P = -1
    BY <1>1
<1> QED BY <1>2, <1>3, <1>4, <1>5, <1>6

\* Where a piece is placed: not before its time with the latency so far, no more
\* than the cushion behind its time with the new one, and near the clock.
LEMMA Placing ==
    ASSUME SinkTypes, NEW pts \in Nat
    PROVE  /\ newLatency(pts) \in Nat /\ latency <= newLatency(pts)
           /\ placed(pts) \in Nat
           /\ pts + latency * Period <= placed(pts)
           /\ placed(pts) <= pts + newLatency(pts) * Period + Cushion
           /\ now - Period < placed(pts)
<1> DEFINE P == Period
           x == pts + latency * P
           k == (now - x) \div P
<1>1. P \in Nat /\ P > 0 /\ now \in Nat /\ latency \in Nat /\ x \in Nat /\ Cushion \in Nat
    BY PeriodIsPositive, SinkAssumption DEF SinkTypes
<1>2. newLatency(pts) = IF x < now THEN latency + k ELSE latency
    BY DEF newLatency, lateBy
<1>3. placed(pts) = pts + newLatency(pts) * P + (IF x < now THEN Cushion ELSE 0)
    BY DEF placed
<1>4. CASE x < now
    <2>1. k \in Int /\ k * P <= now - x /\ now - x < k * P + P
        BY <1>1, Quotient
    <2>2. k \in Nat
        <3>1. 0 \div P <= (now - x) \div P
            BY <1>1, <1>4, QuotientsAreMonotone
        <3>2. 0 \div P = 0
            BY <1>1
        <3> QED BY <2>1, <3>1, <3>2
    <2>3. newLatency(pts) = latency + k
        BY <1>2, <1>4
    <2> DEFINE n == newLatency(pts)
    <2> HIDE DEF k
    <2>4. n * P = latency * P + k * P /\ k * P \in Nat /\ latency * P \in Nat
        BY <1>1, <2>2, <2>3
    <2>5. placed(pts) = pts + n * P + Cushion
        BY <1>3, <1>4
    <2>6. placed(pts) = x + k * P + Cushion
        BY <1>1, <2>4, <2>5
    <2> HIDE DEF n
    <2>7. n \in Nat /\ latency <= n
        BY <1>1, <2>2, <2>3 DEF n
    <2>8. x <= placed(pts) /\ placed(pts) \in Nat /\ now - P < placed(pts)
        <3> DEFINE kp == k * P
        <3>1. kp \in Nat /\ now - x < kp + P /\ placed(pts) = x + kp + Cushion
            BY <2>1, <2>4, <2>6
        <3> HIDE DEF kp, x, P
        <3> QED BY <1>1, <3>1
    <2>9. placed(pts) <= pts + n * P + Cushion
        BY <2>5, <2>8
    <2> QED BY <2>7, <2>8, <2>9 DEF n
<1>5. CASE ~(x < now)
    <2>1. newLatency(pts) = latency /\ placed(pts) = pts + latency * P
        BY <1>1, <1>2, <1>3, <1>5
    <2>2. placed(pts) = x
        BY <2>1
    <2>3. pts + newLatency(pts) * P = x
        BY <2>1
    <2> HIDE DEF x, P
    <2>4. now - P < x
        BY <1>1, <1>5
    <2> QED BY <1>1, <2>1, <2>2, <2>3, <2>4 DEF x, P
<1> QED BY <1>4, <1>5

\* The index of what render() has placed: less than one and a half periods
\* behind the clock.
LEMMA PlacedIndexIsNear ==
    ASSUME SinkTypes, NEW pts \in Nat
    PROVE  /\ timestamp_to_index(placed(pts)) \in Nat
           /\ index_to_timestamp(timestamp_to_index(placed(pts))) > now - Period - Period \div 2
<1> DEFINE P == Period
           h == P \div 2
           y == placed(pts)
           i == (y + h) \div P
<1>1. P \in Nat /\ P > 0 /\ h \in Nat /\ P <= h + h + 1 /\ now \in Nat
    BY PeriodIsPositive DEF SinkTypes
<1>2. y \in Nat /\ now - P < y
    BY Placing
<1>3. i \in Int /\ y + h < i * P + P
    <2> HIDE DEF y, h, P
    <2>1. y + h \in Int
        BY <1>1, <1>2
    <2> QED BY <1>1, <2>1, Quotient DEF i
<1>4. i = timestamp_to_index(y)
    BY DEF timestamp_to_index
<1>5. i \in Nat
    BY <1>2, <1>4, IndicesAreMonotone
<1>6. i * P > now - P - h
    <2> DEFINE ip == i * P
    <2>1. ip \in Int /\ y + h < ip + P
        BY <1>1, <1>3
    <2> HIDE DEF y, i, P, h, ip
    <2> QED BY <1>1, <1>2, <2>1 DEF ip
<1> QED BY <1>4, <1>5, <1>6 DEF index_to_timestamp

\* The medium is settled, so the units do not change.
LEMMA UnitsStay ==
    ASSUME [Next]_vars
    PROVE  media' = media /\ Period' = Period /\ BufferLen' = BufferLen /\ Overlap' = Overlap
<1>1. ASSUME NEW r \in Runs, Engine(r) PROVE media' = media
    BY <1>1 DEF Engine, await_video_buffer, await_audio_buffer, await_data_buffer, recv, destroy,
        write_video, write_audio, write_data, write_buffer, wake
<1>2. Sending => media' = media
    BY DEF Sending, audioPiece, sendPiece, commit_video, commit_data, send, renderFails
<1>3. video \/ audio \/ data => media' = media
    BY DEF video, audio, data, render
<1>4. start \/ set_caps \/ rejectWriter \/ unlock \/ stop \/ Tick => media' = media
    BY DEF start, set_caps, rejectWriter, unlock, stop, Tick
<1>5. media' = media
    BY <1>1, <1>2, <1>3, <1>4 DEF Next, vars
<1> QED BY <1>5 DEF Period, BufferLen, Overlap, Shortest

\* The four ways an engine changes: nothing, a new command for its channel, the
\* next command from its channel, an end of the command with or without a commit.
Receives(r) ==
    /\ engine[r].st = "recv" /\ engine[r].q # <<>>
    /\ engine' = [engine EXCEPT ![r].st = "write", ![r].cmd = Head(engine[r].q), ![r].q = Tail(@)]
    /\ UNCHANGED <<head, top, exists, holders>>
Ends(r) ==
    /\ engine[r].st \in {"write", "wait"}
    /\ engine' = written(r)
    /\ \/ UNCHANGED <<head, top>>
       \/ head' = engine[r].cmd /\ top' \in {top, engine[r].cmd}
    /\ UNCHANGED <<exists, holders>>
Sleeps(r) ==
    /\ engine[r].st = "write"
    /\ engine' = [engine EXCEPT ![r].st = "wait"]
    /\ UNCHANGED <<head, top, exists, holders>>

LEMMA EngineSteps ==
    ASSUME NEW r \in Runs, Engine(r)
    PROVE  /\ UNCHANGED <<media, now, element, run, stateVars>>
           /\ Receives(r) \/ Ends(r) \/ Sleeps(r) \/ destroy(r)
<1>1. CASE recv(r) BY <1>1 DEF recv, Receives, stateVars, flowVars
<1>2. CASE destroy(r) BY <1>2 DEF destroy
<1>3. ASSUME giveUp(r), write_buffer(r) PROVE Ends(r)
    BY <1>3 DEF giveUp, write_buffer, Ends
<1>4. ASSUME sleepOrCommit(r), write_buffer(r) PROVE Ends(r) \/ Sleeps(r)
    BY <1>4 DEF sleepOrCommit, giveUp, commit, write_buffer, Ends, Sleeps
<1>5. CASE wake(r) BY <1>5 DEF wake, giveUp, commit, Ends
<1>6. write_buffer(r) => UNCHANGED <<media, now, element, run, stateVars>>
    BY DEF write_buffer
<1> QED BY <1>1, <1>2, <1>3, <1>4, <1>5, <1>6
    DEF Engine, await_video_buffer, await_audio_buffer, await_data_buffer,
        write_video, write_audio, write_data

\* A buffer is taken on: its clock is mapped once.
LEMMA ClockIsMapped ==
    ASSUME SinkTypes, mapClock
    PROVE  initial' \in Nat /\ initial <= initial'
BY SinkAssumption DEF mapClock, SinkTypes, Indices, Undefined

\* What placing does to the latency and the piece in hand.
LEMMA PlaceTypes ==
    ASSUME SinkTypes, NEW pts \in Nat, NEW left \in Nat, place(pts, left)
    PROVE  /\ latency' \in Nat
           /\ piece' \in [pts : Nat, left : Nat, cmd : Indices]
           /\ piece'.pts = pts /\ piece'.left = left /\ piece'.cmd \in Nat
           /\ piece'.cmd # Undefined
<1>1. latency' \in Nat
    BY Placing DEF place
<1>2. timestamp_to_index(placed(pts)) \in Nat
    BY PlacedIndexIsNear
<1>3. piece' = [pts |-> pts, left |-> left, cmd |-> timestamp_to_index(placed(pts))]
    BY DEF place
<1> HIDE DEF place
<1> DEFINE i == timestamp_to_index(placed(pts))
<1> HIDE DEF i
<1>4. i \in Nat /\ piece' = [pts |-> pts, left |-> left, cmd |-> i]
    BY <1>2, <1>3 DEF i
<1> QED BY <1>1, <1>4 DEF Indices, Undefined

\* The time of the next buffer.
LEMMA BufferTime ==
    ASSUME SinkTypes, NEW t \in Nat
    PROVE  /\ (count * BufferLen) * Period \in Nat
           /\ (count * BufferLen) * Period + t \in Nat
           /\ ((count + 1) * BufferLen) * Period = (count * BufferLen) * Period + BufferLen * Period
           /\ BufferLen * Period \in Nat
           /\ media # "audio" => count * Period = (count * BufferLen) * Period
<1>1. count \in Nat /\ BufferLen \in Nat /\ Period \in Nat
    BY BufferIsNotEmpty, PeriodIsPositive DEF SinkTypes
<1> DEFINE B == BufferLen
           P == Period
<1>2. media # "audio" => B = 1
    BY DEF BufferLen
<1> HIDE DEF B, P
<1>3. count \in Nat /\ B \in Nat /\ P \in Nat
    BY <1>1 DEF B, P
<1>4. count * B \in Nat /\ (count + 1) * B = count * B + B
    BY <1>3
<1>5. (count * B) * P \in Nat /\ (count * B + B) * P = (count * B) * P + B * P /\ B * P \in Nat
    <2> DEFINE c == count * B
    <2>1. c \in Nat BY <1>4
    <2> HIDE DEF c
    <2>2. c * P \in Nat /\ (c + B) * P = c * P + B * P /\ B * P \in Nat
        BY <1>3, <2>1
    <2> QED BY <2>2 DEF c
<1>6. B = 1 => count * P = (count * B) * P
    BY <1>3
<1> QED BY <1>2, <1>3, <1>4, <1>5, <1>6 DEF B, P

\* A piece is no longer than what is left, and no shorter than the shortest one.
LEMMA Chunks ==
    ASSUME SinkTypes, PieceInv, piece.left > 0
    PROVE  /\ ChunkLen \in Nat /\ 0 < ChunkLen /\ ChunkLen <= piece.left
           /\ Shortest \in Nat /\ Shortest <= ChunkLen
<1>1. piece.left \in Nat /\ MaxChunk \in Nat /\ MaxChunk > 0 /\ BufLen \in Nat
    BY SinkAssumption DEF SinkTypes
<1>2. ChunkLen \in Nat /\ 0 < ChunkLen /\ ChunkLen <= piece.left
    BY <1>1 DEF ChunkLen
<1>3. CASE media = "audio"
    <2>1. CASE MaxChunk <= piece.left
        <3>1. ChunkLen = MaxChunk
            BY <1>1, <1>3, <2>1 DEF ChunkLen
        <3>2. Shortest \in Nat /\ Shortest <= MaxChunk
            <4>1. BufLen % MaxChunk \in Nat /\ BufLen % MaxChunk < MaxChunk
                BY <1>1
            <4> QED BY <1>1, <1>3, <4>1 DEF Shortest
        <3> QED BY <1>2, <3>1, <3>2
    <2>2. CASE piece.left < MaxChunk
        <3>1. ChunkLen = piece.left
            BY <1>1, <2>2 DEF ChunkLen
        <3>2. BufLen % MaxChunk = piece.left
            BY <1>1, <1>3, <2>2, SmallRemainder DEF PieceInv
        <3>3. Shortest = piece.left
            BY <1>1, <1>3, <3>2 DEF Shortest
        <3> QED BY <1>1, <1>2, <3>1, <3>3
    <2> QED BY <1>1, <1>2, <2>1, <2>2
<1>4. CASE media # "audio"
    <2>1. ChunkLen = 1 /\ Shortest = 1
        BY <1>4 DEF ChunkLen, PieceInv, Shortest
    <2> QED BY <1>2, <2>1
<1> QED BY <1>3, <1>4

\* The overlap makes up for what the cushion exceeds a piece by.
LEMMA OverlapIs ==
    /\ Overlap \in Nat
    /\ Shortest \in Nat => Cushion <= Shortest * Period + Overlap * Period
<1>1. Period \in Nat /\ Period > 0 /\ Cushion \in Nat
    BY PeriodIsPositive, SinkAssumption
<1>2. Shortest \in Nat
    <2>1. BufLen % MaxChunk \in Nat /\ MaxChunk \in Nat
        BY SinkAssumption
    <2> QED BY <2>1 DEF Shortest
<1> DEFINE S == Shortest * Period
           P == Period
           d == (Cushion - S + P - 1) \div P
<1>3. S \in Nat
    BY <1>1, <1>2
<1>4. CASE Cushion <= S
    <2>1. Overlap = 0
        BY <1>4 DEF Overlap
    <2>2. Overlap * Period = 0
        BY <1>1, <2>1
    <2> HIDE DEF S
    <2> QED BY <1>1, <1>3, <1>4, <2>1, <2>2 DEF S
<1>5. CASE ~(Cushion <= S)
    <2>1. Overlap = d
        BY <1>5 DEF Overlap
    <2> DEFINE a == Cushion - S + P - 1
    <2>2. a \in Nat
        <3> HIDE DEF S
        <3> QED BY <1>1, <1>3, <1>5
    <2>3. d = a \div P
        OBVIOUS
    <2> HIDE DEF a, d
    <2>4. d \in Int /\ d * P <= a /\ a < d * P + P
        BY <1>1, <2>2, <2>3, Quotient
    <2>5. d \in Nat
        <3>1. 0 \div P <= a \div P
            BY <1>1, <2>2, QuotientsAreMonotone
        <3>2. 0 \div P = 0
            BY <1>1
        <3> QED BY <2>3, <2>4, <3>1, <3>2
    <2>6. Cushion <= S + d * P
        <3> DEFINE dp == d * P
        <3>1. dp \in Int /\ a < dp + P
            BY <1>1, <2>4
        <3> HIDE DEF dp, S, P
        <3> QED BY <1>1, <1>3, <3>1 DEF a, dp, P
    <2> QED BY <2>1, <2>5, <2>6
<1> QED BY <1>4, <1>5

\* What is left after the piece in hand, for all media.
Rest == IF piece.left = ChunkLen THEN NoPiece
        ELSE [pts |-> piece.pts + ChunkLen * Period, left |-> piece.left - ChunkLen,
              cmd |-> Undefined]
Sends == piece.left > 0 /\ send(Rest)

LEMMA SendingSteps ==
    ASSUME SinkTypes, PieceInv, Sending
    PROVE  audioPiece \/ Sends \/ renderFails
<1>1. piece.cmd # Undefined => piece.left > 0
    BY DEF PieceInv, NoPiece, SinkTypes
<1>2. CASE sendPiece
    <2>1. compute_chunk = Rest
        <3>1. piece.left \in Nat /\ MaxChunk \in Nat
            BY SinkAssumption DEF SinkTypes
        <3> QED BY <1>2, <3>1 DEF sendPiece, compute_chunk, Rest, ChunkLen
    <2> QED BY <1>1, <1>2, <2>1 DEF sendPiece, send, Sends
<1>3. CASE commit_video \/ commit_data
    <2>1. Rest = NoPiece
        BY <1>3 DEF commit_video, commit_data, Rest, ChunkLen
    <2> QED BY <1>1, <1>3, <2>1 DEF commit_video, commit_data, send, Sends
<1> QED BY <1>2, <1>3 DEF Sending

\* A buffer is taken on, whatever its medium.
LEMMA RenderSteps ==
    ASSUME SinkTypes, video \/ audio \/ data
    PROVE  LET pts == (count * BufferLen) * Period + initial'
           IN  /\ pts \in Nat /\ initial' \in Nat /\ initial <= initial' /\ count' = count + 1
               /\ element = "playing" /\ piece = NoPiece
               /\ UNCHANGED <<media, now, element, run, engine, flowVars>>
               /\ \/ media # "audio" /\ place(pts, 1)
                  \/ /\ media = "audio" /\ latency' = latency
                     /\ piece' = [pts |-> pts, left |-> BufLen, cmd |-> Undefined]
<1> DEFINE pts == (count * BufferLen) * Period + initial'
<1>1. render
    BY DEF video, audio, data
<1>2. initial' \in Nat /\ initial <= initial'
    BY <1>1, ClockIsMapped DEF render
<1>3. pts \in Nat /\ (media # "audio" => count * Period = (count * BufferLen) * Period)
    BY <1>2, BufferTime
<1>4. CASE media # "audio"
    BY <1>1, <1>2, <1>3, <1>4 DEF video, audio, data, render
<1>5. CASE media = "audio"
    <2>1. BufferLen = BufLen
        BY <1>5 DEF BufferLen
    <2> QED BY <1>1, <1>2, <1>3, <1>5, <2>1 DEF video, audio, data, render
<1> QED BY <1>4, <1>5

\* The engine that accepted caps start.
LEMMA NewEngine ==
    LET e == [NoEngine EXCEPT !.st = "recv", !.tx = TRUE]
    IN  /\ e \in Engines
        /\ e.st = "recv" /\ e.tx = TRUE /\ e.q = <<>> /\ e.cmd = Undefined
<1>1. <<>> \in Seq(Nat) /\ Undefined \in Indices
    BY DEF Indices
<1>2. NoEngine \in Engines /\ NoEngine.q = <<>> /\ NoEngine.cmd = Undefined
    BY <1>1 DEF NoEngine, Engines
<1> QED BY <1>2 DEF Engines

\* Types.
LEMMA StepKeepsTypes ==
    ASSUME SinkTypes, PieceInv, ThreadsInv, [Next]_vars
    PROVE  SinkTypes'
<1>1. CASE start
    BY <1>1 DEF start, SinkTypes, Indices
<1>2. CASE set_caps
    <2>1. element = "ready" /\ run \in Runs
        BY <1>2 DEF set_caps, ThreadsInv
    <2>2. head' \in Indices /\ top' \in Indices /\ engine' \in [Runs -> Engines]
        <3>1. CASE init_state
            <4>1. [NoEngine EXCEPT !.st = "recv", !.tx = TRUE] \in Engines
                BY NewEngine
            <4> QED BY <2>1, <3>1, <4>1 DEF init_state, OpenFlow, SinkTypes, Indices
        <3> QED BY <1>2, <3>1 DEF set_caps, init_state_with_video, init_state_with_audio,
                init_state_with_data, flowVars, SinkTypes
    <2> QED BY <1>2, <2>2 DEF set_caps, stateVars, SinkTypes
<1>3. CASE rejectWriter \/ unlock \/ Tick
    BY <1>3 DEF rejectWriter, unlock, Tick, CloseFlow, stateVars, flowVars, SinkTypes
<1>4. CASE stop
    <2>1. run \in Runs /\ engine[run] \in Engines
        BY <1>4 DEF stop, ThreadsInv, SinkTypes
    <2>2. stopEngine(engine[run]) \in Engines
        BY <2>1 DEF stopEngine, Engines
    <2> QED BY <1>4, <2>1, <2>2 DEF stop, stateVars, flowVars, SinkTypes
<1>5. CASE video \/ audio \/ data
    <2> DEFINE pts == (count * BufferLen) * Period + initial'
    <2>1. /\ pts \in Nat /\ initial' \in Nat /\ count' = count + 1
          /\ UNCHANGED <<media, now, element, run, engine, flowVars>>
          /\ \/ place(pts, 1)
             \/ /\ latency' = latency
                /\ piece' = [pts |-> pts, left |-> BufLen, cmd |-> Undefined]
        BY <1>5, RenderSteps
    <2>2. latency' \in Nat /\ piece' \in [pts : Nat, left : Nat, cmd : Indices]
        <3> HIDE DEF pts
        <3>1. CASE place(pts, 1)
            BY <2>1, <3>1, PlaceTypes
        <3> QED BY <2>1, <3>1, SinkAssumption DEF SinkTypes, Indices
    <2> HIDE DEF pts
    <2> QED BY <2>1, <2>2 DEF SinkTypes, Indices, flowVars
<1>6. CASE audioPiece
    <2>1. piece.pts \in Nat /\ piece.left \in Nat
        BY DEF SinkTypes
    <2>2. latency' \in Nat /\ piece' \in [pts : Nat, left : Nat, cmd : Indices]
        BY <1>6, <2>1, PlaceTypes DEF audioPiece
    <2> QED BY <1>6, <2>2 DEF audioPiece, SinkTypes, flowVars
<1>7. CASE Sends
    <2>1. Rest \in [pts : Nat, left : Nat, cmd : Indices]
        <3>1. ChunkLen \in Nat /\ ChunkLen <= piece.left /\ piece \in [pts : Nat, left : Nat, cmd : Indices]
            BY <1>7, Chunks DEF Sends, SinkTypes
        <3>2. ChunkLen * Period \in Nat
            BY <3>1, PeriodIsPositive
        <3> QED BY <3>1, <3>2 DEF Rest, NoPiece, Indices
    <2>2. piece # NoPiece
        BY <1>7 DEF Sends, NoPiece
    <2>3. run \in Runs /\ piece.cmd \in Nat /\ engine[run] \in Engines
        BY <1>7, <2>2 DEF Sends, send, ThreadsInv, SinkTypes, Indices
    <2>4. engine' \in [Runs -> Engines]
        <3>1. Append(engine[run].q, piece.cmd) \in Seq(Nat)
            BY <2>3 DEF Engines
        <3> QED BY <1>7, <2>3, <3>1 DEF Sends, send, SinkTypes, Engines
    <2> QED BY <1>7, <2>1, <2>4 DEF Sends, send, SinkTypes, flowVars
<1>8. CASE renderFails
    BY <1>8 DEF renderFails, SinkTypes, NoPiece, Indices, flowVars
<1>9. ASSUME NEW r \in Runs, Engine(r) PROVE SinkTypes'
    <2>1. engine[r] \in Engines
        BY DEF SinkTypes
    <2>2. head' \in Indices /\ top' \in Indices /\ engine' \in [Runs -> Engines]
        <3>1. CASE Receives(r)
            <4>1. Head(engine[r].q) \in Nat /\ Tail(engine[r].q) \in Seq(Nat)
                BY <2>1, <3>1 DEF Receives, Engines
            <4> QED BY <2>1, <3>1, <4>1 DEF Receives, SinkTypes, Engines, Indices
        <3>2. CASE Ends(r)
            BY <2>1, <3>2 DEF Ends, written, SinkTypes, Engines, Indices
        <3>3. CASE Sleeps(r)
            BY <2>1, <3>3 DEF Sleeps, SinkTypes, Engines
        <3>4. CASE destroy(r)
            BY <2>1, <3>4 DEF destroy, CloseFlow, SinkTypes, Engines
        <3> QED BY <1>9, <3>1, <3>2, <3>3, <3>4, EngineSteps
    <2>3. UNCHANGED <<media, now, run, stateVars>>
        BY <1>9, EngineSteps
    <2> QED BY <2>2, <2>3 DEF SinkTypes, stateVars
<1>10. CASE UNCHANGED vars
    BY <1>10 DEF vars, SinkTypes
<1> QED BY <1>1, <1>2, <1>3, <1>4, <1>5, <1>6, <1>7, <1>8, <1>9, <1>10, SendingSteps DEF Next

\* Threads and writers: an engine ends only after its stream.
LEMMA StepKeepsThreads ==
    ASSUME WriterInv, SinkTypes, PieceInv, ThreadsInv, [Next]_vars
    PROVE  ThreadsInv'
<1>1. CASE start
    <2>1. run' \in Runs
        BY <1>1, SinkAssumption DEF start, SinkTypes, Runs
    <2>2. element = "null" /\ element' = "ready" /\ UNCHANGED <<piece, engine, holders>>
        BY <1>1 DEF start
    <2>3. piece = NoPiece
        BY <2>2 DEF ThreadsInv
    <2> QED BY <2>1, <2>2, <2>3 DEF ThreadsInv, Streaming, Active
<1>2. CASE set_caps
    <2>1. element = "ready" /\ run \in Runs /\ piece = NoPiece
        BY <1>2 DEF set_caps, ThreadsInv
    <2>2. run' = run /\ piece' = piece
        BY <1>2 DEF set_caps, stateVars
    <2> DEFINE e == [NoEngine EXCEPT !.st = "recv", !.tx = TRUE]
    <2>3. e.st = "recv" /\ e.tx = TRUE /\ e.cmd = Undefined
        BY NewEngine
    <2>4. CASE /\ OpenFlow(run) /\ element' = "playing"
               /\ engine' = [engine EXCEPT ![run] = e]
        <3> HIDE DEF e
        <3>1. engine'[run] = e /\ \A r \in Runs : r # run => engine'[r] = engine[r]
            BY <2>1, <2>4 DEF SinkTypes
        <3>2. \A r \in Runs : r \in holders \/ r = run => r \in holders'
            BY <2>4 DEF OpenFlow
        <3> QED BY <2>1, <2>2, <2>3, <2>4, <3>1, <3>2 DEF ThreadsInv, Streaming, Active
    <2>5. CASE OpenFlow(0) /\ element' = "refused" /\ UNCHANGED engine
        BY <2>1, <2>2, <2>5 DEF ThreadsInv, Streaming, Active, OpenFlow
    <2>6. CASE element' = "failed" /\ UNCHANGED <<engine, flowVars>>
        BY <2>1, <2>2, <2>6 DEF ThreadsInv, Streaming, Active, flowVars
    <2> QED BY <1>2, <2>4, <2>5, <2>6 DEF set_caps, init_state_with_video, init_state_with_audio,
            init_state_with_data, init_state
<1>3. CASE rejectWriter
    <2>1. piece = NoPiece /\ run \in Runs
        BY <1>3 DEF rejectWriter, ThreadsInv
    <2>2. \A r \in Runs : r \in holders => r \in holders'
        BY <1>3 DEF rejectWriter, CloseFlow, Runs
    <2> QED BY <1>3, <2>1, <2>2 DEF rejectWriter, ThreadsInv, Streaming, Active, stateVars
<1>4. CASE unlock \/ Tick
    BY <1>4 DEF unlock, Tick, ThreadsInv, Streaming, Active, stateVars, flowVars
<1>5. CASE stop
    <2>1. run \in Runs /\ engine[run] \in Engines /\ piece' = NoPiece /\ run' = run /\ holders' = holders
        BY <1>5 DEF stop, ThreadsInv, SinkTypes, stateVars, flowVars
    <2>2. stopEngine(engine[run]).st = engine[run].st /\ stopEngine(engine[run]).cmd = engine[run].cmd
        BY <2>1 DEF stopEngine, Engines
    <2>3. \A r \in Runs : engine'[r].st = engine[r].st /\ engine'[r].cmd = engine[r].cmd
        BY <1>5, <2>1, <2>2 DEF stop, SinkTypes
    <2> QED BY <1>5, <2>1, <2>3 DEF stop, ThreadsInv, Streaming, Active
<1>6. CASE video \/ audio \/ data
    <2>1. element = "playing" /\ UNCHANGED <<element, run, engine, flowVars>>
        BY <1>6, RenderSteps
    <2> QED BY <2>1 DEF ThreadsInv, Streaming, Active, flowVars
<1>7. CASE audioPiece
    <2>1. piece # NoPiece /\ UNCHANGED <<element, run, engine, flowVars>>
        BY <1>7 DEF audioPiece, NoPiece
    <2> QED BY <2>1 DEF ThreadsInv, Streaming, Active, flowVars
<1>8. CASE Sends
    <2>1. piece # NoPiece /\ UNCHANGED <<element, run, flowVars>>
        BY <1>8 DEF Sends, send, NoPiece
    <2>2. run \in Runs
        BY <2>1 DEF ThreadsInv
    <2>3. \A r \in Runs : /\ engine'[r].st = engine[r].st /\ engine'[r].cmd = engine[r].cmd
                          /\ engine'[r].tx = engine[r].tx
        BY <1>8, <2>2 DEF Sends, send, SinkTypes, Engines
    <2> QED BY <2>1, <2>2, <2>3 DEF ThreadsInv, Streaming, Active, flowVars
<1>9. CASE renderFails
    <2>1. piece # NoPiece
        BY <1>9 DEF renderFails, NoPiece
    <2>2. run \in Runs /\ element' \in {"failed", "stopping"} /\ piece' = NoPiece
        BY <1>9, <2>1 DEF renderFails, ThreadsInv
    <2> QED BY <1>9, <2>2 DEF renderFails, ThreadsInv, Streaming, Active, flowVars
<1>10. ASSUME NEW r \in Runs, Engine(r) PROVE ThreadsInv'
    <2>1. UNCHANGED <<element, run, piece>>
        BY <1>10, EngineSteps DEF stateVars
    <2>2. engine \in [Runs -> Engines] /\ engine[r] \in Engines
        BY DEF SinkTypes
    <2>3. CASE Receives(r)
        <3>1. Head(engine[r].q) \in Nat
            BY <2>2, <2>3 DEF Receives, Engines
        <3>2. engine'[r].st = "write" /\ engine'[r].cmd # Undefined /\ engine'[r].tx = engine[r].tx
            BY <2>2, <2>3, <3>1 DEF Receives, Engines, Undefined
        <3>3. \A s \in Runs : s # r => engine'[s] = engine[s]
            BY <2>2, <2>3 DEF Receives
        <3> QED BY <2>1, <2>3, <3>2, <3>3 DEF Receives, ThreadsInv, Streaming, Active
    <2>4. CASE Ends(r)
        <3>1. engine'[r].st = "recv" /\ engine'[r].cmd = Undefined /\ engine'[r].tx = engine[r].tx
            BY <2>2, <2>4 DEF Ends, written, Engines
        <3>2. \A s \in Runs : s # r => engine'[s] = engine[s]
            BY <2>2, <2>4 DEF Ends, written
        <3> QED BY <2>1, <2>4, <3>1, <3>2 DEF Ends, ThreadsInv, Streaming, Active
    <2>5. CASE Sleeps(r)
        <3>1. /\ engine'[r].st = "wait" /\ engine'[r].cmd = engine[r].cmd
              /\ engine'[r].tx = engine[r].tx
            BY <2>2, <2>5 DEF Sleeps, Engines
        <3>2. \A s \in Runs : s # r => engine'[s] = engine[s]
            BY <2>2, <2>5 DEF Sleeps
        <3> QED BY <2>1, <2>5, <3>1, <3>2 DEF Sleeps, ThreadsInv, Streaming, Active
    <2>6. CASE destroy(r)
        <3>1. engine'[r].st = "done" /\ engine'[r].cmd = engine[r].cmd /\ ~engine[r].tx
            BY <2>2, <2>6 DEF destroy, Engines
        <3>2. \A s \in Runs : s # r => engine'[s] = engine[s] /\ (s \in holders => s \in holders')
            BY <2>2, <2>6 DEF destroy, CloseFlow
        <3>3. Streaming => run # r
            BY <3>1 DEF ThreadsInv
        <3> QED BY <2>1, <3>1, <3>2, <3>3 DEF ThreadsInv, Streaming, Active
    <2> QED BY <1>10, <2>3, <2>4, <2>5, <2>6, EngineSteps
<1>11. CASE UNCHANGED vars
    BY <1>11 DEF vars, ThreadsInv, Streaming, Active
<1> QED BY <1>1, <1>2, <1>3, <1>4, <1>5, <1>6, <1>7, <1>8, <1>9, <1>10, <1>11, SendingSteps
    DEF Next

\* The rest of a buffer ends where the next one begins.
LEMMA StepKeepsPiece ==
    ASSUME SinkTypes, PieceInv, ThreadsInv, [Next]_vars
    PROVE  PieceInv'
<1> DEFINE P == Period
<1>1. media' = media /\ Period' = Period /\ BufferLen' = BufferLen
    BY UnitsStay
<1>2. ASSUME piece' = NoPiece PROVE PieceInv'
    BY <1>2 DEF PieceInv, NoPiece
<1>3. ASSUME UNCHANGED <<initial, count, piece>> PROVE PieceInv'
    BY <1>1, <1>3 DEF PieceInv
<1>4. CASE start
    BY <1>2, <1>4 DEF start, ThreadsInv
<1>5. CASE video \/ audio \/ data
    <2> DEFINE X == (count * BufferLen) * P
    <2>1. /\ X + initial' \in Nat /\ initial' \in Nat /\ count' = count + 1
          /\ \/ media # "audio" /\ place(X + initial', 1)
             \/ /\ media = "audio" /\ latency' = latency
                /\ piece' = [pts |-> X + initial', left |-> BufLen, cmd |-> Undefined]
        BY <1>5, RenderSteps
    <2>2. /\ X \in Nat /\ ((count + 1) * BufferLen) * P = X + BufferLen * P
          /\ BufferLen * P \in Nat
        BY <2>1, BufferTime
    <2>3. piece'.pts = X + initial' /\ piece'.left = BufferLen
        <3>1. CASE media # "audio"
            <4> HIDE DEF X
            <4>1. piece'.pts = X + initial' /\ piece'.left = 1
                BY <2>1, <3>1, PlaceTypes
            <4> QED BY <3>1, <4>1 DEF BufferLen
        <3>2. CASE media = "audio"
            BY <2>1, <3>2 DEF BufferLen
        <3> QED BY <3>1, <3>2
    <2>4. (count' * BufferLen) * P = X + BufferLen * P
        BY <2>1, <2>2
    <2>5. piece'.pts + piece'.left * P = (count' * BufferLen) * P + initial'
        <3> DEFINE Y == BufferLen * P
        <3>1. piece'.left * P = Y
            BY <2>3
        <3> HIDE DEF X, Y
        <3>2. X \in Nat /\ Y \in Nat /\ initial' \in Nat
            BY <2>1, <2>2 DEF Y
        <3>3. (X + initial') + Y = (X + Y) + initial'
            BY <3>2
        <3> QED BY <2>3, <2>4, <3>1, <3>3 DEF Y
    <2>6. media # "audio" => piece'.left = 1 /\ piece'.cmd # Undefined
        <3> HIDE DEF X
        <3> QED BY <2>1, PlaceTypes
    <2>7. media = "audio" => piece'.left = BufLen
        BY <2>3 DEF BufferLen
    <2>8. piece'.left > 0
        BY <2>3, BufferIsNotEmpty
    <2> HIDE DEF X
    <2> QED BY <1>1, <2>5, <2>6, <2>7, <2>8 DEF PieceInv
<1>6. CASE audioPiece
    <2>1. piece.pts \in Nat /\ piece.left \in Nat /\ place(piece.pts, piece.left)
        BY <1>6 DEF SinkTypes, audioPiece
    <2>2. piece'.pts = piece.pts /\ piece'.left = piece.left /\ piece'.cmd # Undefined
        BY <2>1, PlaceTypes
    <2>3. UNCHANGED <<initial, count>> /\ piece.left > 0
        BY <1>6 DEF audioPiece
    <2>4. piece.pts + piece.left * P = (count * BufferLen) * P + initial
        BY <2>3 DEF PieceInv
    <2>5. piece'.pts + piece'.left * P = (count' * BufferLen) * P + initial'
        BY <2>2, <2>3, <2>4
    <2> QED BY <1>1, <2>2, <2>3, <2>5 DEF PieceInv
<1>7. CASE Sends
    <2>1. /\ ChunkLen \in Nat /\ 0 < ChunkLen /\ ChunkLen <= piece.left /\ piece.left > 0
          /\ piece.left \in Nat /\ piece.pts \in Nat /\ P \in Nat
        BY <1>7, Chunks, PeriodIsPositive DEF Sends, SinkTypes
    <2>2. piece' = Rest /\ UNCHANGED <<initial, count>>
        BY <1>7 DEF Sends, send
    <2>3. CASE piece.left # ChunkLen
        <3>1. media = "audio" /\ ChunkLen = MaxChunk /\ MaxChunk < piece.left
            BY <2>3 DEF ChunkLen
        <3>2. /\ piece'.pts = piece.pts + ChunkLen * P /\ piece'.left = piece.left - ChunkLen
              /\ piece'.left > 0
            BY <2>1, <2>2, <2>3 DEF Rest
        <3>3. (piece.left - ChunkLen) * P = piece.left * P - ChunkLen * P
            BY <2>1
        <3>4. ChunkLen * P \in Nat /\ piece.left * P \in Nat
            BY <2>1
        <3>5. piece'.pts + piece'.left * P = piece.pts + piece.left * P
            <4> DEFINE C == ChunkLen * P
                       D == piece.left * P
            <4>1. piece'.pts = piece.pts + C /\ piece'.left * P = D - C
                BY <3>2, <3>3
            <4>2. C \in Nat /\ D \in Nat
                BY <3>4
            <4> HIDE DEF C, D
            <4>3. (piece.pts + C) + (D - C) = piece.pts + D
                BY <2>1, <4>2
            <4> QED BY <4>1, <4>3 DEF D
        <3>6. piece'.left % MaxChunk = BufLen % MaxChunk
            <4>1. (piece.left - MaxChunk) % MaxChunk = piece.left % MaxChunk
                BY <2>1, <3>1, RemainderOfLess
            <4>2. piece.left % MaxChunk = BufLen % MaxChunk
                BY <2>1, <3>1 DEF PieceInv
            <4> QED BY <3>1, <3>2, <4>1, <4>2
        <3>7. piece.pts + piece.left * P = (count * BufferLen) * P + initial
            BY <2>1 DEF PieceInv
        <3>8. piece'.pts + piece'.left * P = (count' * BufferLen) * P + initial'
            BY <2>2, <3>5, <3>7
        <3> QED BY <1>1, <3>1, <3>2, <3>6, <3>8 DEF PieceInv
    <2>4. CASE piece.left = ChunkLen
        BY <1>2, <2>2, <2>4 DEF Rest
    <2> QED BY <2>3, <2>4
<1>8. CASE renderFails
    BY <1>2, <1>8 DEF renderFails
<1>9. CASE set_caps \/ rejectWriter \/ unlock \/ stop \/ Tick \/ UNCHANGED vars
    BY <1>3, <1>9 DEF set_caps, rejectWriter, unlock, stop, Tick, vars, stateVars
<1>10. CASE \E r \in Runs : Engine(r)
    BY <1>3, <1>10, EngineSteps DEF stateVars
<1> QED BY <1>4, <1>5, <1>6, <1>7, <1>8, <1>9, <1>10, SendingSteps DEF Next

\* Channels are in order, and what is committed comes before them.
LEMMA StepKeepsEngineOrder ==
    ASSUME SinkInv, [Next]_vars
    PROVE  EngineOrder'
<1> USE DEF SinkInv
<1>0. Overlap' = Overlap /\ Overlap \in Nat
    BY UnitsStay, OverlapIs
<1>1. ASSUME top' = top,
             \A r \in Runs : /\ engine'[r].st = engine[r].st /\ engine'[r].cmd = engine[r].cmd
                             /\ engine'[r].q = engine[r].q
      PROVE  EngineOrder'
    BY <1>0, <1>1 DEF EngineOrder, Active, Follows
<1>2. engine \in [Runs -> Engines] /\ top \in Indices
    BY DEF SinkTypes
<1>3. CASE start \/ rejectWriter \/ unlock \/ Tick \/ audioPiece \/ renderFails \/ UNCHANGED vars
    BY <1>1, <1>3 DEF start, rejectWriter, CloseFlow, unlock, Tick, audioPiece, renderFails, vars, flowVars
<1>4. CASE set_caps
    <2>1. run \in Runs
        BY <1>4 DEF set_caps, ThreadsInv
    <2>2. CASE ~exists /\ init_state
        <3>1. \A r \in Runs : ~Active(r)
            BY <2>2 DEF WriterInv, HeldFlowExists, ThreadsInv
        <3> DEFINE e == [NoEngine EXCEPT !.st = "recv", !.tx = TRUE]
        <3>2. e.q = <<>> /\ e.cmd = Undefined
            BY NewEngine
        <3>3. engine' = [engine EXCEPT ![run] = e]
            BY <2>2 DEF init_state
        <3> HIDE DEF e
        <3>4. engine'[run] = e /\ \A r \in Runs : r # run => engine'[r] = engine[r]
            BY <1>2, <2>1, <3>3
        <3>5. Len(e.q) = 0
            BY <3>2
        <3>6. \A r \in Runs : Active(r)' => /\ r = run /\ engine'[r].cmd = Undefined
                                            /\ Len(engine'[r].q) = 0
            BY <3>1, <3>2, <3>4, <3>5 DEF Active
        <3>7. \A r \in Runs : 1..Len(engine'[r].q) = {} \/ ~Active(r)'
            BY <3>6
        <3> QED BY <3>6, <3>7 DEF EngineOrder
    <2>3. CASE exists /\ init_state
        BY <1>1, <2>3 DEF init_state, OpenFlow
    <2>4. CASE UNCHANGED <<engine, flowVars>>
        BY <1>1, <2>4 DEF flowVars
    <2> QED BY <1>4, <2>2, <2>3, <2>4 DEF set_caps, init_state_with_video, init_state_with_audio,
            init_state_with_data
<1>5. CASE stop
    <2>1. run \in Runs /\ engine[run] \in Engines
        BY <1>2, <1>5 DEF stop, ThreadsInv
    <2>2. /\ stopEngine(engine[run]).st = engine[run].st
          /\ stopEngine(engine[run]).cmd = engine[run].cmd
          /\ stopEngine(engine[run]).q = engine[run].q
        BY <2>1 DEF stopEngine, Engines
    <2> QED BY <1>1, <1>2, <1>5, <2>1, <2>2 DEF stop, flowVars
<1>6. CASE video \/ audio \/ data
    BY <1>1, <1>6, RenderSteps DEF flowVars
<1>7. CASE Sends
    <2>1. piece # NoPiece /\ piece.cmd # Undefined /\ top' = top
        BY <1>7 DEF Sends, send, NoPiece, flowVars
    <2>2. run \in Runs /\ SentUpTo(piece.cmd) /\ Active(run)
        BY <2>1 DEF ThreadsInv, StreamOrder, Streaming
    <2> DEFINE q == engine[run].q
               c == piece.cmd
    <2>3. q \in Seq(Nat) /\ c \in Nat
        BY <1>2, <2>1, <2>2 DEF SinkTypes, Engines, Indices
    <2>4. /\ engine'[run].q = Append(q, c)
          /\ engine'[run].st = engine[run].st /\ engine'[run].cmd = engine[run].cmd
          /\ \A r \in Runs : r # run => engine'[r] = engine[r]
        BY <1>2, <1>7, <2>2 DEF Sends, send, Engines
    <2> HIDE DEF q, c
    <2>5. /\ Len(Append(q, c)) = Len(q) + 1 /\ Len(q) \in Nat
          /\ \A i \in 1..Len(q) : Append(q, c)[i] = q[i] /\ q[i] \in Nat
          /\ Append(q, c)[Len(q) + 1] = c
        BY <2>3
    <2>6. /\ Follows(top, c) /\ Follows(engine[run].cmd, c)
          /\ \A i \in 1..Len(q) : /\ Follows(q[i], c) /\ Follows(top, q[i])
                                  /\ Follows(engine[run].cmd, q[i])
          /\ \A i, j \in 1..Len(q) : i <= j => Follows(q[i], q[j])
          /\ engine[run].cmd # Undefined => Follows(top, engine[run].cmd)
        BY <2>2 DEF q, c, SentUpTo, EngineOrder
    <2>7. \A i \in 1..(Len(q) + 1) : i \in 1..Len(q) \/ i = Len(q) + 1
        BY <2>5
    <2>8. \A i \in 1..(Len(q) + 1) : /\ Follows(top, Append(q, c)[i])
                                     /\ Follows(engine[run].cmd, Append(q, c)[i])
        BY <2>5, <2>6, <2>7
    <2>9. \A i, j \in 1..(Len(q) + 1) : i <= j => Follows(Append(q, c)[i], Append(q, c)[j])
        <3> SUFFICES ASSUME NEW i \in 1..(Len(q) + 1), NEW j \in 1..(Len(q) + 1), i <= j
                     PROVE  Follows(Append(q, c)[i], Append(q, c)[j])
            OBVIOUS
        <3>1. CASE j \in 1..Len(q)
            <4>1. i \in 1..Len(q)
                BY <2>5, <3>1
            <4> QED BY <2>5, <2>6, <3>1, <4>1
        <3>2. CASE j = Len(q) + 1
            <4>1. Append(q, c)[j] = c /\ Follows(c, c)
                BY <1>0, <2>3, <2>5, <3>2 DEF Follows
            <4> QED BY <2>5, <2>6, <2>7, <4>1
        <3> QED BY <2>7, <3>1, <3>2
    <2>10. \A r \in Runs : r # run =>
              /\ engine'[r] = engine[r] /\ (Active(r)' => Active(r))
        BY <2>4 DEF Active
    <2>11. ASSUME NEW r \in Runs, r # run, Active(r)' PROVE FALSE
        <3>1. r \in holders /\ run \in holders
            BY <2>2, <2>10, <2>11 DEF ThreadsInv
        <3> QED BY <2>2, <2>11, <3>1 DEF WriterInv, OneWriterPerFlow
    <2>13. \A r \in Runs : Active(r)' => r = run
        BY <2>11
    <2> DEFINE q2 == engine'[run].q
    <2>14. q2 = Append(q, c) /\ Len(q2) = Len(q) + 1 /\ engine'[run].cmd = engine[run].cmd
        BY <2>4, <2>5
    <2>15. /\ \A i \in 1..Len(q2) : Follows(top, q2[i]) /\ Follows(engine[run].cmd, q2[i])
           /\ \A i, j \in 1..Len(q2) : i <= j => Follows(q2[i], q2[j])
        <3> HIDE DEF q2
        <3> QED BY <2>8, <2>9, <2>14
    <2>16. /\ engine'[run].cmd # Undefined => top' <= engine'[run].cmd + Overlap'
           /\ \A i \in 1..Len(q2) : /\ top' <= q2[i] + Overlap'
                                     /\ engine'[run].cmd <= q2[i] + Overlap'
           /\ \A i, j \in 1..Len(q2) : i <= j => q2[i] <= q2[j] + Overlap'
        <3> HIDE DEF q2
        <3>1. top' = top /\ Overlap' = Overlap /\ engine'[run].cmd = engine[run].cmd
            BY <1>0, <2>1, <2>14
        <3> QED BY <2>6, <2>15, <3>1 DEF Follows
    <2>17. \A r \in Runs : Active(r)' => r = run
        BY <2>13
    <2> QED BY <2>16, <2>17 DEF EngineOrder, Follows, q2
<1>8. ASSUME NEW r \in Runs, Engine(r) PROVE EngineOrder'
    <2>1. engine[r] \in Engines
        BY <1>2
    <2>2. ASSUME Active(r), NEW s \in Runs, s # r PROVE ~Active(s)
        BY <2>2 DEF ThreadsInv, WriterInv, OneWriterPerFlow
    <2>3. CASE Receives(r)
        <3> DEFINE q == engine[r].q
        <3>1. q \in Seq(Nat) /\ q # <<>> /\ Active(r)
            BY <2>1, <2>3 DEF Receives, Engines, Active
        <3>2. /\ engine'[r].q = Tail(q) /\ engine'[r].cmd = Head(q) /\ top' = top
              /\ \A s \in Runs : s # r => engine'[s] = engine[s]
            BY <1>2, <2>1, <2>3 DEF Receives, Engines
        <3> HIDE DEF q
        <3>3. /\ Len(q) \in Nat /\ Len(q) >= 1 /\ Head(q) = q[1] /\ Len(Tail(q)) = Len(q) - 1
              /\ \A i \in 1..Len(Tail(q)) : Tail(q)[i] = q[i + 1]
            BY <3>1
        <3>4. /\ \A i \in 1..Len(q) : Follows(top, q[i])
              /\ \A i, j \in 1..Len(q) : i <= j => Follows(q[i], q[j])
            BY <3>1 DEF EngineOrder, q
        <3>5. \A i \in 1..Len(Tail(q)) : /\ i + 1 \in 1..Len(q) /\ 1 \in 1..Len(q) /\ 1 <= i + 1
            BY <3>3
        <3>6. \A i \in 1..Len(Tail(q)) : Follows(top, Tail(q)[i]) /\ Follows(Head(q), Tail(q)[i])
            BY <3>3, <3>4, <3>5
        <3>7. \A i, j \in 1..Len(Tail(q)) : i <= j => Follows(Tail(q)[i], Tail(q)[j])
            <4> SUFFICES ASSUME NEW i \in 1..Len(Tail(q)), NEW j \in 1..Len(Tail(q)), i <= j
                         PROVE  Follows(Tail(q)[i], Tail(q)[j])
                OBVIOUS
            <4>1. i + 1 <= j + 1
                OBVIOUS
            <4> QED BY <3>3, <3>4, <3>5, <4>1
        <3>8. Follows(top, Head(q))
            <4>1. 1 \in 1..Len(q)
                BY <3>3
            <4> QED BY <3>3, <3>4, <4>1
        <3>9. \A s \in Runs : Active(s)' => s = r
            BY <2>2, <3>1, <3>2 DEF Active
        <3> QED BY <1>0, <3>2, <3>6, <3>7, <3>8, <3>9 DEF EngineOrder, Follows
    <2>4. CASE Ends(r)
        <3>1. Active(r) /\ engine[r].cmd # Undefined
            BY <2>4 DEF Ends, Active, ThreadsInv
        <3>2. /\ engine'[r].q = engine[r].q /\ engine'[r].cmd = Undefined
              /\ \A s \in Runs : s # r => engine'[s] = engine[s]
            BY <1>2, <2>1, <2>4 DEF Ends, written, Engines
        <3>3. \A s \in Runs : Active(s)' => s = r
            BY <2>2, <3>1, <3>2 DEF Active
        <3> DEFINE q == engine[r].q
        <3>4. /\ \A i \in 1..Len(q) : Follows(top, q[i]) /\ Follows(engine[r].cmd, q[i])
              /\ \A i, j \in 1..Len(q) : i <= j => Follows(q[i], q[j])
            BY <3>1 DEF EngineOrder
        <3>5. q \in Seq(Nat)
            BY <2>1 DEF Engines
        <3> HIDE DEF q
        <3>6. \A i \in 1..Len(q) : Follows(top', q[i]) /\ Follows(Undefined, q[i])
            <4>1. \A i \in 1..Len(q) : q[i] \in Nat
                BY <3>5
            <4>2. \A i \in 1..Len(q) : Follows(Undefined, q[i])
                BY <1>0, <4>1 DEF Follows, Undefined
            <4>3. top' \in {top, engine[r].cmd}
                BY <2>4 DEF Ends
            <4> QED BY <3>4, <4>2, <4>3
        <3> QED BY <1>0, <3>2, <3>3, <3>4, <3>6 DEF EngineOrder, Follows, q
    <2>5. CASE Sleeps(r)
        <3>1. /\ top' = top /\ Active(r)
              /\ engine'[r].q = engine[r].q /\ engine'[r].cmd = engine[r].cmd
              /\ \A s \in Runs : s # r => engine'[s] = engine[s]
            BY <1>2, <2>1, <2>5 DEF Sleeps, Engines, Active
        <3> QED BY <1>0, <3>1 DEF EngineOrder, Active, Follows
    <2>6. CASE destroy(r)
        <3>1. /\ top' = top /\ ~Active(r)'
              /\ \A s \in Runs : s # r => engine'[s] = engine[s]
            BY <1>2, <2>1, <2>6 DEF destroy, CloseFlow, Engines, Active
        <3> QED BY <1>0, <3>1 DEF EngineOrder, Active, Follows
    <2> QED BY <1>8, <2>3, <2>4, <2>5, <2>6, EngineSteps
<1> QED BY <1>3, <1>4, <1>5, <1>6, <1>7, <1>8, SendingSteps DEF Next

\* The next time, between two buffers also before the clock is mapped.
LEMMA NextTimeIsTime ==
    ASSUME SinkTypes, PieceInv
    PROVE  nextTime \in Int /\ nextTime >= -1
<1>1. latency * Period \in Nat /\ (count * BufferLen) * Period \in Nat
    <2>1. latency \in Nat /\ Period \in Nat
        BY PeriodIsPositive DEF SinkTypes
    <2> QED BY <2>1, BufferTime
<1>2. initial \in Int /\ initial >= -1 /\ piece.pts \in Nat
    BY DEF SinkTypes, Indices, Undefined
<1>3. piece.left # 0 => ChunkLen * Period \in Nat
    <2>1. piece.left # 0 => ChunkLen \in Nat
        BY Chunks DEF SinkTypes
    <2> QED BY <2>1, PeriodIsPositive
<1> DEFINE L == latency * Period
           X == (count * BufferLen) * Period
           C == ChunkLen * Period
<1> HIDE DEF L, X, C
<1>4. nextTime = L + (IF piece.left = 0 THEN X + initial
                      ELSE IF piece.cmd = Undefined THEN piece.pts ELSE piece.pts + C)
    BY DEF nextTime, L, X, C
<1>5. L \in Nat /\ X \in Nat /\ (piece.left # 0 => C \in Nat)
    BY <1>1, <1>3 DEF L, X, C
<1> QED BY <1>2, <1>4, <1>5

\* Both hold of the next state as well.
LEMMA ChunksNext ==
    (SinkTypes /\ PieceInv /\ piece.left > 0 =>
        ChunkLen \in Nat /\ Cushion <= ChunkLen * Period + Overlap * Period)'
<1>1. SinkTypes /\ PieceInv /\ piece.left > 0 =>
          ChunkLen \in Nat /\ Cushion <= ChunkLen * Period + Overlap * Period
    <2> SUFFICES ASSUME SinkTypes, PieceInv, piece.left > 0
                 PROVE  ChunkLen \in Nat /\ Cushion <= ChunkLen * Period + Overlap * Period
        OBVIOUS
    <2> DEFINE S == Shortest * Period
               C == ChunkLen * Period
               D == Overlap * Period
    <2>1. ChunkLen \in Nat /\ Shortest \in Nat /\ Shortest <= ChunkLen
        BY Chunks
    <2>2. S <= C /\ S \in Nat /\ C \in Nat
        BY <2>1, PeriodIsPositive, Ordered
    <2>3. Cushion <= S + D /\ D \in Nat /\ Cushion \in Nat
        <3>1. Overlap \in Nat /\ Cushion <= S + D
            BY <2>1, OverlapIs
        <3> QED BY <3>1, PeriodIsPositive, SinkAssumption
    <2> HIDE DEF S, C, D
    <2>4. Cushion <= C + D
        BY <2>2, <2>3
    <2> QED BY <2>1, <2>4 DEF C, D
<1> QED BY <1>1, PTL

LEMMA NextTimeNext == (SinkTypes /\ PieceInv => nextTime \in Int /\ nextTime >= -1)'
<1>1. SinkTypes /\ PieceInv => nextTime \in Int /\ nextTime >= -1
    BY NextTimeIsTime
<1> QED BY <1>1, PTL

\* A larger bound is a bound.
LEMMA SentUpToMore ==
    ASSUME SinkTypes, run \in Runs, NEW i \in Int, NEW j \in Int, i <= j, SentUpTo(i)
    PROVE  SentUpTo(j)
<1>1. /\ top \in Int /\ engine[run].cmd \in Int /\ engine[run].q \in Seq(Nat)
      /\ Overlap \in Nat
    BY OverlapIs DEF SinkTypes, Engines, Indices, Undefined
<1>2. \A k \in 1..Len(engine[run].q) : engine[run].q[k] \in Nat
    BY <1>1
<1>3. \A k \in 1..Len(engine[run].q) : Follows(engine[run].q[k], j)
    BY <1>1, <1>2 DEF SentUpTo, Follows
<1> QED BY <1>1, <1>3 DEF SentUpTo, Follows

\* A time that is later by whole periods has an index larger by as many.
LEMMA LaterIndex ==
    ASSUME NEW x \in Int, NEW d \in Nat
    PROVE  timestamp_to_index(x + d * Period) = timestamp_to_index(x) + d
<1> DEFINE P == Period
           a == x + P \div 2
           e == a \div P
<1>1. P \in Nat /\ P > 0 /\ P \div 2 \in Nat
    BY PeriodIsPositive
<1>2. a \in Int
    BY <1>1
<1> HIDE DEF P, a
<1>3. e \in Int /\ e * P <= a /\ a < e * P + P
    BY <1>1, <1>2, Quotient
<1> HIDE DEF e
<1>4. d * P \in Int /\ e * P \in Int /\ (e + d) * P = e * P + d * P
    BY <1>1, <1>3
<1>5. (a + d * P) \div P = e + d
    BY <1>1, <1>2, <1>3, <1>4, IntQuotientIs
<1>6. x + d * P + P \div 2 = a + d * P
    BY <1>1, <1>4 DEF a
<1> QED BY <1>5, <1>6 DEF timestamp_to_index, e, a, P

\* A piece is placed behind all that was sent, and before all that follows but
\* for what its cushion exceeds it by.
LEMMA PlacedInOrder ==
    ASSUME SinkTypes, SinkTypes', PieceInv', run \in Runs, Period' = Period, Overlap' = Overlap,
           NEW pts \in Nat, NEW left \in Nat, left > 0, place(pts, left),
           UNCHANGED <<run, engine, top>>,
           NEW t \in Int, t <= pts + latency * Period, SentUpTo(timestamp_to_index(t))
    PROVE  StreamOrder'
<1> DEFINE i == timestamp_to_index(placed(pts))
<1>1. /\ piece'.pts = pts /\ piece'.left = left /\ piece'.cmd # Undefined
      /\ piece'.cmd = i
    BY PlaceTypes DEF place
<1>2. /\ placed(pts) \in Nat /\ pts + latency * Period <= placed(pts)
      /\ placed(pts) <= pts + latency' * Period + Cushion
      /\ latency' \in Nat /\ latency \in Nat /\ latency <= latency'
    BY Placing DEF place, SinkTypes
<1>3. pts + latency * Period \in Int
    BY PeriodIsPositive DEF SinkTypes
<1>4. t <= placed(pts)
    <2> DEFINE y == pts + latency * Period
    <2> HIDE DEF y
    <2> QED BY <1>2, <1>3 DEF y
<1>5. timestamp_to_index(t) \in Int /\ timestamp_to_index(t) <= i /\ i \in Int
    BY <1>2, <1>4, IndicesAreMonotone
<1> HIDE DEF i
<1>6. SentUpTo(i)
    BY <1>5, SentUpToMore
<1>7. SentUpTo(piece.cmd)'
    BY <1>1, <1>6 DEF SentUpTo, Follows
<1>8. (ChunkLen \in Nat /\ Cushion <= ChunkLen * Period + Overlap * Period)'
    <2>1. (SinkTypes /\ PieceInv /\ piece.left > 0)'
        BY <1>1
    <2>2. (SinkTypes /\ PieceInv /\ piece.left > 0)' =>
              (ChunkLen \in Nat /\ Cushion <= ChunkLen * Period + Overlap * Period)'
        BY ChunksNext
    <2> QED BY <2>1, <2>2
<1>9. nextTime' = latency' * Period + (pts + ChunkLen' * Period)
    BY <1>1 DEF nextTime
<1> DEFINE d == Overlap * Period
<1>10. nextTime' \in Int /\ placed(pts) <= nextTime' + d /\ t <= nextTime' /\ d \in Nat
    <2> DEFINE L == latency' * Period
               K == latency * Period
               C == ChunkLen' * Period
    <2>1. L \in Nat /\ K \in Nat /\ K <= L
        <3> DEFINE m == latency'
                   P == Period
        <3>1. m \in Int /\ latency \in Int /\ latency <= m /\ 0 <= latency /\ P \in Nat
            BY <1>2, PeriodIsPositive
        <3> HIDE DEF m, P
        <3>2. latency * P <= m * P /\ 0 * P <= latency * P /\ m * P \in Int /\ latency * P \in Int
            BY <3>1, Ordered
        <3>3. latency * P \in Nat /\ m * P \in Nat
            BY <3>1, <3>2
        <3> QED BY <3>2, <3>3 DEF m, P
    <2>2. C \in Nat /\ d \in Nat /\ Cushion <= C + d /\ Cushion \in Nat
        <3> DEFINE n == ChunkLen'
        <3>1. n \in Nat /\ Cushion <= n * Period + Overlap * Period
            BY <1>8
        <3> HIDE DEF n
        <3>2. n * Period \in Nat /\ Overlap * Period \in Nat
            BY <3>1, OverlapIs, PeriodIsPositive
        <3>3. Cushion \in Nat
            BY SinkAssumption
        <3> QED BY <3>1, <3>2, <3>3 DEF n
    <2>3. nextTime' = L + (pts + C) /\ placed(pts) <= pts + L + Cushion /\ t <= pts + K
        BY <1>2, <1>9
    <2> HIDE DEF L, K, C, d
    <2> QED BY <1>2, <2>1, <2>2, <2>3
<1> DEFINE n == timestamp_to_index(nextTime')
<1>11. n \in Int /\ timestamp_to_index(t) <= n
    BY <1>10, IndicesAreMonotone
<1>12. i <= n + Overlap
    <2>1. timestamp_to_index(nextTime' + d) = n + Overlap
        BY <1>10, OverlapIs, LaterIndex
    <2>2. nextTime' + d \in Int
        BY <1>10
    <2> QED BY <1>2, <1>10, <2>1, <2>2, IndicesAreMonotone DEF i
<1>13. timestamp_to_index(nextTime)' = n
    BY DEF timestamp_to_index
<1>14. SentUpTo(n)
    BY <1>5, <1>11, SentUpToMore
<1> HIDE DEF n
<1>15. SentUpTo(timestamp_to_index(nextTime))'
    BY <1>13, <1>14 DEF SentUpTo, Follows
<1>16. Follows(piece.cmd, timestamp_to_index(nextTime))'
    BY <1>1, <1>12, <1>13 DEF Follows
<1> QED BY <1>7, <1>15, <1>16 DEF StreamOrder

\* What is sent is in order from the flow to the buffer that comes next.
LEMMA StepKeepsStreamOrder ==
    ASSUME SinkInv, SinkTypes', PieceInv', ThreadsInv', [Next]_vars
    PROVE  StreamOrder'
<1> USE DEF SinkInv
<1>1. /\ media' = media /\ Period' = Period /\ BufferLen' = BufferLen
      /\ Overlap' = Overlap /\ Overlap \in Nat
    BY UnitsStay, OverlapIs
<1>2. timestamp_to_index(nextTime)' = timestamp_to_index(nextTime')
    BY <1>1 DEF timestamp_to_index
<1>3. ASSUME ~Streaming' PROVE StreamOrder'
    BY <1>3 DEF StreamOrder
<1>4. nextTime \in Int /\ nextTime >= -1 /\ nextTime' \in Int /\ nextTime' >= -1
    BY NextTimeIsTime, NextTimeNext
<1>5. engine \in [Runs -> Engines] /\ top \in Indices
    BY DEF SinkTypes
<1>6. ASSUME UNCHANGED <<initial, latency, count, piece>> PROVE nextTime' = nextTime
    BY <1>1, <1>6 DEF nextTime, ChunkLen
\* Nothing but the engines of other runs moves.
<1>7. ASSUME UNCHANGED <<initial, latency, count, piece, run, top>>, Streaming' => Streaming,
             Streaming => /\ engine'[run].cmd = engine[run].cmd
                          /\ engine'[run].q = engine[run].q
      PROVE  StreamOrder'
    <2>1. SUFFICES ASSUME Streaming', Streaming PROVE StreamOrder'
        BY <1>3, <1>7
    <2>2. nextTime' = nextTime
        BY <1>6, <1>7
    <2> DEFINE n == timestamp_to_index(nextTime)
    <2>3. /\ SentUpTo(n)
          /\ piece.cmd # Undefined => SentUpTo(piece.cmd) /\ Follows(piece.cmd, n)
        BY <2>1 DEF StreamOrder
    <2>4. n' = n
        BY <1>2, <2>2
    <2> HIDE DEF n
    <2>5. SentUpTo(n)'
        BY <1>1, <1>7, <2>1, <2>3, <2>4 DEF SentUpTo, Follows
    <2>6. SentUpTo(piece.cmd) => SentUpTo(piece.cmd)'
        BY <1>1, <1>7, <2>1 DEF SentUpTo, Follows
    <2>7. Follows(piece.cmd, n) => Follows(piece.cmd, n)'
        BY <1>1, <1>7, <2>4 DEF Follows
    <2> QED BY <1>7, <2>3, <2>5, <2>6, <2>7 DEF StreamOrder, n
<1>8. CASE start
    BY <1>3, <1>8 DEF start, ThreadsInv, Streaming
<1>9. CASE set_caps
    <2>1. piece = NoPiece /\ run \in Runs /\ UNCHANGED <<run, initial, latency, count, piece>>
        BY <1>9 DEF set_caps, ThreadsInv, stateVars
    <2>2. CASE element' # "playing"
        BY <1>3, <2>1, <2>2 DEF Streaming
    <2>3. CASE element' = "playing"
        <3> DEFINE e == [NoEngine EXCEPT !.st = "recv", !.tx = TRUE]
        <3>1. top' = Undefined /\ engine' = [engine EXCEPT ![run] = e]
            BY <1>9, <2>3 DEF set_caps, init_state_with_video, init_state_with_audio,
                init_state_with_data, init_state, OpenFlow
        <3>2. e.q = <<>> /\ e.cmd = Undefined
            BY NewEngine
        <3> HIDE DEF e
        <3>3. engine'[run'] = e
            BY <1>5, <2>1, <3>1
        <3>4. Len(e.q) = 0
            BY <3>2
        <3>5. timestamp_to_index(nextTime') \in Int /\ timestamp_to_index(nextTime') >= -1
            BY <1>4, IndicesAreMonotone
        <3>6. SentUpTo(timestamp_to_index(nextTime))'
            BY <1>1, <1>2, <3>1, <3>2, <3>3, <3>4, <3>5 DEF SentUpTo, Follows, Undefined
        <3>7. piece'.cmd = Undefined
            BY <2>1 DEF NoPiece
        <3> QED BY <3>6, <3>7 DEF StreamOrder
    <2> QED BY <2>2, <2>3
<1>10. CASE rejectWriter
    <2>1. piece' = NoPiece /\ element' = "failed"
        BY <1>10 DEF rejectWriter, ThreadsInv, stateVars
    <2> QED BY <1>3, <2>1 DEF Streaming
<1>11. CASE unlock \/ Tick \/ UNCHANGED vars
    BY <1>7, <1>11 DEF unlock, Tick, vars, stateVars, flowVars, Streaming
<1>12. CASE stop
    BY <1>3, <1>12 DEF stop, stateVars, Streaming
<1>13. CASE video \/ audio \/ data
    <2> DEFINE X == (count * BufferLen) * Period
               L == latency * Period
    <2>1. /\ X + initial' \in Nat /\ initial' \in Nat /\ initial <= initial'
          /\ count' = count + 1
          /\ element = "playing" /\ piece = NoPiece
          /\ UNCHANGED <<media, now, element, run, engine, flowVars>>
          /\ \/ media # "audio" /\ place(X + initial', 1)
             \/ /\ media = "audio" /\ latency' = latency
                /\ piece' = [pts |-> X + initial', left |-> BufLen, cmd |-> Undefined]
        BY <1>13, RenderSteps
    <2>2. run \in Runs /\ UNCHANGED <<run, engine, top>>
        BY <2>1 DEF ThreadsInv, flowVars
    <2>3. SentUpTo(timestamp_to_index(nextTime))
        BY <2>1 DEF StreamOrder, Streaming, NoPiece
    <2>4. nextTime = L + (X + initial)
        BY <2>1 DEF nextTime, NoPiece
    <2>5. X \in Nat /\ L \in Nat /\ initial \in Int
        <3>1. X \in Nat BY <2>1, BufferTime
        <3>2. L \in Nat BY PeriodIsPositive DEF SinkTypes
        <3> QED BY <3>1, <3>2 DEF SinkTypes, Indices, Undefined
    <2>6. nextTime <= (X + initial') + L
        <3> DEFINE i == initial'
        <3>1. i \in Nat /\ initial <= i
            BY <2>1
        <3> HIDE DEF X, L, i
        <3>2. L + (X + initial) <= (X + i) + L
            BY <2>5, <3>1
        <3> QED BY <2>4, <3>2 DEF i
    <2>7. CASE media # "audio"
        <3> DEFINE pts == X + initial'
        <3> HIDE DEF X
        <3>1. pts \in Nat /\ place(pts, 1) /\ nextTime <= pts + latency * Period
            BY <2>1, <2>6, <2>7
        <3> HIDE DEF pts
        <3> QED BY <1>1, <1>4, <2>2, <2>3, <3>1, PlacedInOrder
    <2>8. CASE media = "audio"
        <3>1. /\ piece'.pts = X + initial' /\ piece'.left = BufLen /\ piece'.cmd = Undefined
              /\ latency' = latency /\ BufLen # 0
            BY <2>1, <2>8, SinkAssumption
        <3>2. nextTime' = L + (X + initial')
            BY <1>1, <3>1 DEF nextTime
        <3>3. nextTime <= nextTime'
            <4> HIDE DEF X, L
            <4> QED BY <2>1, <2>5, <2>6, <3>2
        <3>4. /\ timestamp_to_index(nextTime) \in Int /\ timestamp_to_index(nextTime') \in Int
              /\ timestamp_to_index(nextTime) <= timestamp_to_index(nextTime')
            BY <1>4, <3>3, IndicesAreMonotone
        <3>5. SentUpTo(timestamp_to_index(nextTime'))
            BY <2>2, <2>3, <3>4, SentUpToMore
        <3>6. SentUpTo(timestamp_to_index(nextTime))'
            BY <1>1, <1>2, <2>2, <3>5 DEF SentUpTo, Follows
        <3> QED BY <3>1, <3>6 DEF StreamOrder
    <2> QED BY <2>7, <2>8
<1>14. CASE audioPiece
    <2>1. /\ piece.left > 0 /\ piece.cmd = Undefined /\ place(piece.pts, piece.left)
          /\ UNCHANGED <<run, engine, top>> /\ piece.pts \in Nat /\ piece.left \in Nat
        BY <1>14 DEF audioPiece, flowVars, SinkTypes
    <2>2. piece # NoPiece
        BY <2>1 DEF NoPiece
    <2>3. run \in Runs /\ SentUpTo(timestamp_to_index(nextTime))
        BY <2>1, <2>2 DEF ThreadsInv, StreamOrder, Streaming
    <2>4. nextTime = latency * Period + piece.pts
        BY <2>1 DEF nextTime
    <2>5. nextTime <= piece.pts + latency * Period
        <3> DEFINE L == latency * Period
        <3>1. L \in Nat BY PeriodIsPositive DEF SinkTypes
        <3>2. nextTime = L + piece.pts BY <2>4
        <3> HIDE DEF L
        <3>3. nextTime <= piece.pts + L BY <2>1, <3>1, <3>2
        <3> QED BY <3>3 DEF L
    <2> QED BY <1>1, <1>4, <2>1, <2>3, <2>5, PlacedInOrder
<1>15. CASE Sends
    <2>1. /\ piece.left > 0 /\ piece.cmd # Undefined /\ piece' = Rest
          /\ engine' = [engine EXCEPT ![run].q = Append(@, piece.cmd)]
          /\ UNCHANGED <<run, top, initial, latency, count>>
        BY <1>15 DEF Sends, send, flowVars
    <2>2. piece # NoPiece
        BY <2>1 DEF NoPiece
    <2>3. /\ run \in Runs /\ SentUpTo(timestamp_to_index(nextTime))
          /\ Follows(piece.cmd, timestamp_to_index(nextTime))
        BY <2>1, <2>2 DEF ThreadsInv, StreamOrder, Streaming
    <2> DEFINE X == (count * BufferLen) * Period
               L == latency * Period
               C == ChunkLen * Period
    <2>4. nextTime = L + (piece.pts + C)
        BY <2>1 DEF nextTime
    <2>5. nextTime' = nextTime
        <3>1. CASE piece.left = ChunkLen
            <4>1. piece'.left = 0
                BY <2>1, <3>1 DEF Rest, NoPiece
            <4>2. nextTime' = L + (X + initial)
                BY <1>1, <2>1, <4>1 DEF nextTime
            <4>3. piece.pts + C = X + initial
                BY <2>1, <3>1 DEF PieceInv
            <4> QED BY <2>4, <4>2, <4>3
        <3>2. CASE piece.left # ChunkLen
            <4>1. ChunkLen \in Nat /\ piece.left \in Nat
                BY <2>1, Chunks DEF SinkTypes
            <4>2. piece'.pts = piece.pts + C /\ piece'.left # 0 /\ piece'.cmd = Undefined
                BY <2>1, <3>2, <4>1 DEF Rest
            <4>3. nextTime' = L + (piece.pts + C)
                BY <1>1, <2>1, <4>2 DEF nextTime
            <4> QED BY <2>4, <4>3
        <3> QED BY <3>1, <3>2
    <2> DEFINE n == timestamp_to_index(nextTime)
               q == engine[run].q
               c == piece.cmd
    <2>6. n \in Int /\ c \in Nat /\ q \in Seq(Nat)
        BY <1>4, <1>5, <2>1, <2>3, IndicesAreMonotone DEF SinkTypes, Indices, Engines
    <2>7. engine'[run].q = Append(q, c) /\ engine'[run].cmd = engine[run].cmd
        BY <1>5, <2>1, <2>3 DEF Engines
    <2>8. SentUpTo(n) /\ Follows(c, n)
        BY <2>3
    <2>9. n' = n /\ piece'.cmd = Undefined
        BY <1>2, <2>1, <2>5 DEF Rest, NoPiece
    <2>10. \A k \in 1..Len(Append(q, c)) : Follows(Append(q, c)[k], n)
        <3>1. \A k \in 1..Len(q) : Follows(q[k], n)
            BY <2>8 DEF SentUpTo
        <3> HIDE DEF q, c, n
        <3>2. /\ Len(Append(q, c)) = Len(q) + 1 /\ Len(q) \in Nat
              /\ \A k \in 1..Len(q) : Append(q, c)[k] = q[k]
              /\ Append(q, c)[Len(q) + 1] = c
            BY <2>6
        <3>3. \A k \in 1..(Len(q) + 1) : k \in 1..Len(q) \/ k = Len(q) + 1
            BY <3>2
        <3> QED BY <2>8, <3>1, <3>2, <3>3
    <2> HIDE DEF q, c, n
    <2>11. SentUpTo(n)'
        BY <1>1, <2>1, <2>7, <2>8, <2>9, <2>10 DEF SentUpTo, Follows
    <2> QED BY <2>9, <2>11 DEF StreamOrder, n
<1>16. CASE renderFails
    <2>1. piece # NoPiece
        BY <1>16 DEF renderFails, NoPiece
    <2>2. piece' = NoPiece /\ element' # "playing"
        BY <1>16, <2>1 DEF renderFails
    <2> QED BY <1>3, <2>2 DEF Streaming
<1>17. ASSUME NEW r \in Runs, Engine(r) PROVE StreamOrder'
    <2>1. UNCHANGED <<element, run, initial, latency, count, piece>>
        BY <1>17, EngineSteps DEF stateVars
    <2>2. engine[r] \in Engines
        BY <1>5
    <2>3. SUFFICES ASSUME Streaming PROVE StreamOrder'
        BY <1>3, <2>1 DEF Streaming
    <2>4. run \in Runs /\ engine[run].tx /\ Active(run) /\ run \in holders
        BY <2>3 DEF ThreadsInv, Streaming
    <2>5. ASSUME Active(r) PROVE r = run
        BY <2>4, <2>5 DEF ThreadsInv, WriterInv, OneWriterPerFlow
    <2> DEFINE q == engine[run].q
               n == timestamp_to_index(nextTime)
    <2>6. q \in Seq(Nat) /\ n \in Int /\ n >= -1 /\ n' = n
        <3>1. n' = n
            BY <1>2, <1>6, <2>1
        <3> QED BY <1>4, <1>5, <2>4, <3>1, IndicesAreMonotone DEF Engines
    <2>7. piece.cmd \in Indices
        BY DEF SinkTypes
    \* The engine of the stream takes over what was sent, or commits it.
    <2>8. ASSUME \A i \in Int : i >= -1 /\ SentUpTo(i) => SentUpTo(i)' PROVE StreamOrder'
        <3>1. /\ SentUpTo(n)
              /\ piece.cmd # Undefined => SentUpTo(piece.cmd) /\ Follows(piece.cmd, n)
            BY <2>3 DEF StreamOrder
        <3> HIDE DEF n
        <3>2. SentUpTo(n)'
            BY <1>1, <2>6, <2>8, <3>1 DEF SentUpTo, Follows
        <3>3. piece.cmd # Undefined => SentUpTo(piece.cmd)'
            <4>1. piece.cmd \in Int /\ piece.cmd >= -1 /\ piece'.cmd = piece.cmd
                BY <2>1, <2>7 DEF Indices, Undefined
            <4> QED BY <1>1, <2>8, <3>1, <4>1 DEF SentUpTo, Follows
        <3>4. piece.cmd # Undefined => Follows(piece.cmd, n)'
            BY <1>1, <2>1, <2>6, <3>1 DEF Follows
        <3> QED BY <2>1, <3>2, <3>3, <3>4 DEF StreamOrder, n
    <2>9. CASE Receives(r)
        <3>1. r = run /\ q # <<>>
            BY <2>5, <2>9 DEF Receives, Active
        <3>2. engine'[run].q = Tail(q) /\ engine'[run].cmd = Head(q) /\ top' = top
            BY <1>5, <2>2, <2>9, <3>1 DEF Receives, Engines
        <3> HIDE DEF q
        <3>3. /\ Len(q) \in Nat /\ Len(q) >= 1 /\ Head(q) = q[1] /\ Len(Tail(q)) = Len(q) - 1
              /\ \A i \in 1..Len(Tail(q)) : Tail(q)[i] = q[i + 1]
            BY <2>6, <3>1
        <3>4. 1 \in 1..Len(q) /\ \A i \in 1..Len(Tail(q)) : i + 1 \in 1..Len(q)
            BY <3>3
        <3>5. ASSUME NEW i \in Int, SentUpTo(i) PROVE SentUpTo(i)'
            <4>1. Follows(top, i) /\ \A k \in 1..Len(q) : Follows(q[k], i)
                BY <3>5 DEF SentUpTo, q
            <4>2. /\ Follows(top', i) /\ Follows(Head(q), i)
                  /\ \A k \in 1..Len(Tail(q)) : Follows(Tail(q)[k], i)
                BY <3>2, <3>3, <3>4, <4>1
            <4> QED BY <1>1, <2>1, <3>2, <4>2 DEF SentUpTo, Follows
        <3> QED BY <2>8, <3>5
    <2>10. CASE Ends(r)
        <3>1. r = run
            BY <2>5, <2>10 DEF Ends, Active
        <3>2. engine'[run].q = q /\ engine'[run].cmd = Undefined /\ top' \in {top, engine[run].cmd}
            BY <1>5, <2>2, <2>10, <3>1 DEF Ends, written, Engines
        <3>3. ASSUME NEW i \in Int, i >= -1, SentUpTo(i) PROVE SentUpTo(i)'
            <4>1. /\ Follows(top, i) /\ Follows(engine[run].cmd, i)
                  /\ \A k \in 1..Len(q) : Follows(q[k], i)
                BY <3>3 DEF SentUpTo
            <4>2. Follows(top', i)
                BY <3>2, <4>1
            <4>3. Follows(Undefined, i)
                BY <1>1, <3>3 DEF Follows, Undefined
            <4> HIDE DEF q
            <4> QED BY <1>1, <2>1, <3>2, <4>1, <4>2, <4>3 DEF SentUpTo, Follows
        <3> QED BY <2>8, <3>3
    <2>11. CASE Sleeps(r)
        <3>1. engine'[run].q = q /\ engine'[run].cmd = engine[run].cmd /\ top' = top
            BY <1>5, <2>2, <2>4, <2>11 DEF Sleeps, Engines
        <3> QED BY <1>7, <2>1, <2>3, <3>1
    <2>12. CASE destroy(r)
        <3>1. r # run
            BY <2>4, <2>12 DEF destroy
        <3>2. engine'[run] = engine[run] /\ top' = top
            BY <1>5, <2>4, <2>12, <3>1 DEF destroy, CloseFlow
        <3> QED BY <1>7, <2>1, <2>3, <3>2
    <2> QED BY <1>17, <2>9, <2>10, <2>11, <2>12, EngineSteps
<1> QED BY <1>8, <1>9, <1>10, <1>11, <1>12, <1>13, <1>14, <1>15, <1>16, <1>17, SendingSteps
    DEF Next

\* A commit follows all that was committed before it.
LEMMA StepKeepsHead ==
    ASSUME SinkInv, [Next]_vars
    PROVE  Follows(top, head)'
<1> USE DEF SinkInv
<1>1. Overlap' = Overlap /\ Overlap \in Nat
    BY UnitsStay, OverlapIs
<1>2. ASSUME UNCHANGED <<head, top>> PROVE Follows(top, head)'
    BY <1>1, <1>2 DEF Follows
<1>3. CASE start \/ rejectWriter \/ unlock \/ stop \/ Tick \/ UNCHANGED vars
    BY <1>2, <1>3 DEF start, rejectWriter, CloseFlow, unlock, stop, Tick, flowVars, vars
<1>4. CASE set_caps
    <2>1. UNCHANGED <<head, top>> \/ (head' = Undefined /\ top' = Undefined)
        BY <1>4 DEF set_caps, init_state_with_video, init_state_with_audio,
            init_state_with_data, init_state, OpenFlow, flowVars
    <2>2. ASSUME head' = Undefined, top' = Undefined PROVE Follows(top, head)'
        BY <1>1, <2>2 DEF Follows, Undefined
    <2> QED BY <1>2, <2>1, <2>2
<1>5. CASE video \/ audio \/ data
    BY <1>2, <1>5 DEF video, audio, data, render, flowVars
<1>6. CASE Sending
    BY <1>2, <1>6 DEF Sending, audioPiece, sendPiece, commit_video, commit_data, send,
        renderFails, flowVars
<1>7. ASSUME NEW r \in Runs, Engine(r) PROVE Follows(top, head)'
    <2>1. CASE Receives(r) \/ Sleeps(r) \/ destroy(r)
        BY <1>2, <2>1 DEF Receives, Sleeps, destroy, CloseFlow
    <2>2. CASE Ends(r)
        <3>1. Active(r) /\ engine[r].cmd # Undefined
            BY <2>2 DEF Ends, Active, ThreadsInv
        <3>2. Follows(top, engine[r].cmd) /\ engine[r].cmd \in Int
            BY <3>1 DEF EngineOrder, SinkTypes, Engines, Indices, Undefined
        <3>3. CASE head' = engine[r].cmd /\ top' \in {top, engine[r].cmd}
            <4>1. Follows(engine[r].cmd, engine[r].cmd)
                BY <1>1, <3>2 DEF Follows
            <4> QED BY <1>1, <3>2, <3>3, <4>1 DEF Follows
        <3> QED BY <1>2, <2>2, <3>3 DEF Ends
    <2> QED BY <1>7, <2>1, <2>2, EngineSteps
<1> QED BY <1>3, <1>4, <1>5, <1>6, <1>7 DEF Next

LEMMA SinkInvHolds == Spec => []SinkInv
<1>1. Init => SinkInv
    <2> SUFFICES ASSUME Init PROVE SinkInv
        OBVIOUS
    <2>1. WriterInv
        BY DEF Init, WriterInv, HeldFlowExists, OneWriterPerFlow
    <2>2. <<>> \in Seq(Nat) /\ Undefined \in Indices
        BY DEF Indices
    <2>3. NoEngine \in Engines /\ NoEngine.st = "none"
        BY <2>2 DEF NoEngine, Engines
    <2>4. NoPiece \in [pts : Nat, left : Nat, cmd : Indices] /\ NoPiece.left = 0
        BY <2>2 DEF NoPiece
    <2>5. SinkTypes
        BY <2>2, <2>3, <2>4 DEF Init, SinkTypes
    <2>6. \A r \in Runs : engine[r].st = "none"
        BY <2>3 DEF Init
    <2>7. ThreadsInv /\ EngineOrder
        BY <2>6 DEF Init, ThreadsInv, EngineOrder, Active, Streaming
    <2>8. PieceInv /\ StreamOrder
        BY <2>4 DEF Init, PieceInv, StreamOrder, Streaming
    <2>9. Follows(top, head)
        BY OverlapIs DEF Init, Follows, Undefined
    <2> QED BY <2>1, <2>5, <2>7, <2>8, <2>9 DEF SinkInv
<1>2. SinkInv /\ [Next]_vars => SinkInv'
    <2> SUFFICES ASSUME SinkInv, [Next]_vars PROVE SinkInv'
        OBVIOUS
    <2>1. WriterInv'
        BY StepKeepsOneWriter DEF SinkInv
    <2>2. SinkTypes'
        BY StepKeepsTypes DEF SinkInv
    <2>3. ThreadsInv' /\ PieceInv'
        BY StepKeepsThreads, StepKeepsPiece DEF SinkInv
    <2>4. EngineOrder'
        BY StepKeepsEngineOrder
    <2>5. StreamOrder'
        BY <2>2, <2>3, StepKeepsStreamOrder
    <2>6. Follows(top, head)'
        BY StepKeepsHead
    <2> QED BY <2>1, <2>2, <2>3, <2>4, <2>5, <2>6 DEF SinkInv
<1> QED BY <1>1, <1>2, PTL DEF Spec

\* For every length of a buffer, a piece, a period and the cushion: however late
\* buffers come and however often the element restarts, the head of the flow lies
\* behind the highest committed index by no more than the cushion that a late
\* piece alone gets (render_audio.rs:105) exceeds the shortest piece.
THEOREM HeadRetreatsByTheCushion == Spec => []HeadRetreatIsBounded
<1>1. SinkInv => HeadRetreatIsBounded
    BY DEF SinkInv, Follows, HeadRetreatIsBounded
<1> QED BY <1>1, SinkInvHolds, PTL

\* Lateness does not accumulate: render() places what it sends less than one and
\* a half periods behind the clock, after any delays.
THEOREM PiecesArePlacedNearNow == Spec => PlacedNearNow
<1> DEFINE A == piece.cmd = Undefined /\ piece'.cmd # Undefined =>
                    index_to_timestamp(piece'.cmd) > now - Period - Period \div 2
<1>1. SinkInv /\ [Next]_vars => [A]_vars
    <2> SUFFICES ASSUME SinkInv, Next, piece.cmd = Undefined, piece'.cmd # Undefined
                 PROVE  index_to_timestamp(piece'.cmd) > now - Period - Period \div 2
        OBVIOUS
    <2>1. SinkTypes /\ PieceInv
        BY DEF SinkInv
    <2>2. ASSUME NEW pts \in Nat, NEW left, place(pts, left)
          PROVE  index_to_timestamp(piece'.cmd) > now - Period - Period \div 2
        <3>1. piece'.cmd = timestamp_to_index(placed(pts))
            BY <2>2 DEF place
        <3> QED BY <2>1, <3>1, PlacedIndexIsNear
    <2>3. ~(piece' = piece)
        OBVIOUS
    <2>4. piece' # NoPiece
        BY DEF NoPiece
    <2>5. CASE video \/ audio \/ data
        <3> DEFINE pts == (count * BufferLen) * Period + initial'
        <3>1. /\ pts \in Nat
              /\ \/ place(pts, 1)
                 \/ piece' = [pts |-> pts, left |-> BufLen, cmd |-> Undefined]
            BY <2>1, <2>5, RenderSteps
        <3> HIDE DEF pts
        <3> QED BY <2>2, <3>1
    <2>6. CASE audioPiece
        <3>1. piece.pts \in Nat
            BY <2>1 DEF SinkTypes
        <3> QED BY <2>2, <2>6, <3>1 DEF audioPiece
    <2>7. CASE Sending
        BY <2>1, <2>4, <2>6, <2>7, SendingSteps DEF Sends, send, renderFails
    <2>8. ~(start \/ set_caps \/ rejectWriter \/ unlock \/ stop \/ Tick)
        BY <2>3 DEF start, set_caps, rejectWriter, unlock, stop, Tick, stateVars
    <2>9. ~(\E r \in Runs : Engine(r))
        BY <2>3, EngineSteps DEF stateVars
    <2> QED BY <2>5, <2>7, <2>8, <2>9 DEF Next
<1>2. Spec => [][Next]_vars
    BY PTL DEF Spec
<1>3. PlacedNearNow <=> [][A]_vars
    BY PTL DEF PlacedNearNow
<1> QED BY <1>1, <1>2, <1>3, SinkInvHolds, PTL

-----------------------------------------------------------------------------
(* The tools that feed a flow: FlowProducers.                                    *)

(* --- Indices and timestamps ----------------------------------------------- *)

\* Half a period, as timestampToIndex rounds it: a live timestamp is less off.
LEMMA HalfPeriod ==
    /\ IndexPeriod \div 2 \in Nat
    /\ IndexPeriod \div 2 + Jitter < IndexPeriod /\ Jitter <= IndexPeriod \div 2
    BY ProducerAssumption

\* timestampToIndex undoes indexToTimestamp, and an error of less than half a
\* period does not change the index.
LEMMA RoundedIndex ==
    ASSUME NEW k \in Int, NEW t \in Int,
           k * IndexPeriod - Jitter <= t, t <= k * IndexPeriod + Jitter
    PROVE  timestampToIndex(t) = k
<1>1. k * IndexPeriod \in Int
    BY ProducerAssumption
<1>2. t + IndexPeriod \div 2 \in Int
    BY HalfPeriod
<1>3. k * IndexPeriod <= t + IndexPeriod \div 2 /\ t + IndexPeriod \div 2 < k * IndexPeriod + IndexPeriod
    BY <1>1, HalfPeriod, ProducerAssumption
<1> QED BY <1>2, <1>3, IntQuotientIs, ProducerAssumption DEF timestampToIndex

\* A timestamp that is moved by whole periods has an index moved by as many.
LEMMA ShiftedIndex ==
    ASSUME NEW x \in Int, NEW k \in Int
    PROVE  /\ timestampToIndex(x) \in Int
           /\ timestampToIndex(x + k * IndexPeriod) = timestampToIndex(x) + k
<1> DEFINE a == x + IndexPeriod \div 2
           d == a \div IndexPeriod
<1>1. a \in Int /\ IndexPeriod \in Nat /\ IndexPeriod > 0
    BY HalfPeriod, ProducerAssumption
<1> HIDE DEF a
<1>2. d \in Int /\ d * IndexPeriod <= a /\ a < d * IndexPeriod + IndexPeriod
    BY <1>1, Quotient
<1> HIDE DEF d
<1>3. /\ k * IndexPeriod \in Int /\ d * IndexPeriod \in Int
      /\ (d + k) * IndexPeriod = d * IndexPeriod + k * IndexPeriod
    BY <1>1, <1>2
<1>4. (a + k * IndexPeriod) \div IndexPeriod = d + k
    BY <1>1, <1>2, <1>3, IntQuotientIs
<1>5. x + k * IndexPeriod + IndexPeriod \div 2 = a + k * IndexPeriod
    BY <1>3, HalfPeriod DEF a
<1> QED BY <1>2, <1>4, <1>5 DEF timestampToIndex, d, a

(* --- The invariant --------------------------------------------------------- *)

\* The index that belongs to position 0 of the stream.
Place(b) == timestampToIndex(b)
Player(medium) == app.tool = "looping" /\ app.media = medium

ProducerTypes ==
    /\ app \in Apps /\ base \in Int /\ wrap \in Int /\ last \in Nat
    /\ next \in Int /\ first \in Int /\ pos \in Nat /\ drops \in Nat /\ faults \in Nat

NothingYet ==
    status \in {"setup", "ready"} =>
        /\ wrap = 0 /\ last = 0 /\ pos = 0 /\ drops = 0
        /\ next = NoIndex /\ first = NoIndex /\ DOMAIN flow = {}

\* start() aligns the pipeline with an index.
BaseIsAligned ==
    app.tool = "testsrc" /\ status = "running" => base = indexToTimestamp(StartIndex)

\* Live timestamps rise, so that pull() never adds an offset to them.
LiveStamps ==
    app.source = "live" =>
        wrap = 0 /\ (last = 0 \/ last <= (pos - 1) * IndexPeriod + Jitter)

\* The offset of a looped file is the length of the loops that are over.
FileStamps ==
    app.source = "file" /\ app.tool = "testsrc" =>
        /\ last = 0 \/ last <= (pos - 1) * IndexPeriod
        /\ pos = 0 => wrap = 0
        /\ pos % FileLen # 0 => wrap = (pos - (pos % FileLen)) * IndexPeriod
        /\ pos % FileLen = 0 /\ pos # 0 =>
               /\ last = (pos - 1) * IndexPeriod
               /\ wrap = (pos - FileLen) * IndexPeriod

PlayerStamps == app.tool = "looping" => wrap = 0

FirstIsKnown ==
    /\ first = NoIndex => next = NoIndex /\ DOMAIN flow = {} /\ (drops = 0 => pos = 0)
    /\ first # NoIndex => Place(base) + pos >= 1 /\ (drops = 0 => first = Place(base))
    /\ next = NoIndex \/ next >= 1

\* Nothing is committed from the pipeline's index on, and what was counted is
\* below the expected one.
FlowIsBehind ==
    \A i \in DOMAIN flow :
        /\ i \in Int /\ i < Actual(Place(base) + pos)
        /\ next # NoIndex /\ flow[i].counted => i < Actual(next)

DataIsInPlace ==
    \A i \in DOMAIN flow :
        flow[i].kind = "data" => flow[i].pos \in Int /\ i - flow[i].pos = Actual(Place(base))

\* A thread that missed nothing expects what comes next.
NothingIsMissing ==
    drops = 0 /\ faults = 0 /\ first # NoIndex /\ ~Player("audio") =>
        /\ next = first + pos
        /\ \A i \in Actual(first)..Actual(next) - 1 :
              i \in DOMAIN flow /\ flow[i].kind = "data"

StampInv == LiveStamps /\ FileStamps /\ PlayerStamps
ProducerInv ==
    /\ ProducerTypes /\ NothingYet /\ BaseIsAligned /\ StampInv
    /\ FirstIsKnown /\ FlowIsBehind /\ DataIsInPlace /\ NothingIsMissing

(* --- One iteration --------------------------------------------------------- *)

Found(pts) == timestampToIndex(base' + pts + wrap')
Expected(g) == IF next = NoIndex THEN g ELSE next

\* What is committed of a buffer and in the place of what is missing.
Buffer(n, size, slices) ==
    [i \in Actual(n)..Actual(n + size) - 1 |->
        [kind |-> "data", pos |-> pos + i - Actual(n), slices |-> slices,
         counted |-> i < Actual(n + Unit)]]
Filler(n, upto, kind) ==
    [i \in Actual(n)..Actual(upto) - 1 |->
        [kind |-> kind, pos |-> NoIndex, slices |-> 0, counted |-> TRUE]]

\* What an iteration that expects n and finds g leaves behind.
Outcome(n, g, size) ==
    \/ flow' = flow /\ next' \in {NoIndex, n, n + Unit}
    \/ /\ g = n
       /\ \E s \in 1..size, slices \in Nat : flow' = committed(n, s, slices)
       /\ next' = n + Unit
    \/ /\ g > n
       /\ \E upto \in n..g, kind \in {"invalid", "silence"} :
             /\ flow' = overwrite(Filler(n, upto, kind))
             /\ next' = upto + Unit

\* Without a fault the buffer that is expected is written.
Faultless(n, g, size) ==
    /\ faults' \in {faults, faults + 1}
    /\ g = n /\ faults \in Nat /\ faults' = 0 /\ ~Player("audio") =>
          next' = n + size /\ \E slices \in Nat : flow' = committed(n, size, slices)

Stamp(pts) == IF app.tool = "testsrc" THEN pull(pts) ELSE adjustPts(pts)

Iterates(pts, size) ==
    /\ status = "running"
    /\ Stamp(pts)
    /\ first' = IF first = NoIndex THEN Found(pts) ELSE first
    /\ pos' = pos + size
    /\ UNCHANGED <<app, exit, drops>>
    /\ status' \in {"running", "broken"}
    /\ Outcome(Expected(Found(pts)), Found(pts), size)
    /\ Faultless(Expected(Found(pts)), Found(pts), size)

Thread == runVideo \/ runAudio \/ videoThread \/ audioThread

UnitIs == Unit \in Nat /\ Unit >= 1

LEMMA SizesFit ==
    /\ UnitIs
    /\ \A size \in Sizes : size \in Nat /\ size >= 1
    /\ ~Player("audio") => Sizes = {Unit}
<1>1. UnitIs
    BY ProducerAssumption DEF UnitIs, Unit
<1>2. CASE Player("audio")
    BY <1>1, <1>2, ProducerAssumption DEF Player, Sizes, Unit, UnitIs
<1>3. CASE ~Player("audio")
    BY <1>1, <1>3 DEF Player, Sizes, UnitIs
<1> QED BY <1>1, <1>2, <1>3

\* What the loops have in common, with the operators of each in place.
Branch(n, g, size) ==
    \/ g < n /\ (timeWentBackward(n, g) \/ resetDrift(n, g))
    \/ g > n /\ (fillInvalid(n, g) \/ fillSilence(n, g))
    \/ /\ g = n
       /\ \/ writeSamples(n, size) \/ leaveLoop(n) \/ skipUnmapped(n)
          \/ app.media = "video" /\ (writeGrain(n, size) \/ writeSlices(n, size))

Body(pts, size) ==
    /\ Stamp(pts)
    /\ Branch(Expected(Found(pts)), Found(pts), size)
    /\ first' = IF first = NoIndex THEN Found(pts) ELSE first
    /\ pos' = pos + size

LEMMA ThreadBody ==
    ASSUME Thread
    PROVE  \E pts \in RawPts, size \in Sizes : Body(pts, size)
<1>1. CASE runVideo
    BY <1>1, Zenon DEF runVideo, iterate, Body, Stamp, Branch, Found, Expected
<1>2. CASE runAudio
    BY <1>2, Zenon DEF runAudio, iterate, Body, Stamp, Branch, Found, Expected
<1>3. CASE videoThread
    BY <1>3, Zenon DEF videoThread, iterate, Body, Stamp, Branch, Found, Expected
<1>4. CASE audioThread
    BY <1>4, Zenon DEF audioThread, iterate, Body, Stamp, Branch, Found, Expected
<1> QED BY <1>1, <1>2, <1>3, <1>4 DEF Thread

\* What the branches of the loops do to the flow and the expected index.
LEMMA BehindOutcome ==
    ASSUME NEW n, NEW g, NEW size, timeWentBackward(n, g) \/ resetDrift(n, g)
    PROVE  Outcome(n, g, size) /\ faults' = faults /\ status' = status
    BY DEF timeWentBackward, resetDrift, Outcome

LEMMA FailedOutcome ==
    ASSUME NEW n, NEW g, NEW size, skipUnmapped(n) \/ leaveLoop(n)
    PROVE  Outcome(n, g, size) /\ faults' = faults + 1 /\ status' \in {status, "broken"}
    BY DEF skipUnmapped, leaveLoop, Outcome, fault

LEMMA FilledOutcome ==
    ASSUME NEW n, NEW g, NEW size, g > n,
           fillInvalid(n, g) \/ fillSilence(n, g)
    PROVE  Outcome(n, g, size) /\ faults' \in {faults, faults + 1} /\ status' = status
<1>1. PICK upto \in n..g, kind \in {"invalid", "silence"} : fill(n, upto, g, kind)
    BY DEF fillInvalid, fillSilence
<1>2. faults' \in {faults, faults + 1} /\ status' = status
    BY <1>1 DEF fill, fault
<1> QED BY <1>1, <1>2 DEF fill, Outcome, Filler

LEMMA SamplesOutcome ==
    ASSUME NEW n, NEW size \in Sizes, writeSamples(n, size)
    PROVE  /\ Outcome(n, n, size) /\ faults' = faults /\ status' = status
           /\ ~Player("audio") =>
                 next' = n + size /\ \E slices \in Nat : flow' = committed(n, size, slices)
<1>1. flow' = committed(n, size, 0) /\ next' = n + Unit
    BY DEF writeSamples
<1>2. size \in 1..size
    BY SizesFit
<1>3. Outcome(n, n, size)
    BY <1>1, <1>2 DEF Outcome
<1>4. ~Player("audio") => size = Unit
    BY SizesFit
<1> QED BY <1>1, <1>3, <1>4 DEF writeSamples

LEMMA GrainOutcome ==
    ASSUME NEW n, NEW size \in Sizes, app.media = "video", writeGrain(n, size)
    PROVE  /\ Outcome(n, n, size) /\ faults' = faults /\ status' = status
           /\ next' = n + size /\ \E slices \in Nat : flow' = committed(n, size, slices)
<1>1. size = 1 /\ Unit = 1
    BY DEF Sizes, Unit
<1>2. flow' = committed(n, 1, Slices) /\ next' = n + 1 /\ Slices \in Nat
    BY ProducerAssumption DEF writeGrain
<1> QED BY <1>1, <1>2 DEF writeGrain, Outcome

LEMMA SlicesOutcome ==
    ASSUME NEW n, NEW size \in Sizes, app.media = "video", writeSlices(n, size)
    PROVE  /\ Outcome(n, n, size) /\ faults' \in {faults, faults + 1} /\ status' = status
           /\ next' = n + size
           /\ faults \in Nat /\ faults' = 0 =>
                 \E slices \in Nat : flow' = committed(n, size, slices)
<1>1. size = 1 /\ Unit = 1
    BY DEF Sizes, Unit
<1>2. PICK valid \in Nat : /\ IF valid = Slices THEN faults' = faults ELSE fault
                           /\ flow' = IF valid = 0 THEN flow ELSE committed(n, 1, valid)
    <2>1. PICK batches \in 0..((Slices + SliceBatch - 1) \div SliceBatch) :
              LET valid == IF batches * SliceBatch > Slices THEN Slices ELSE batches * SliceBatch
              IN  /\ IF valid = Slices THEN faults' = faults ELSE fault
                  /\ flow' = IF valid = 0 THEN flow ELSE committed(n, 1, valid)
        BY DEF writeSlices
    <2>2. batches * SliceBatch \in Nat /\ Slices \in Nat
        BY ProducerAssumption
    <2> QED BY <2>1, <2>2
<1>3. faults' \in {faults, faults + 1} /\ (faults \in Nat /\ faults' = 0 => valid = Slices)
    BY <1>2 DEF fault
<1>4. next' = n + 1 /\ status' = status
    BY DEF writeSlices
<1>5. faults \in Nat /\ faults' = 0 => \E slices \in Nat : flow' = committed(n, size, slices)
    BY <1>1, <1>2, <1>3, ProducerAssumption
<1>6. next' = n + Unit
    BY <1>1, <1>4
<1>7. flow' = flow \/ flow' = committed(n, 1, valid)
    BY <1>2
<1>8. Outcome(n, n, size)
    <2>1. CASE flow' = flow
        BY <1>6, <2>1, Zenon DEF Outcome
    <2>2. CASE flow' = committed(n, 1, valid)
        <3>1. 1 \in 1..size
            BY <1>1
        <3> QED BY <1>6, <2>2, <3>1, Zenon DEF Outcome
    <2> QED BY <1>7, <2>1, <2>2
<1>9. next' = n + size
    BY <1>1, <1>4
<1> QED BY <1>3, <1>4, <1>5, <1>8, <1>9

LEMMA BranchOutcome ==
    ASSUME NEW n \in Int, NEW g \in Int, NEW size \in Sizes, Branch(n, g, size)
    PROVE  status' \in {status, "broken"} /\ Outcome(n, g, size) /\ Faultless(n, g, size)
<1>1. CASE g < n /\ (timeWentBackward(n, g) \/ resetDrift(n, g))
    <2>1. Outcome(n, g, size) /\ faults' = faults /\ status' = status
        BY <1>1, BehindOutcome
    <2> QED BY <1>1, <2>1 DEF Faultless
<1>2. CASE g > n /\ (fillInvalid(n, g) \/ fillSilence(n, g))
    <2>1. Outcome(n, g, size) /\ faults' \in {faults, faults + 1} /\ status' = status
        BY <1>2, FilledOutcome
    <2> QED BY <1>2, <2>1 DEF Faultless
<1>3. CASE g = n /\ (leaveLoop(n) \/ skipUnmapped(n))
    <2>1. Outcome(n, g, size) /\ faults' = faults + 1 /\ status' \in {status, "broken"}
        BY <1>3, FailedOutcome
    <2> QED BY <2>1 DEF Faultless
<1>4. CASE g = n /\ writeSamples(n, size)
    <2>1. /\ Outcome(n, n, size) /\ faults' = faults /\ status' = status
          /\ ~Player("audio") =>
                next' = n + size /\ \E slices \in Nat : flow' = committed(n, size, slices)
        BY <1>4, SamplesOutcome
    <2> QED BY <1>4, <2>1, Zenon DEF Faultless
<1>5. CASE g = n /\ app.media = "video" /\ writeGrain(n, size)
    <2>1. /\ Outcome(n, n, size) /\ faults' = faults /\ status' = status
          /\ next' = n + size /\ \E slices \in Nat : flow' = committed(n, size, slices)
        BY <1>5, GrainOutcome
    <2> QED BY <1>5, <2>1, Zenon DEF Faultless
<1>6. CASE g = n /\ app.media = "video" /\ writeSlices(n, size)
    <2>1. /\ Outcome(n, n, size) /\ faults' \in {faults, faults + 1} /\ status' = status
          /\ next' = n + size
          /\ faults \in Nat /\ faults' = 0 =>
                \E slices \in Nat : flow' = committed(n, size, slices)
        BY <1>6, SlicesOutcome
    <2> QED BY <1>6, <2>1, Zenon DEF Faultless
<1> QED BY <1>1, <1>2, <1>3, <1>4, <1>5, <1>6 DEF Branch

\* Timestamps and what the tools make of them are integers.
LEMMA StampTypes ==
    ASSUME ProducerTypes, NEW pts \in RawPts, Stamp(pts)
    PROVE  /\ pts \in Nat /\ base' \in Int /\ wrap' \in Int /\ last' \in Int
           /\ Found(pts) \in Int /\ Expected(Found(pts)) \in Int
<1>1. pts \in Nat
    <2>1. CASE app.source = "live"
        BY <2>1, ProducerAssumption DEF RawPts, ProducerTypes
    <2>2. CASE app.source # "live"
        <3>1. pos % FileLen \in Nat /\ pos \in Nat /\ IndexPeriod \in Nat
            BY ProducerAssumption DEF ProducerTypes
        <3>2. (pos % FileLen) * IndexPeriod \in Nat /\ pos * IndexPeriod \in Nat
            BY <3>1
        <3> QED BY <2>2, <3>2 DEF RawPts
    <2> QED BY <2>1, <2>2
<1>2. base' \in Int /\ wrap' \in Int /\ last' \in Int
    <2>1. CASE app.tool = "testsrc"
        BY <1>1, <2>1, ProducerAssumption DEF Stamp, pull, pullOffset, ProducerTypes
    <2>2. CASE app.tool # "testsrc"
        <3>1. indexToTimestamp(StartIndex) \in Int
            BY ProducerAssumption DEF indexToTimestamp, StartIndex
        <3> QED BY <1>1, <2>2, <3>1, ProducerAssumption DEF Stamp, adjustPts, ProducerTypes
    <2> QED BY <2>1, <2>2
<1>3. base' + pts + wrap' \in Int
    BY <1>1, <1>2
<1>4. Found(pts) \in Int
    BY <1>3, ShiftedIndex DEF Found
<1> QED BY <1>1, <1>2, <1>4 DEF Expected, ProducerTypes

LEMMA ThreadIterates ==
    ASSUME Thread, ProducerTypes
    PROVE  \E pts \in RawPts, size \in Sizes : Iterates(pts, size)
<1>1. status = "running" /\ UNCHANGED <<app, exit, drops>>
    BY DEF Thread, runVideo, runAudio, videoThread, audioThread, iterate
<1>2. PICK pts \in RawPts, size \in Sizes : Body(pts, size)
    BY ThreadBody
<1>3. Expected(Found(pts)) \in Int /\ Found(pts) \in Int
    BY <1>2, StampTypes DEF Body
<1>4. /\ status' \in {status, "broken"}
      /\ Outcome(Expected(Found(pts)), Found(pts), size)
      /\ Faultless(Expected(Found(pts)), Found(pts), size)
    BY <1>2, <1>3, BranchOutcome DEF Body
<1>5. Iterates(pts, size)
    BY <1>1, <1>2, <1>4 DEF Body, Iterates
<1> QED BY <1>5

(* --- Timestamps follow the stream ------------------------------------------ *)

LEMMA Remainder ==
    ASSUME NEW a \in Nat, NEW b \in Nat, b > 0
    PROVE  /\ a \div b \in Nat /\ a % b \in Nat /\ a % b < b
           /\ a = (a \div b) * b + (a % b)
    BY SMT

\* The next position of a loop is the next frame or the first one.
LEMMA NextRemainder ==
    ASSUME NEW a \in Nat, NEW b \in Nat, b > 1
    PROVE  (a + 1) % b = IF a % b = b - 1 THEN 0 ELSE (a % b) + 1
<1> DEFINE d == a \div b
           r == a % b
<1>1. r \in Nat /\ r < b /\ a = d * b + r /\ d \in Int
    BY Remainder, Quotient
<1>2. d * b \in Int /\ (d + 1) * b = d * b + b
    BY <1>1, Next1
<1> HIDE DEF d, r
<1>3. CASE r = b - 1
    <2>1. (a + 1) \div b = d + 1
        BY <1>1, <1>2, <1>3, IntQuotientIs
    <2>2. a + 1 = ((a + 1) \div b) * b + ((a + 1) % b) /\ (a + 1) % b \in Nat
        <3>1. a + 1 \in Nat /\ b > 0
            OBVIOUS
        <3> QED BY <3>1, Remainder
    <2> QED BY <1>1, <1>2, <1>3, <2>1, <2>2 DEF r
<1>4. CASE r # b - 1
    <2>1. (a + 1) \div b = d
        BY <1>1, <1>2, <1>4, IntQuotientIs
    <2>2. a + 1 = ((a + 1) \div b) * b + ((a + 1) % b) /\ (a + 1) % b \in Nat
        <3>1. a + 1 \in Nat /\ b > 0
            OBVIOUS
        <3> QED BY <3>1, Remainder
    <2> QED BY <1>1, <1>2, <1>4, <2>1, <2>2 DEF r
<1> QED BY <1>3, <1>4

\* What an iteration knows: the buffer's index is its place in the stream.
Placed(pts) ==
    /\ Found(pts) = Place(base') + pos /\ Place(base') \in Int /\ Place(base') + pos >= 1
    /\ first # NoIndex => base' = base

\* Aligned, the base time stands for the index of position 0.
LEMMA AlignedPlace ==
    ASSUME ProducerTypes, BaseIsAligned, status = "running", app.tool = "testsrc"
    PROVE  /\ Place(base) = StartIndex /\ StartIndex \in Nat /\ StartIndex >= 1
           /\ base = StartIndex * IndexPeriod /\ base \in Int
<1>1. StartIndex \in Nat /\ StartIndex >= 1
    BY ProducerAssumption DEF StartIndex
<1>2. base = StartIndex * IndexPeriod
    BY DEF BaseIsAligned, indexToTimestamp
<1>3. timestampToIndex(base) = StartIndex
    BY <1>1, <1>2, RoundedIndex, ProducerAssumption DEF ProducerTypes
<1> QED BY <1>1, <1>2, <1>3 DEF Place, ProducerTypes

LEMMA LiveIteration ==
    ASSUME ProducerTypes, BaseIsAligned, LiveStamps, app.source = "live",
           NEW pts \in RawPts, NEW size \in Sizes, Iterates(pts, size)
    PROVE  Placed(pts) /\ base' = base /\ last' \in Nat /\ LiveStamps'
<1>1. app.tool = "testsrc" /\ status = "running"
    BY DEF ProducerTypes, Apps, Iterates
<1>2. /\ pts \in Nat /\ pos \in Nat /\ IndexPeriod \in Nat /\ Jitter \in Nat
      /\ 2 * Jitter < IndexPeriod /\ pos * IndexPeriod \in Int
      /\ pts >= pos * IndexPeriod - Jitter /\ pts <= pos * IndexPeriod + Jitter
    BY ProducerAssumption DEF RawPts, ProducerTypes
<1>3. (pos - 1) * IndexPeriod = pos * IndexPeriod - IndexPeriod
    BY <1>2, Next1
<1>4. wrap' = 0 /\ last' = pts /\ base' = base
    BY <1>1, <1>2, <1>3 DEF Iterates, Stamp, pull, pullOffset, LiveStamps, ProducerTypes
<1>5. Place(base) = StartIndex /\ StartIndex \in Nat /\ StartIndex >= 1 /\ base = StartIndex * IndexPeriod
    BY <1>1, AlignedPlace
<1>6. Place(base') = Place(base)
    BY <1>4 DEF Place, timestampToIndex
<1>7. (StartIndex + pos) * IndexPeriod = StartIndex * IndexPeriod + pos * IndexPeriod
      /\ StartIndex * IndexPeriod \in Int
    BY <1>2, <1>5
<1>8. timestampToIndex(base' + pts + wrap') = StartIndex + pos
    <2>1. StartIndex + pos \in Int /\ base' + pts + wrap' = base + pts /\ base + pts \in Int
        BY <1>2, <1>4, <1>5, <1>7
    <2> QED BY <1>2, <1>5, <1>7, <2>1, RoundedIndex
<1>9. Placed(pts)
    BY <1>2, <1>4, <1>5, <1>6, <1>8 DEF Placed, Found
<1>10. LiveStamps'
    <2>1. pos' = pos + size /\ size \in Nat /\ size >= 1
        BY SizesFit DEF Iterates
    <2>2. pos * IndexPeriod <= (pos' - 1) * IndexPeriod /\ (pos' - 1) * IndexPeriod \in Int
        BY <1>2, <2>1, Ordered
    <2> QED BY <1>2, <1>4, <2>2 DEF LiveStamps
<1> QED BY <1>2, <1>4, <1>9, <1>10

LEMMA FileIteration ==
    ASSUME ProducerTypes, BaseIsAligned, FileStamps,
           app.source = "file", app.tool = "testsrc",
           NEW pts \in RawPts, NEW size \in Sizes, Iterates(pts, size)
    PROVE  Placed(pts) /\ base' = base /\ last' \in Nat /\ FileStamps'
<1> DEFINE r == pos % FileLen
<1>1. size = 1 /\ pos' = pos + 1 /\ UNCHANGED app /\ status = "running"
    BY SizesFit DEF ProducerTypes, Apps, Iterates, Player, Sizes, Unit
<1>2. /\ r \in Nat /\ r < FileLen /\ pos \in Nat /\ IndexPeriod \in Nat /\ IndexPeriod > 0
      /\ FileLen \in Nat /\ FileLen > 1 /\ last \in Nat /\ wrap \in Int
    BY Remainder, ProducerAssumption DEF ProducerTypes
<1>3. pts = r * IndexPeriod
    BY DEF RawPts
<1>4. (pos + 1) % FileLen = IF r = FileLen - 1 THEN 0 ELSE r + 1
    BY <1>2, NextRemainder
<1>5. r <= pos
    <2>1. pos = (pos \div FileLen) * FileLen + r /\ pos \div FileLen \in Nat
        BY <1>2, Remainder, SMT
    <2>2. (pos \div FileLen) * FileLen \in Nat
        BY <1>2, <2>1
    <2> HIDE DEF r
    <2> QED BY <1>2, <2>1, <2>2
<1>6. /\ last = 0 \/ last <= (pos - 1) * IndexPeriod
      /\ pos = 0 => wrap = 0
      /\ r # 0 => wrap = (pos - r) * IndexPeriod
      /\ r = 0 /\ pos # 0 => /\ last = (pos - 1) * IndexPeriod
                             /\ wrap = (pos - FileLen) * IndexPeriod
    BY Zenon DEF FileStamps
<1>7. wrap' = pullOffset(pts) /\ last' = pts + pullOffset(pts) /\ base' = base
    BY DEF Iterates, Stamp, pull
<1> HIDE DEF r
<1>8. /\ pos * IndexPeriod \in Nat /\ r * IndexPeriod \in Nat
      /\ (pos - r) * IndexPeriod = pos * IndexPeriod - r * IndexPeriod
      /\ (pos - 1) * IndexPeriod = pos * IndexPeriod - IndexPeriod
    BY <1>2
<1>9. wrap' = pos * IndexPeriod - r * IndexPeriod
    <2>1. CASE r # 0
        <3>1. wrap = pos * IndexPeriod - r * IndexPeriod
            BY <1>6, <1>8, <2>1
        <3>2. ~(pts + wrap <= last /\ last # 0)
            BY <1>2, <1>3, <1>6, <1>8, <3>1
        <3> QED BY <1>7, <3>1, <3>2 DEF pullOffset
    <2>2. CASE r = 0 /\ pos = 0
        <3>1. last = 0 /\ wrap = 0 /\ pos * IndexPeriod = 0 /\ r * IndexPeriod = 0
            BY <1>2, <1>6, <2>2
        <3> QED BY <1>7, <3>1 DEF pullOffset
    <2>3. CASE r = 0 /\ pos # 0
        <3>1. r * IndexPeriod = 0 /\ pts = 0
            BY <1>2, <1>3, <2>3
        <3>2. last = pos * IndexPeriod - IndexPeriod
            BY <1>6, <1>8, <2>3
        <3>3. wrap <= last
            <4>1. (pos - FileLen) * IndexPeriod <= (pos - 1) * IndexPeriod
                BY <1>2, Ordered
            <4> QED BY <1>6, <2>3, <4>1
        <3>4. last # 0
            <4>1. FileLen <= pos
                BY <1>2, <2>3 DEF r
            <4>2. IndexPeriod <= (pos - 1) * IndexPeriod
                <5>1. 1 <= pos - 1
                    BY <1>2, <4>1
                <5>2. 1 * IndexPeriod <= (pos - 1) * IndexPeriod
                    BY <1>2, <5>1, Ordered
                <5> QED BY <1>2, <5>2
            <4> QED BY <1>2, <1>6, <2>3, <4>2
        <3> QED BY <1>2, <1>7, <1>8, <3>1, <3>2, <3>3, <3>4 DEF pullOffset
    <2> QED BY <2>1, <2>2, <2>3
<1>10. last' = pos * IndexPeriod /\ pts + wrap' = pos * IndexPeriod
    BY <1>3, <1>7, <1>8, <1>9
<1>11. Placed(pts)
    <2>1. /\ Place(base) = StartIndex /\ StartIndex \in Nat /\ StartIndex >= 1
          /\ base \in Int
        BY <1>1, AlignedPlace
    <2>2. Place(base') = Place(base)
        BY <1>7 DEF Place, timestampToIndex
    <2>3. timestampToIndex(base + pos * IndexPeriod) = Place(base) + pos
        <3>1. pos \in Int
            BY <1>2
        <3> QED BY <2>1, <3>1, ShiftedIndex, Zenon DEF Place
    <2>4. base' + pts + wrap' = base + pos * IndexPeriod
        BY <1>3, <1>7, <1>8, <1>9, <2>1
    <2> QED BY <1>2, <1>7, <2>1, <2>2, <2>3, <2>4 DEF Placed, Found
<1>12. FileStamps'
    <2>1. (pos' - 1) * IndexPeriod = pos * IndexPeriod /\ pos' # 0
        BY <1>1, <1>2
    <2>2. CASE r = FileLen - 1
        <3>1. pos' % FileLen = 0
            BY <1>1, <1>2, <1>4, <2>2
        <3>2. wrap' = (pos' - FileLen) * IndexPeriod
            <4>1. pos' - FileLen = pos - r
                BY <1>1, <1>2, <2>2
            <4> QED BY <1>8, <1>9, <4>1
        <3> QED BY <1>8, <1>10, <2>1, <3>1, <3>2 DEF FileStamps
    <2>3. CASE r # FileLen - 1
        <3>1. pos' % FileLen = r + 1
            BY <1>1, <1>2, <1>4, <2>3
        <3>2. wrap' = (pos' - (r + 1)) * IndexPeriod
            <4>1. pos' - (r + 1) = pos - r
                BY <1>1, <1>2
            <4> QED BY <1>8, <1>9, <4>1
        <3>3. wrap' = (pos' - (pos' % FileLen)) * IndexPeriod /\ pos' % FileLen # 0
            BY <1>2, <3>1, <3>2
        <3>4. last' <= (pos' - 1) * IndexPeriod
            BY <1>8, <1>10, <2>1
        <3> QED BY <2>1, <3>3, <3>4 DEF FileStamps
    <2> QED BY <2>2, <2>3
<1> QED BY <1>7, <1>8, <1>10, <1>11, <1>12

LEMMA PlayerIteration ==
    ASSUME ProducerTypes, PlayerStamps, FirstIsKnown, app.tool = "looping",
           NEW pts \in RawPts, NEW size \in Sizes, Iterates(pts, size)
    PROVE  Placed(pts) /\ base' \in Int /\ last' \in Nat /\ PlayerStamps'
<1>1. pts = pos * IndexPeriod /\ pos \in Nat /\ pts \in Int
    BY ProducerAssumption DEF ProducerTypes, Apps, RawPts
<1>2. wrap' = wrap /\ last' = last /\ wrap = 0 /\ app' = app
    BY DEF Iterates, Stamp, adjustPts, PlayerStamps
<1>3. base' \in Int
    BY StampTypes DEF Iterates
<1>4. Place(base') = timestampToIndex(base')
    BY DEF Place, timestampToIndex
<1>5. Found(pts) = Place(base') + pos /\ Place(base') \in Int
    <2>1. base' + pts + wrap' = base' + pos * IndexPeriod
        BY <1>1, <1>2, <1>3
    <2> QED BY <1>1, <1>3, <1>4, <2>1, ShiftedIndex DEF Found
<1>6. CASE first # NoIndex
    <2>1. base' = base
        BY <1>6 DEF Iterates, Stamp, adjustPts
    <2>2. Place(base') = Place(base)
        BY <2>1 DEF Place, timestampToIndex
    <2> QED BY <1>2, <1>3, <1>5, <1>6, <2>1, <2>2
            DEF Placed, FirstIsKnown, PlayerStamps, ProducerTypes
<1>7. CASE first = NoIndex
    <2>1. PICK phase \in 0..IndexPeriod - 1 :
              base' = indexToTimestamp(StartIndex) + phase - pts
        BY <1>7 DEF Iterates, Stamp, adjustPts
    <2>2. StartIndex \in Nat /\ StartIndex >= 1 /\ StartIndex * IndexPeriod \in Int
        BY ProducerAssumption DEF StartIndex
    <2>3. phase \in Int /\ phase >= 0 /\ timestampToIndex(phase) \in Int /\ timestampToIndex(phase) >= 0
        <3>1. phase \in Nat /\ phase + IndexPeriod \div 2 \in Nat
            BY HalfPeriod, ProducerAssumption
        <3>2. (phase + IndexPeriod \div 2) \div IndexPeriod \in Nat
            BY <3>1, ProducerAssumption
        <3> QED BY <3>1, <3>2 DEF timestampToIndex
    <2>4. base' + pts + wrap' = phase + StartIndex * IndexPeriod
        BY <1>1, <1>2, <2>1, <2>2, <2>3 DEF indexToTimestamp
    <2>5. Found(pts) = timestampToIndex(phase) + StartIndex
        BY <2>2, <2>3, <2>4, ShiftedIndex DEF Found
    <2>6. Place(base') + pos >= 1
        BY <1>5, <2>2, <2>3, <2>5
    <2>7. last' \in Nat /\ PlayerStamps'
        BY <1>2 DEF PlayerStamps, ProducerTypes
    <2> QED BY <1>3, <1>5, <1>7, <2>6, <2>7 DEF Placed
<1> QED BY <1>6, <1>7

\* Whatever the source, a buffer's index is its place in the stream.
LEMMA StampIteration ==
    ASSUME ProducerInv, NEW pts \in RawPts, NEW size \in Sizes, Iterates(pts, size)
    PROVE  /\ Placed(pts) /\ base' \in Int /\ last' \in Nat /\ wrap' \in Int /\ StampInv'
           /\ app.tool = "testsrc" => base' = base
<1>1. app' = app /\ wrap' \in Int /\ base' \in Int
    BY StampTypes DEF Iterates, ProducerInv
<1>2. app.tool = "testsrc" \/ app.tool = "looping"
    BY DEF ProducerInv, ProducerTypes, Apps
<1>3. CASE app.source = "live"
    <2>1. Placed(pts) /\ base' = base /\ last' \in Nat /\ LiveStamps'
        BY <1>3, LiveIteration DEF ProducerInv, StampInv
    <2>2. app.tool = "testsrc"
        BY <1>3 DEF ProducerInv, ProducerTypes, Apps
    <2> QED BY <1>1, <1>3, <2>1, <2>2 DEF StampInv, FileStamps, PlayerStamps
<1>4. CASE app.source # "live" /\ app.tool = "testsrc"
    <2>1. app.source = "file"
        BY <1>4 DEF ProducerInv, ProducerTypes, Apps
    <2>2. Placed(pts) /\ base' = base /\ last' \in Nat /\ FileStamps'
        BY <1>4, <2>1, FileIteration DEF ProducerInv, StampInv
    <2> QED BY <1>1, <1>4, <2>1, <2>2 DEF StampInv, LiveStamps, PlayerStamps
<1>5. CASE app.source # "live" /\ app.tool = "looping"
    <2>1. Placed(pts) /\ last' \in Nat /\ PlayerStamps'
        BY <1>5, PlayerIteration DEF ProducerInv, StampInv
    <2> QED BY <1>1, <1>5, <2>1 DEF StampInv, LiveStamps, FileStamps
<1> QED BY <1>2, <1>3, <1>4, <1>5

(* --- What is committed ----------------------------------------------------- *)

LEMMA ActualIs ==
    ASSUME NEW i \in Int
    PROVE  /\ Actual(i) \in Int
           /\ \A j \in Int : /\ Actual(i + j) = Actual(i) + j
                             /\ i <= j => Actual(i) <= Actual(j)
    BY ProducerAssumption DEF Actual

\* A commit keeps what the flow has under other indices.
LEMMA OverwriteIs ==
    ASSUME NEW entries, flow' = overwrite(entries)
    PROVE  /\ DOMAIN flow' = DOMAIN entries \cup DOMAIN flow
           /\ \A i \in DOMAIN flow : i \notin DOMAIN entries => flow'[i] = flow[i]
           /\ \A i \in DOMAIN entries : flow'[i] = entries[i]
    BY DEF overwrite

\* The flow ends below the index an iteration finds, and what was counted below
\* the one it expects.
LEMMA FlowEndsBelow ==
    ASSUME ProducerInv, NEW pts \in RawPts, NEW size \in Sizes, Iterates(pts, size)
    PROVE  /\ Found(pts) \in Int /\ Found(pts) >= 1
           /\ Expected(Found(pts)) \in Int /\ Expected(Found(pts)) >= 1
           /\ \A i \in DOMAIN flow :
                 /\ i \in Int /\ i < Actual(Found(pts))
                 /\ flow[i].counted => i < Actual(Expected(Found(pts)))
<1>1. Placed(pts)
    BY StampIteration
<1>2. Found(pts) \in Int /\ Found(pts) >= 1 /\ Found(pts) = Place(base') + pos
    BY <1>1 DEF Placed, ProducerInv, ProducerTypes
<1>3. CASE first = NoIndex
    BY <1>2, <1>3 DEF ProducerInv, FirstIsKnown, Expected
<1>4. CASE first # NoIndex
    <2>1. Place(base') = Place(base)
        BY <1>1, <1>4 DEF Placed, Place, timestampToIndex
    <2>2. \A i \in DOMAIN flow : /\ i \in Int /\ i < Actual(Found(pts))
                                 /\ next # NoIndex /\ flow[i].counted => i < Actual(next)
        BY <1>2, <2>1 DEF ProducerInv, FlowIsBehind
    <2> QED BY <1>2, <2>2 DEF Expected, ProducerInv, ProducerTypes, FirstIsKnown
<1> QED BY <1>3, <1>4

\* A buffer or filler enters the flow below the indices that come next, and a
\* buffer where its place in the stream says.
Entered(i) ==
    /\ i \in Int /\ i < Actual(Place(base') + pos')
    /\ flow'[i].counted => i < Actual(next')
    /\ flow'[i].kind = "data" =>
          flow'[i].pos \in Int /\ i - flow'[i].pos = Actual(Place(base'))

\* What the flow has stays, but for silence over what was not counted.
Kept(i) == i \in DOMAIN flow' /\ (flow'[i] = flow[i] \/ (~flow[i].counted /\ flow'[i].kind # "data"))
Stayed(i) == i \in DOMAIN flow /\ flow'[i] = flow[i]

LEMMA BufferIs ==
    ASSUME NEW n, NEW size, NEW slices
    PROVE  /\ DOMAIN Buffer(n, size, slices) = Actual(n)..Actual(n + size) - 1
           /\ committed(n, size, slices) = overwrite(Buffer(n, size, slices))
           /\ \A i \in DOMAIN Buffer(n, size, slices) :
                 /\ Buffer(n, size, slices)[i].pos = pos + i - Actual(n)
                 /\ Buffer(n, size, slices)[i].counted => i < Actual(n + Unit)
    BY DEF Buffer, committed

LEMMA FillerIs ==
    ASSUME NEW n, NEW upto, NEW kind \in {"invalid", "silence"}
    PROVE  /\ DOMAIN Filler(n, upto, kind) = Actual(n)..Actual(upto) - 1
           /\ \A i \in DOMAIN Filler(n, upto, kind) : Filler(n, upto, kind)[i].kind # "data"
    BY DEF Filler

\* The buffer that is expected enters the flow; what the flow has is below it.
LEMMA BufferEnters ==
    ASSUME ProducerInv, NEW pts \in RawPts, NEW size \in Sizes, Iterates(pts, size),
           NEW n, n = Found(pts), NEW s \in 1..size, NEW slices \in Nat,
           flow' = committed(n, s, slices), next' = n + Unit
    PROVE  /\ \A i \in DOMAIN flow : i \in DOMAIN flow' /\ flow'[i] = flow[i]
           /\ \A i \in DOMAIN flow' : Stayed(i) \/ Entered(i)
<1> DEFINE entries == Buffer(n, s, slices)
<1>1. n \in Int /\ \A i \in DOMAIN flow : i \in Int /\ i < Actual(n)
    BY FlowEndsBelow
<1>2. n = Place(base') + pos /\ Place(base') \in Int /\ pos \in Nat
    BY StampIteration DEF Placed, ProducerInv, ProducerTypes
<1>3. pos' = pos + size /\ size \in Nat /\ size >= 1 /\ Unit \in Nat
    BY SizesFit DEF Iterates, UnitIs
<1>4. /\ flow' = overwrite(entries) /\ DOMAIN entries = Actual(n)..Actual(n + s) - 1
      /\ \A i \in DOMAIN entries : /\ entries[i].pos = pos + i - Actual(n)
                                   /\ entries[i].counted => i < Actual(n + Unit)
    BY BufferIs
<1>5. /\ Actual(n) \in Int /\ Actual(n + s) = Actual(n) + s
      /\ Actual(n + Unit) = Actual(n) + Unit /\ Actual(Place(base')) \in Int
      /\ Actual(Place(base') + pos) = Actual(Place(base')) + pos
      /\ Actual(Place(base') + pos') = Actual(Place(base')) + pos'
    <2>1. /\ n \in Int /\ s \in Int /\ Unit \in Int
          /\ Place(base') \in Int /\ pos \in Int /\ pos' \in Int
        BY <1>1, <1>2, <1>3
    <2> QED BY <2>1, ActualIs, Zenon
<1> HIDE DEF entries
<1>6. \A i \in DOMAIN flow : i \notin DOMAIN entries
    BY <1>1, <1>4, <1>5
<1>7. ASSUME NEW i \in DOMAIN entries
      PROVE  Entered(i)
    <2>1. flow'[i] = entries[i]
        BY <1>4, OverwriteIs
    <2>2. i \in Int /\ i >= Actual(n) /\ i < Actual(n) + s
        BY <1>4, <1>5
    <2>3. i < Actual(Place(base') + pos')
        BY <1>2, <1>3, <1>5, <2>2
    <2>4. flow'[i].counted => i < Actual(next')
        BY <1>4, <2>1
    <2>5. flow'[i].pos \in Int /\ i - flow'[i].pos = Actual(Place(base'))
        <3>1. flow'[i].pos = pos + i - Actual(n)
            BY <1>4, <2>1
        <3>2. Actual(n) = Actual(Place(base')) + pos
            BY <1>2, <1>5
        <3> QED BY <1>2, <1>5, <2>2, <3>1, <3>2
    <2> QED BY <2>2, <2>3, <2>4, <2>5 DEF Entered
<1>8. /\ DOMAIN flow' = DOMAIN entries \cup DOMAIN flow
      /\ \A i \in DOMAIN flow : i \notin DOMAIN entries => flow'[i] = flow[i]
    BY <1>4, OverwriteIs
<1>9. \A i \in DOMAIN flow : i \in DOMAIN flow' /\ flow'[i] = flow[i]
    BY <1>6, <1>8
<1> QED BY <1>7, <1>8, <1>9 DEF Stayed

\* Filler covers what is below the index found, so no more than what was not
\* counted.
LEMMA FillerEnters ==
    ASSUME ProducerInv, NEW pts \in RawPts, NEW size \in Sizes, Iterates(pts, size),
           NEW n, n = Expected(Found(pts)), Found(pts) > n,
           NEW upto \in n..Found(pts), NEW kind \in {"invalid", "silence"},
           flow' = overwrite(Filler(n, upto, kind)), next' = upto + Unit
    PROVE  /\ \A i \in DOMAIN flow : Kept(i)
           /\ \A i \in DOMAIN flow' : Stayed(i) \/ Entered(i)
<1> DEFINE entries == Filler(n, upto, kind)
<1>1. /\ Found(pts) \in Int /\ n \in Int
      /\ \A i \in DOMAIN flow : i \in Int /\ (flow[i].counted => i < Actual(n))
    BY FlowEndsBelow
<1>2. Found(pts) = Place(base') + pos /\ Place(base') \in Int /\ pos \in Nat
    BY StampIteration DEF Placed, ProducerInv, ProducerTypes
<1>3. pos' = pos + size /\ size \in Nat /\ size >= 1 /\ Unit \in Nat /\ Unit >= 1
    BY SizesFit DEF Iterates, UnitIs
<1>4. /\ flow' = overwrite(entries) /\ DOMAIN entries = Actual(n)..Actual(upto) - 1
      /\ \A i \in DOMAIN entries : entries[i].kind # "data"
    BY FillerIs
<1>5. /\ Actual(n) \in Int /\ Actual(upto) \in Int /\ upto \in Int
      /\ Actual(upto + Unit) = Actual(upto) + Unit
      /\ Actual(upto) <= Actual(Place(base') + pos)
      /\ Actual(Place(base') + pos) = Actual(Place(base')) + pos
      /\ Actual(Place(base') + pos') = Actual(Place(base')) + pos' /\ Actual(Place(base')) \in Int
    <2>1. upto \in Int /\ upto <= Place(base') + pos /\ Place(base') + pos \in Int
        BY <1>1, <1>2
    <2>2. n \in Int /\ Unit \in Int /\ Place(base') \in Int /\ pos \in Int /\ pos' \in Int
        BY <1>1, <1>2, <1>3
    <2> QED BY <2>1, <2>2, ActualIs, Zenon
<1> HIDE DEF entries
<1>6. \A i \in DOMAIN entries : /\ flow'[i] = entries[i] /\ flow'[i].kind # "data"
                                /\ i \in Int /\ i >= Actual(n) /\ i < Actual(upto)
    <2>1. \A i \in DOMAIN entries : flow'[i] = entries[i]
        BY <1>4, OverwriteIs
    <2> QED BY <1>4, <1>5, <2>1
<1>7. ASSUME NEW i \in DOMAIN entries
      PROVE  Entered(i)
    <2>1. i < Actual(Place(base') + pos') /\ i < Actual(next')
        BY <1>2, <1>3, <1>5, <1>6
    <2> QED BY <1>6, <2>1 DEF Entered
<1>8. /\ DOMAIN flow' = DOMAIN entries \cup DOMAIN flow
      /\ \A i \in DOMAIN flow : i \notin DOMAIN entries => flow'[i] = flow[i]
    BY <1>4, OverwriteIs
<1>9. ASSUME NEW i \in DOMAIN flow, i \in DOMAIN entries
      PROVE  Kept(i)
    <2>1. ~flow[i].counted
        BY <1>1, <1>5, <1>6, <1>9
    <2> QED BY <1>6, <1>8, <1>9, <2>1 DEF Kept
<1>10. \A i \in DOMAIN flow : Kept(i)
    BY <1>8, <1>9 DEF Kept
<1> QED BY <1>7, <1>8, <1>10 DEF Stayed

LEMMA FlowGrows ==
    ASSUME ProducerInv, NEW pts \in RawPts, NEW size \in Sizes, Iterates(pts, size)
    PROVE  /\ next' \in Int /\ (next' = NoIndex \/ next' >= 1)
           /\ \A i \in DOMAIN flow : Kept(i)
           /\ \A i \in DOMAIN flow' : Stayed(i) \/ Entered(i)
           /\ Expected(Found(pts)) = Found(pts) => \A i \in DOMAIN flow : i \in DOMAIN flow' /\ flow'[i] = flow[i]
           /\ \/ /\ flow' = flow
                 /\ next' \in {NoIndex, Expected(Found(pts)), Expected(Found(pts)) + Unit}
              \/ next' >= Expected(Found(pts)) + Unit
<1> DEFINE g == Found(pts)
           n == Expected(g)
<1>1. g \in Int /\ g >= 1 /\ n \in Int /\ n >= 1
    BY FlowEndsBelow
<1>2. Unit \in Nat /\ Unit >= 1
    BY SizesFit DEF UnitIs
<1>3. Outcome(n, g, size)
    BY DEF Iterates
<1>4. CASE flow' = flow /\ next' \in {NoIndex, n, n + Unit}
    <2>1. /\ \A i \in DOMAIN flow : Kept(i) /\ i \in DOMAIN flow' /\ flow'[i] = flow[i]
          /\ \A i \in DOMAIN flow' : Stayed(i)
        BY <1>4 DEF Kept, Stayed
    <2> HIDE DEF g, n
    <2>2. next' \in Int /\ (next' = NoIndex \/ next' >= 1)
        BY <1>1, <1>2, <1>4 DEF NoIndex
    <2> QED BY <1>4, <2>1, <2>2 DEF n, g
<1>5. CASE /\ g = n
           /\ \E s \in 1..size, slices \in Nat : flow' = committed(n, s, slices)
           /\ next' = n + Unit
    <2>1. PICK s \in 1..size, slices \in Nat : flow' = committed(n, s, slices)
        BY <1>5
    <2>2. /\ \A i \in DOMAIN flow : i \in DOMAIN flow' /\ flow'[i] = flow[i]
          /\ \A i \in DOMAIN flow' : Stayed(i) \/ Entered(i)
        BY <1>5, <2>1, BufferEnters
    <2>3. \A i \in DOMAIN flow : Kept(i)
        BY <2>2 DEF Kept
    <2> HIDE DEF g, n
    <2>4. next' \in Int /\ next' >= 1 /\ next' >= n + Unit
        BY <1>1, <1>2, <1>5
    <2> QED BY <2>2, <2>3, <2>4 DEF n, g
<1>6. CASE /\ g > n
           /\ \E upto \in n..g, kind \in {"invalid", "silence"} :
                 /\ flow' = overwrite(Filler(n, upto, kind))
                 /\ next' = upto + Unit
    <2>1. PICK upto \in n..g, kind \in {"invalid", "silence"} :
                 /\ flow' = overwrite(Filler(n, upto, kind))
                 /\ next' = upto + Unit
        BY <1>6
    <2>2. /\ \A i \in DOMAIN flow : Kept(i)
          /\ \A i \in DOMAIN flow' : Stayed(i) \/ Entered(i)
        BY <1>6, <2>1, FillerEnters
    <2> HIDE DEF g, n
    <2>3. next' \in Int /\ next' >= 1 /\ next' >= n + Unit /\ g # n
        BY <1>1, <1>2, <1>6, <2>1
    <2> QED BY <2>2, <2>3 DEF n, g
<1> QED BY <1>3, <1>4, <1>5, <1>6 DEF Outcome

LEMMA CommittedIs ==
    ASSUME NEW n, NEW size, NEW slices, NEW i \in Actual(n)..Actual(n + size) - 1
    PROVE  i \in DOMAIN committed(n, size, slices) /\ committed(n, size, slices)[i].kind = "data"
    BY DEF committed, overwrite

(* --- The invariant is kept ------------------------------------------------- *)

LEMMA IterationMissesNothing ==
    ASSUME ProducerInv, NEW pts \in RawPts, NEW size \in Sizes, Iterates(pts, size),
           drops = 0, faults' = 0, ~Player("audio")
    PROVE  /\ next' = first' + pos'
           /\ \A i \in Actual(first')..Actual(next') - 1 :
                 i \in DOMAIN flow' /\ flow'[i].kind = "data"
<1> DEFINE g == Found(pts)
           n == Expected(g)
<1>1. /\ g \in Int /\ g >= 1 /\ n \in Int
      /\ n = g => \A i \in DOMAIN flow : i \in DOMAIN flow' /\ flow'[i] = flow[i]
    BY FlowEndsBelow, FlowGrows
<1>2. g = Place(base') + pos /\ (first # NoIndex => base' = base) /\ pos \in Nat /\ faults \in Nat
    BY StampIteration DEF Placed, ProducerInv, ProducerTypes
<1>3. /\ pos' = pos + size /\ size \in Nat /\ size >= 1
      /\ first' = IF first = NoIndex THEN g ELSE first
    BY SizesFit DEF Iterates
<1>4. Faultless(n, g, size)
    BY DEF Iterates
<1>5. faults = 0
    BY <1>2, <1>4 DEF Faultless
<1>6. g = n
    <2>1. CASE first = NoIndex
        BY <2>1 DEF ProducerInv, FirstIsKnown, Expected
    <2>2. CASE first # NoIndex
        <3>1. first = Place(base)
            BY <2>2 DEF ProducerInv, FirstIsKnown
        <3>2. next = first + pos
            BY <1>5, <2>2 DEF ProducerInv, NothingIsMissing
        <3>3. next = g
            BY <1>2, <2>2, <3>1, <3>2
        <3> QED BY <1>1, <3>3 DEF Expected, NoIndex
    <2> QED BY <2>1, <2>2
<1> HIDE DEF g, n
<1>7. PICK slices \in Nat : next' = n + size /\ flow' = committed(n, size, slices)
    BY <1>2, <1>4, <1>6 DEF Faultless
<1>8. CASE first = NoIndex
    <2>1. pos = 0
        BY <1>8 DEF ProducerInv, FirstIsKnown
    <2>2. first' = n /\ next' = n + size /\ pos' = size
        BY <1>2, <1>3, <1>6, <1>7, <1>8, <2>1
    <2> QED BY <1>7, <2>2, CommittedIs
<1>9. CASE first # NoIndex
    <2>1. /\ next = first + pos /\ first \in Int /\ next \in Int
          /\ \A i \in Actual(first)..Actual(next) - 1 : i \in DOMAIN flow /\ flow[i].kind = "data"
        BY <1>5, <1>9 DEF ProducerInv, NothingIsMissing, ProducerTypes
    <2>2. first = Place(base)
        BY <1>9 DEF ProducerInv, FirstIsKnown
    <2>3. next = n /\ first' = first
        BY <1>2, <1>3, <1>6, <1>9, <2>1, <2>2
    <2>4. next' = first' + pos'
        BY <1>2, <1>3, <1>7, <2>1, <2>3
    <2>5. ASSUME NEW i \in Actual(first)..Actual(n + size) - 1
          PROVE  i \in DOMAIN flow' /\ flow'[i].kind = "data"
        <3>1. Actual(n) \in Int /\ Actual(first) \in Int
            BY <1>1, <2>1, ActualIs
        <3>2. CASE i < Actual(n)
            BY <1>1, <1>6, <2>1, <2>3, <3>1, <3>2
        <3>3. CASE ~(i < Actual(n))
            <4>1. Actual(n + size) \in Int
                BY <1>1, <1>3, ActualIs
            <4>2. i \in Actual(n)..Actual(n + size) - 1
                BY <3>1, <3>3, <4>1
            <4> QED BY <1>7, <4>2, CommittedIs
        <3> QED BY <3>2, <3>3
    <2> QED BY <1>7, <2>3, <2>4, <2>5
<1> QED BY <1>8, <1>9

LEMMA IterationKeepsFirst ==
    ASSUME ProducerInv, NEW pts \in RawPts, NEW size \in Sizes, Iterates(pts, size)
    PROVE  ProducerTypes' /\ FirstIsKnown'
<1>1. Placed(pts) /\ base' \in Int /\ last' \in Nat /\ wrap' \in Int
    BY StampIteration
<1>2. /\ pos' = pos + size /\ size \in Nat /\ size >= 1 /\ app' = app /\ drops' = drops
      /\ first' = IF first = NoIndex THEN Found(pts) ELSE first
      /\ faults' \in {faults, faults + 1}
    BY SizesFit DEF Iterates, Faultless
<1>3. Found(pts) \in Int /\ Found(pts) >= 1 /\ next' \in Int /\ (next' = NoIndex \/ next' >= 1)
    BY FlowEndsBelow, FlowGrows
<1>4. ProducerTypes'
    BY <1>1, <1>2, <1>3 DEF ProducerInv, ProducerTypes
<1>5. first' # NoIndex
    BY <1>2, <1>3 DEF NoIndex
<1>6. Place(base') + pos' >= 1
    BY <1>1, <1>2 DEF Placed, ProducerInv, ProducerTypes
<1>7. drops = 0 => first' = Place(base')
    <2>1. CASE first = NoIndex
        BY <1>1, <1>2, <2>1 DEF Placed, ProducerInv, FirstIsKnown
    <2>2. CASE first # NoIndex
        BY <1>1, <1>2, <2>2 DEF Placed, ProducerInv, FirstIsKnown
    <2> QED BY <2>1, <2>2
<1> QED BY <1>2, <1>3, <1>4, <1>5, <1>6, <1>7 DEF FirstIsKnown

LEMMA IterationKeepsFlow ==
    ASSUME ProducerInv, NEW pts \in RawPts, NEW size \in Sizes, Iterates(pts, size)
    PROVE  FlowIsBehind' /\ DataIsInPlace'
<1> DEFINE n == Expected(Found(pts))
<1>1. Placed(pts) /\ Place(base') \in Int /\ pos \in Nat
    BY StampIteration DEF Placed, ProducerInv, ProducerTypes
<1>2. /\ pos' = pos + size /\ size \in Nat /\ size >= 1 /\ app' = app
      /\ Unit \in Nat /\ Unit >= 1
    BY SizesFit DEF Iterates, UnitIs
<1>3. n \in Int /\ \A i \in DOMAIN flow : i \in Int /\ (flow[i].counted => i < Actual(n))
    BY FlowEndsBelow
<1>4. /\ next' \in Int
      /\ \A i \in DOMAIN flow' : Stayed(i) \/ Entered(i)
      /\ next' = NoIndex \/ next' >= n
    <2>1. /\ next' \in Int
          /\ \A i \in DOMAIN flow' : Stayed(i) \/ Entered(i)
          /\ \/ flow' = flow /\ next' \in {NoIndex, n, n + Unit}
             \/ next' >= n + Unit
        BY FlowGrows
    <2> HIDE DEF n
    <2> QED BY <1>2, <1>3, <2>1
<1> HIDE DEF n
<1>5. ASSUME NEW i \in DOMAIN flow'
      PROVE  /\ i \in Int /\ i < Actual(Place(base') + pos')
             /\ next' # NoIndex /\ flow'[i].counted => i < Actual(next')
             /\ flow'[i].kind = "data" =>
                   flow'[i].pos \in Int /\ i - flow'[i].pos = Actual(Place(base'))
    <2>1. CASE Entered(i)
        BY <2>1 DEF Entered
    <2>2. CASE i \in DOMAIN flow /\ flow'[i] = flow[i]
        <3>1. first # NoIndex
            BY <2>2 DEF ProducerInv, FirstIsKnown
        <3>2. base' = base
            BY <1>1, <3>1 DEF Placed
        <3>3. /\ i \in Int /\ i < Actual(Place(base) + pos)
              /\ flow[i].kind = "data" =>
                    flow[i].pos \in Int /\ i - flow[i].pos = Actual(Place(base))
            BY <2>2 DEF ProducerInv, FlowIsBehind, DataIsInPlace
        <3>4. /\ Actual(Place(base') + pos) <= Actual(Place(base') + pos')
              /\ Actual(Place(base') + pos) \in Int /\ Actual(Place(base') + pos') \in Int
            <4>1. /\ Place(base') + pos \in Int /\ Place(base') + pos' \in Int
                  /\ Place(base') + pos <= Place(base') + pos'
                BY <1>1, <1>2
            <4> QED BY <4>1, ActualIs
        <3>5. i < Actual(Place(base') + pos')
            BY <3>2, <3>3, <3>4
        <3>6. next' # NoIndex /\ flow[i].counted => i < Actual(next')
            <4>1. next' # NoIndex => Actual(n) <= Actual(next')
                BY <1>3, <1>4, ActualIs
            <4>2. Actual(n) \in Int /\ Actual(next') \in Int
                BY <1>3, <1>4, ActualIs
            <4> QED BY <1>3, <2>2, <4>1, <4>2
        <3> QED BY <2>2, <3>2, <3>3, <3>5, <3>6
    <2> QED BY <1>4, <2>1, <2>2 DEF Stayed
<1>6. FlowIsBehind'
    BY <1>2, <1>5 DEF FlowIsBehind, Actual
<1>7. DataIsInPlace'
    BY <1>2, <1>5 DEF DataIsInPlace, Actual
<1> QED BY <1>6, <1>7

LEMMA IterationKeepsInv ==
    ASSUME ProducerInv, NEW pts \in RawPts, NEW size \in Sizes, Iterates(pts, size)
    PROVE  ProducerInv'
<1>1. app' = app /\ drops' = drops /\ status = "running" /\ status' \in {"running", "broken"}
    BY DEF Iterates
<1>2. NothingYet'
    BY <1>1 DEF NothingYet
<1>3. BaseIsAligned'
    BY <1>1, StampIteration DEF ProducerInv, BaseIsAligned, indexToTimestamp, StartIndex
<1>4. NothingIsMissing'
    <2>1. SUFFICES ASSUME drops' = 0, faults' = 0, ~(app'.tool = "looping" /\ app'.media = "audio")
                   PROVE  (/\ next = first + pos
                           /\ \A i \in Actual(first)..Actual(next) - 1 :
                                 i \in DOMAIN flow /\ flow[i].kind = "data")'
        BY DEF NothingIsMissing, Player
    <2>2. /\ next' = first' + pos'
          /\ \A i \in Actual(first')..Actual(next') - 1 :
                i \in DOMAIN flow' /\ flow'[i].kind = "data"
        BY <1>1, <2>1, IterationMissesNothing DEF Player
    <2> QED BY <1>1, <2>2 DEF Actual
<1> QED BY <1>2, <1>3, <1>4, StampIteration, IterationKeepsFirst, IterationKeepsFlow
        DEF ProducerInv

\* The steps that leave the stream, its stamps and the flow alone.
LEMMA QuietStepKeepsInv ==
    ASSUME ProducerInv,
           UNCHANGED <<app, wrap, last, next, first, pos, flow, drops, faults>>,
           base' = base \/ (status = "ready" /\ base' \in Int),
           status' \in {"setup", "ready"} => status \in {"setup", "ready"},
           BaseIsAligned'
    PROVE  ProducerInv'
<1>1. ProducerTypes'
    BY DEF ProducerInv, ProducerTypes
<1>2. NothingYet'
    BY DEF ProducerInv, NothingYet
<1>3. StampInv'
    BY DEF ProducerInv, StampInv, LiveStamps, FileStamps, PlayerStamps
<1>4. CASE base' = base
    <2>1. FirstIsKnown'
        BY <1>4 DEF ProducerInv, FirstIsKnown, Place, timestampToIndex
    <2>2. FlowIsBehind' /\ DataIsInPlace'
        BY <1>4 DEF ProducerInv, FlowIsBehind, DataIsInPlace, Actual, Place, timestampToIndex
    <2>3. NothingIsMissing'
        BY DEF ProducerInv, NothingIsMissing, Actual, Player
    <2> QED BY <1>1, <1>2, <1>3, <2>1, <2>2, <2>3 DEF ProducerInv
<1>5. CASE status = "ready"
    <2>1. next = NoIndex /\ first = NoIndex /\ DOMAIN flow = {} /\ pos = 0
        BY <1>5 DEF ProducerInv, NothingYet
    <2>2. FirstIsKnown'
        BY <2>1 DEF FirstIsKnown
    <2>3. FlowIsBehind' /\ DataIsInPlace' /\ NothingIsMissing'
        BY <2>1 DEF FlowIsBehind, DataIsInPlace, NothingIsMissing
    <2> QED BY <1>1, <1>2, <1>3, <2>2, <2>3 DEF ProducerInv
<1> QED BY <1>4, <1>5

\* A lost buffer moves the stream on; a looped file keeps its ends.
LEMMA LossKeepsInv ==
    ASSUME ProducerInv, LoseBuffer
    PROVE  ProducerInv'
<1>1. /\ UNCHANGED <<app, status, exit, base, wrap, last, next, first, flow, faults>>
      /\ status = "running" /\ drops' = drops + 1 /\ pos' = pos + Unit
      /\ app.tool = "testsrc" /\ app.source = "file" => pos % FileLen \notin {0, FileLen - 1}
    BY DEF LoseBuffer
<1>2. pos \in Nat /\ Unit \in Nat /\ Unit >= 1 /\ drops \in Nat /\ last \in Nat
    BY SizesFit DEF UnitIs, ProducerInv, ProducerTypes
<1>3. ProducerTypes' /\ NothingYet'
    BY <1>1, <1>2 DEF ProducerInv, ProducerTypes, NothingYet
<1>4. BaseIsAligned'
    BY <1>1 DEF ProducerInv, BaseIsAligned, indexToTimestamp, StartIndex
<1>5. /\ (pos - 1) * IndexPeriod \in Int /\ (pos' - 1) * IndexPeriod \in Int
      /\ (pos - 1) * IndexPeriod <= (pos' - 1) * IndexPeriod
    BY <1>1, <1>2, Ordered, ProducerAssumption
<1>6. LiveStamps'
    BY <1>1, <1>2, <1>5, ProducerAssumption DEF ProducerInv, StampInv, LiveStamps
<1>7. FileStamps'
    <2>1. SUFFICES ASSUME app.source = "file", app.tool = "testsrc"
                   PROVE  FileStamps'
        BY <1>1 DEF FileStamps
    <2>2. Unit = 1
        BY <2>1 DEF Unit, ProducerInv, ProducerTypes, Apps
    <2>3. /\ pos % FileLen \in Nat /\ pos % FileLen # 0
          /\ pos' % FileLen = (pos % FileLen) + 1
        <3>1. FileLen \in Nat /\ FileLen > 1 /\ pos' = pos + 1
            BY <1>1, <2>2, ProducerAssumption
        <3>2. pos % FileLen \in Nat
            BY <1>2, <3>1, Remainder
        <3>3. pos % FileLen # 0 /\ pos % FileLen # FileLen - 1
            BY <1>1, <2>1
        <3> QED BY <1>2, <3>1, <3>2, <3>3, NextRemainder
    <2>4. /\ wrap = (pos - (pos % FileLen)) * IndexPeriod
          /\ last = 0 \/ last <= (pos - 1) * IndexPeriod
        BY <2>1, <2>3 DEF ProducerInv, StampInv, FileStamps
    <2>5. pos' - (pos' % FileLen) = pos - (pos % FileLen)
        BY <1>1, <1>2, <2>2, <2>3
    <2>6. wrap' = (pos' - (pos' % FileLen)) * IndexPeriod
        BY <1>1, <2>4, <2>5
    <2>7. last' = 0 \/ last' <= (pos' - 1) * IndexPeriod
        BY <1>1, <1>2, <1>5, <2>4
    <2>8. pos' # 0 /\ pos' % FileLen # 0
        BY <1>1, <1>2, <2>3
    <2> QED BY <2>6, <2>7, <2>8 DEF FileStamps
<1>8. PlayerStamps'
    BY <1>1 DEF ProducerInv, StampInv, PlayerStamps
<1>9. Place(base') = Place(base) /\ Place(base) \in Int
    BY <1>1, ShiftedIndex DEF Place, ProducerInv, ProducerTypes
<1>10. FirstIsKnown'
    BY <1>1, <1>2, <1>9 DEF ProducerInv, FirstIsKnown
<1>11. FlowIsBehind'
    <2>1. Actual(Place(base) + pos) <= Actual(Place(base) + pos')
          /\ Actual(Place(base) + pos) \in Int /\ Actual(Place(base) + pos') \in Int
        <3>1. /\ Place(base) + pos \in Int /\ Place(base) + pos' \in Int
              /\ Place(base) + pos <= Place(base) + pos'
            BY <1>1, <1>2, <1>9
        <3> QED BY <3>1, ActualIs
    <2>2. \A i \in DOMAIN flow : /\ i \in Int /\ i < Actual(Place(base) + pos')
                                 /\ next # NoIndex /\ flow[i].counted => i < Actual(next)
        BY <2>1 DEF ProducerInv, FlowIsBehind
    <2> QED BY <1>1, <1>9, <2>2 DEF FlowIsBehind, Actual
<1>12. DataIsInPlace'
    BY <1>1, <1>9 DEF ProducerInv, DataIsInPlace, Actual
<1>13. NothingIsMissing'
    BY <1>1, <1>2 DEF NothingIsMissing
<1> QED BY <1>3, <1>4, <1>6, <1>7, <1>8, <1>10, <1>11, <1>12, <1>13 DEF ProducerInv, StampInv

LEMMA SetUpKeepsInv ==
    ASSUME ProducerInv, setUpVideo \/ setUpAudio \/ openVideo \/ openAudio
    PROVE  ProducerInv'
<1>1. \E tool, medium, accepted : setUp(tool, medium, accepted)
    BY DEF setUpVideo, setUpAudio, openVideo, openAudio
<1>2. /\ UNCHANGED <<app, base, wrap, last, next, first, pos, flow, drops, faults>>
      /\ status = "setup" /\ status' # "running"
    BY <1>1 DEF setUp, unchangedBySetup
<1>3. BaseIsAligned'
    BY <1>2 DEF BaseIsAligned
<1>4. base' = base /\ (status' \in {"setup", "ready"} => status \in {"setup", "ready"})
    BY <1>2
<1> QED BY <1>2, <1>3, <1>4, QuietStepKeepsInv, Zenon

LEMMA StartKeepsInv ==
    ASSUME ProducerInv, startPipeline \/ startPlayer
    PROVE  ProducerInv'
<1>1. /\ UNCHANGED <<app, wrap, last, next, first, pos, flow, drops, faults>>
      /\ status = "ready" /\ status' \in {"running", "failed"}
    BY DEF startPipeline, startPlayer, unchangedBySetup
<1>2. CASE startPipeline
    <2>1. base' = indexToTimestamp(StartIndex)
        BY <1>2 DEF startPipeline
    <2>2. indexToTimestamp(StartIndex) \in Int
        BY ProducerAssumption DEF indexToTimestamp, StartIndex
    <2>3. BaseIsAligned'
        BY <2>1 DEF BaseIsAligned, indexToTimestamp, StartIndex
    <2> QED BY <1>1, <2>1, <2>2, <2>3, QuietStepKeepsInv
<1>3. CASE startPlayer
    <2>1. base' = base /\ app.tool = "looping"
        BY <1>3 DEF startPlayer
    <2>2. BaseIsAligned'
        BY <1>1, <2>1 DEF BaseIsAligned
    <2> QED BY <1>1, <2>1, <2>2, QuietStepKeepsInv, Zenon
<1> QED BY <1>2, <1>3

LEMMA EndKeepsInv ==
    ASSUME ProducerInv, signal_handler \/ finish \/ UNCHANGED producerVars
    PROVE  ProducerInv'
<1>1. /\ UNCHANGED <<app, base, wrap, last, next, first, pos, flow, drops, faults>>
      /\ status' \in {status, "done"}
    BY DEF signal_handler, finish, producerVars
<1>2. BaseIsAligned'
    BY <1>1 DEF ProducerInv, BaseIsAligned, indexToTimestamp, StartIndex
<1>3. base' = base /\ (status' \in {"setup", "ready"} => status \in {"setup", "ready"})
    BY <1>1
<1> QED BY <1>1, <1>2, <1>3, QuietStepKeepsInv, Zenon

LEMMA ProducerStep ==
    ASSUME ProducerInv, [ProducerNext]_producerVars
    PROVE  ProducerInv'
<1>1. CASE Thread
    <2>1. PICK pts \in RawPts, size \in Sizes : Iterates(pts, size)
        BY <1>1, ThreadIterates DEF ProducerInv
    <2> QED BY <2>1, IterationKeepsInv
<1>2. CASE setUpVideo \/ setUpAudio \/ openVideo \/ openAudio
    BY <1>2, SetUpKeepsInv
<1>3. CASE startPipeline \/ startPlayer
    BY <1>3, StartKeepsInv
<1>4. CASE LoseBuffer
    BY <1>4, LossKeepsInv
<1>5. CASE signal_handler \/ finish \/ UNCHANGED producerVars
    BY <1>5, EndKeepsInv
<1> QED BY <1>1, <1>2, <1>3, <1>4, <1>5 DEF ProducerNext, Thread

LEMMA ProducerStart ==
    ASSUME ProducerInit
    PROVE  ProducerInv
<1>1. ProducerTypes /\ NothingYet
    BY DEF ProducerInit, ProducerTypes, NothingYet, NoIndex
<1>2. BaseIsAligned
    BY DEF ProducerInit, BaseIsAligned
<1>3. LiveStamps /\ PlayerStamps
    BY DEF ProducerInit, LiveStamps, PlayerStamps
<1>4. FileStamps
    <2>1. pos = 0 /\ 0 % FileLen = 0 /\ last = 0 /\ wrap = 0
        BY ProducerAssumption DEF ProducerInit
    <2> QED BY <2>1 DEF FileStamps
<1>5. FirstIsKnown /\ FlowIsBehind /\ DataIsInPlace /\ NothingIsMissing
    BY DEF ProducerInit, FirstIsKnown, FlowIsBehind, DataIsInPlace, NothingIsMissing
<1> QED BY <1>1, <1>2, <1>3, <1>4, <1>5 DEF ProducerInv, StampInv

LEMMA ProducerInvHolds == ProducerSpec => []ProducerInv
<1>1. ProducerInit => ProducerInv
    BY ProducerStart
<1>2. ProducerInv /\ [ProducerNext]_producerVars => ProducerInv'
    BY ProducerStep
<1> QED BY <1>1, <1>2, PTL DEF ProducerSpec

(* --- Theorems --------------------------------------------------------------- *)

\* Whatever the pipeline drops, however far live timestamps are off and however
\* often the file is looped, what was produced at a position of the stream is
\* committed that many indices after the first one (MxlWriter::run,
\* LoopingFilePlayer::videoThread and audioThread).
THEOREM ProducedDataKeepsItsPlace == ProducerSpec => []DataKeepsItsPlace
<1>1. ProducerInv => DataKeepsItsPlace
    <2>1. SUFFICES ASSUME ProducerInv, NEW i \in DOMAIN flow, NEW j \in DOMAIN flow,
                          flow[i].kind = "data", flow[j].kind = "data"
                   PROVE  i - flow[i].pos = j - flow[j].pos
        BY DEF DataKeepsItsPlace
    <2> QED BY <2>1 DEF ProducerInv, DataIsInPlace
<1> QED BY <1>1, ProducerInvHolds, PTL

\* A thread that loses nothing and whose calls succeed writes every index from
\* the first to the one it expects, through every loop of the file (pull()).
THEOREM ProducedLoopIsUnbroken == ProducerSpec => []LoopIsUnbroken
<1>1. ProducerInv => LoopIsUnbroken
    BY DEF ProducerInv, NothingIsMissing, LoopIsUnbroken, Player
<1> QED BY <1>1, ProducerInvHolds, PTL

\* No index is committed twice by a thread that resets or jumps ahead (MxlWriter::run,
\* LoopingFilePlayer::audioThread), but for what a decoded buffer has beyond the
\* batch the player counts: silence may take its place, for any sizes of buffers.
THEOREM ProducedDataIsKept == ProducerSpec => CommittedIsKept
<1>1. ASSUME ProducerInv, [ProducerNext]_producerVars
      PROVE  [\A i \in DOMAIN flow :
                 /\ i \in DOMAIN flow'
                 /\ flow'[i] = flow[i] \/ (~flow[i].counted /\ flow'[i].kind # "data")]_producerVars
    <2>1. CASE Thread
        <3>1. PICK pts \in RawPts, size \in Sizes : Iterates(pts, size)
            BY <1>1, <2>1, ThreadIterates DEF ProducerInv
        <3> QED BY <1>1, <3>1, FlowGrows DEF Kept
    <2>2. CASE flow' = flow
        BY <2>2
    <2> QED BY <1>1, <2>1, <2>2
            DEF ProducerNext, Thread, setUpVideo, setUpAudio, openVideo, openAudio, setUp,
                unchangedBySetup, startPipeline, startPlayer, LoseBuffer, signal_handler,
                finish, producerVars
<1> QED BY <1>1, ProducerInvHolds, PTL DEF ProducerSpec, CommittedIsKept

=============================================================================
