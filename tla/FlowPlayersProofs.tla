--------------------------- MODULE FlowPlayersProofs ---------------------------
(* Proofs about FlowPlayers, for rings, windows, batches, delays and timeouts   *)
(* of every size, and whatever the writer, the flow and the clock do: what      *)
(* mxl-gst-sink pushes and what mxlsrc delivers never runs backwards, and what  *)
(* is left out is announced.                                                    *)
EXTENDS FlowPlayers, TLAPS

\* The multiple of a window that is nearest to a time.
near(t, size) == ((t + size \div 2) \div size) * size

FlowTypes ==
    now \in Nat /\ now >= StartTime /\ gen \in 1..MaxGen /\ head \in [1..MaxGen -> Nat]

ThreadTypes ==
    /\ app \in Apps /\ reader \in 0..MaxGen
    /\ status \in {"setup", "idle", "call", "push", "sleep", "exited"}
    /\ began \in Nat /\ req \in Int /\ current \in Nat
    /\ status \in {"push", "sleep"} => IsSink

BufferTypes ==
    /\ initial \in [set : BOOLEAN, index : Nat, time : Int] /\ discont \in BOOLEAN
    /\ offset \in Int /\ seen \in Int
    /\ out \in [index : Int, pts : Int, discont : BOOLEAN, fresh : BOOLEAN]

PlayerTypes == FlowTypes /\ ThreadTypes /\ BufferTypes

\* The cursor of mxl-gst-sink stands on a window that is not after the one of the
\* present, or of the time its iteration began at; what it asks for is after
\* what was pushed.
CursorFollowsTime ==
    IsSink =>
        /\ status = "setup" => out.index = 0
        /\ status \in {"idle", "call", "push", "sleep"} =>
              /\ \E k \in Nat : current = k * Size
              /\ req = current - delayGrains
              /\ current <= near(now, Size)
              /\ out.index <= req
        /\ status = "call" => began <= now /\ current <= near(began, Size)
        /\ status \in {"idle", "call", "push"} => out.index < req

\* What mxlsrc delivered lies before what it delivers next.
DeliveredIsBefore ==
    ~IsSink /\ status \in {"idle", "call"} =>
        /\ reader # 0 /\ req >= 0
        /\ status = "call" \/ ~out.fresh => initial.set
        /\ Grains /\ status = "call" => req <= initial.index + current \/ req <= now
        /\ ~out.fresh =>
              /\ Grains /\ status = "idle" => out.index < initial.index + current \/ out.index <= now
              /\ Grains /\ status = "call" => out.index <= req
              /\ ~Grains => req > out.index /\ (discont \/ req = out.index + Size)
              /\ discont \/ out.pts <= current * Size + initial.time

PlayerInv == PlayerTypes /\ CursorFollowsTime /\ DeliveredIsBefore

-----------------------------------------------------------------------------
LEMMA QuotientOf ==
  ASSUME NEW a \in Nat, NEW b \in Nat, b > 0
  PROVE  a \div b \in Nat /\ (a \div b) * b <= a /\ a < (a \div b) * b + b
BY SMT

LEMMA ProductOrder ==
  ASSUME NEW p \in Nat, NEW q \in Nat, NEW b \in Nat, p <= q
  PROVE  p * b \in Nat /\ q * b \in Nat /\ p * b <= q * b
BY SMT

\* The nearest window is a window, and less than one away.
LEMMA NearIsNear ==
  ASSUME NEW s \in Nat, s > 0, NEW t \in Nat
  PROVE  /\ near(t, s) \in Nat /\ near(t, s) + s > t
         /\ \E k \in Nat : near(t, s) = k * s
<1> DEFINE h == s \div 2
           q == (t + h) \div s
<1>1. h \in Nat
  BY QuotientOf
<1>2. t + h \in Nat
  BY <1>1
<1>3. q \in Nat /\ t + h < q * s + s
  BY <1>2, QuotientOf
<1>4. near(t, s) = q * s /\ q * s \in Nat
  BY <1>3, ProductOrder DEF near
<1> QED
  BY <1>1, <1>3, <1>4

\* A window that has begun is not after the nearest one.
LEMMA NearIsNotBefore ==
  ASSUME NEW s \in Nat, s > 0, NEW t \in Nat, NEW k \in Nat, k * s <= t
  PROVE  k * s <= near(t, s)
<1> DEFINE h == s \div 2
           q == (t + h) \div s
<1>1. h \in Nat
  BY QuotientOf
<1>2. q \in Nat /\ t + h < q * s + s
  BY <1>1, QuotientOf
<1>3. near(t, s) = q * s
  BY DEF near
<1> HIDE DEF h, q
<1>4. q * s \in Nat /\ k * s \in Nat
  BY <1>2, ProductOrder
<1>5. ASSUME q + 1 <= k PROVE FALSE
  <2>1. (q + 1) * s <= k * s
    BY <1>2, <1>5, ProductOrder
  <2>2. (q + 1) * s = q * s + s
    BY <1>2
  <2> QED
    BY <1>1, <1>2, <1>4, <2>1, <2>2
<1>6. k <= q
  BY <1>2, <1>5
<1> QED
  BY <1>2, <1>3, <1>6, ProductOrder

LEMMA NearIsMonotone ==
  ASSUME NEW s \in Nat, s > 0, NEW t \in Nat, NEW u \in Nat, t <= u
  PROVE  near(t, s) <= near(u, s)
<1> DEFINE h == s \div 2
           p == (t + h) \div s
           q == (u + h) \div s
<1>1. h \in Nat
  BY QuotientOf
<1>2. p \in Nat /\ q \in Nat /\ p * s <= t + h /\ u + h < q * s + s
  BY <1>1, QuotientOf
<1>3. near(t, s) = p * s /\ near(u, s) = q * s
  BY DEF near
<1> HIDE DEF h, p, q
<1>4. p * s \in Nat /\ q * s \in Nat
  BY <1>2, ProductOrder
<1>5. ASSUME q + 1 <= p PROVE FALSE
  <2>1. (q + 1) * s <= p * s
    BY <1>2, <1>5, ProductOrder
  <2>2. (q + 1) * s = q * s + s
    BY <1>2
  <2> QED
    BY <1>1, <1>2, <1>4, <2>1, <2>2
<1>6. p <= q
  BY <1>2, <1>5
<1> QED
  BY <1>2, <1>3, <1>6, ProductOrder

LEMMA SizeIsPositive ==
  ASSUME app \in Apps
  PROVE  Size \in Nat /\ Size > 0 /\ (IsSink => Size <= Window)
         /\ (~Grains /\ ~IsSink => Size = Batch)
BY PlayerAssumption DEF PlayerAssumption, Size, IsSink, Grains, Apps

\* The read delay in whole windows.
LEMMA DelayIsBounded ==
  ASSUME app \in Apps
  PROVE  delayGrains \in Nat /\ delayGrains <= Delay + Size - 1
<1>1. Size \in Nat /\ Size > 0 /\ Delay \in Nat
  BY SizeIsPositive, PlayerAssumption DEF PlayerAssumption
<1>2. Delay + Size - 1 \in Nat
  BY <1>1
<1> DEFINE q == (Delay + Size - 1) \div Size
<1>3. q \in Nat /\ q * Size <= Delay + Size - 1
  BY <1>1, <1>2, QuotientOf
<1>4. q * Size \in Nat
  BY <1>1, <1>3, ProductOrder
<1> QED
  BY <1>3, <1>4 DEF delayGrains

-----------------------------------------------------------------------------
\* What mxl-gst-sink asks for after a read that gave no data.
CursorIsNext ==
    /\ reader' \in 0..MaxGen /\ req' \in Int /\ current' \in Nat
    /\ \E k \in Nat : current' = k * Size
    /\ req' = current' - delayGrains
    /\ current' <= near(now, Size)
    /\ out.index < req'

LEMMA Realigned ==
  ASSUME app \in Apps, NEW t \in Nat, realign(t)
  PROVE  /\ current' = near(t, Size) /\ current' \in Nat /\ current' + Size > t
         /\ \E k \in Nat : current' = k * Size
         /\ req' = current' - delayGrains /\ req' \in Int
<1>1. current' = near(t, Size) /\ req' = current' - delayGrains
  BY DEF realign, near
<1>2. /\ current' \in Nat /\ current' + Size > t
      /\ \E k \in Nat : current' = k * Size
  BY <1>1, SizeIsPositive, NearIsNear
<1> QED
  BY <1>1, <1>2, DelayIsBounded

\* Realigning to the time the iteration began at never falls behind what was
\* pushed: the cursor was not after that time.
LEMMA RealignIsNext ==
  ASSUME PlayerTypes, CursorFollowsTime, IsSink, status = "call",
         reader' \in 0..MaxGen, realign(began)
  PROVE  CursorIsNext
<1>1. /\ began \in Nat /\ now \in Nat /\ began <= now /\ current <= near(began, Size)
      /\ app \in Apps /\ current \in Nat /\ out.index \in Int
      /\ req = current - delayGrains /\ out.index < req
  BY DEF PlayerTypes, FlowTypes, ThreadTypes, BufferTypes, CursorFollowsTime
<1>2. /\ current' = near(began, Size) /\ current' \in Nat
      /\ \E k \in Nat : current' = k * Size
      /\ req' = current' - delayGrains /\ req' \in Int
  BY <1>1, Realigned
<1>3. Size \in Nat /\ Size > 0 /\ delayGrains \in Nat
  BY <1>1, SizeIsPositive, DelayIsBounded
<1>4. current' <= near(now, Size)
  BY <1>1, <1>2, <1>3, NearIsMonotone
<1>5. out.index < req'
  BY <1>1, <1>2, <1>3
<1> QED
  BY <1>2, <1>4, <1>5 DEF CursorIsNext

LEMMA RetryIsNext ==
  ASSUME PlayerTypes, CursorFollowsTime, IsSink, status = "call", NEW answer, retryRead(answer)
  PROVE  CursorIsNext
<1>1. CASE UNCHANGED <<current, req>> /\ reader' \in 0..MaxGen
  BY <1>1 DEF CursorIsNext, PlayerTypes, ThreadTypes, CursorFollowsTime
<1>2. CASE realign(began) /\ reader' \in 0..MaxGen
  BY <1>2, RealignIsNext
<1>3. gen \in 0..MaxGen /\ reader \in 0..MaxGen /\ 0 \in 0..MaxGen
  BY PlayerAssumption DEF PlayerTypes, FlowTypes, ThreadTypes, PlayerAssumption
<1> QED
  BY <1>1, <1>2, <1>3 DEF retryRead, handleInvalidFlow

LEMMA InitPlayerInv == Init => PlayerInv
<1> SUFFICES ASSUME Init PROVE PlayerInv
  OBVIOUS
<1>1. /\ StartTime \in Nat /\ StartTime >= 1 /\ MaxGen \in Nat /\ MaxGen > 0
  BY PlayerAssumption DEF PlayerAssumption
<1>2. head \in [1..MaxGen -> Nat]
  BY <1>1 DEF Init
<1>3. FlowTypes
  BY <1>1, <1>2 DEF Init, FlowTypes
<1>4. ThreadTypes
  BY <1>1 DEF Init, ThreadTypes
<1>5. BufferTypes
  <2>1. /\ initial = [set |-> FALSE, index |-> 0, time |-> 0] /\ discont = FALSE /\ offset = 0 /\ seen = 0
        /\ out = [index |-> 0, pts |-> 0, discont |-> FALSE, fresh |-> FALSE]
    BY DEF Init
  <2>2. initial \in [set : BOOLEAN, index : Nat, time : Int]
    BY <2>1
  <2>3. out \in [index : Int, pts : Int, discont : BOOLEAN, fresh : BOOLEAN]
    BY <2>1
  <2>4. discont \in BOOLEAN /\ offset \in Int /\ seen \in Int
    <3>1. discont \in BOOLEAN
      BY <2>1, Zenon
    <3>2. offset \in Int /\ seen \in Int
      BY <2>1
    <3> QED
      BY <3>1, <3>2, Zenon
  <2> QED
    BY <2>2, <2>3, <2>4 DEF BufferTypes
<1> QED
  BY <1>3, <1>4, <1>5 DEF Init, PlayerTypes, PlayerInv, CursorFollowsTime, DeliveredIsBefore

\* The clock, the flow and the other pipeline.
LEMMA EnvironmentKeeps ==
  ASSUME PlayerInv, Tick \/ Commit \/ DeleteFlow \/ CreateFlow \/ OtherPipelineRaises \/ UNCHANGED vars
  PROVE  PlayerInv'
<1>1. /\ UNCHANGED <<app, reader, status, began, req, current, initial, discont, seen, out>>
      /\ app \in Apps /\ now \in Nat /\ Size \in Nat /\ Size > 0
  BY SizeIsPositive
     DEF PlayerInv, PlayerTypes, FlowTypes, ThreadTypes, Tick, Commit, DeleteFlow, CreateFlow,
         OtherPipelineRaises, vars, flowVars, srcVars, pushVars
<1>2. now' \in Nat /\ now' >= now
  BY <1>1 DEF Tick, Commit, DeleteFlow, CreateFlow, OtherPipelineRaises, vars
<1>3. FlowTypes'
  <2>1. FlowTypes /\ MaxGen \in Nat /\ StartTime \in Nat
    BY PlayerAssumption DEF PlayerInv, PlayerTypes, PlayerAssumption
  <2>2. CASE Commit
    <3>1. PICK i \in head[gen] + 1..now : head' = [head EXCEPT ![gen] = i]
      BY <2>2 DEF Commit
    <3>2. head[gen] \in Nat
      BY <2>1 DEF FlowTypes
    <3>3. i \in Nat
      BY <2>1, <3>2 DEF FlowTypes
    <3> QED
      BY <2>1, <2>2, <3>1, <3>3 DEF Commit, FlowTypes
  <2>3. CASE CreateFlow
    <3>1. gen \in Nat /\ gen >= 1 /\ gen < MaxGen /\ gen' = gen + 1
      BY <2>1, <2>3 DEF FlowTypes, CreateFlow
    <3> QED
      BY <2>1, <2>3, <3>1 DEF CreateFlow, FlowTypes
  <2>4. CASE Tick
    BY <1>2, <2>1, <2>4 DEF Tick, flowVars, FlowTypes
  <2>5. CASE DeleteFlow \/ OtherPipelineRaises \/ UNCHANGED vars
    BY <2>1, <2>5 DEF DeleteFlow, OtherPipelineRaises, vars, flowVars, FlowTypes
  <2> QED
    BY <2>2, <2>3, <2>4, <2>5
<1>4. ThreadTypes'
  BY <1>1 DEF PlayerInv, PlayerTypes, ThreadTypes, IsSink
<1>5. BufferTypes'
  <2>1. offset' \in Int
    BY DEF PlayerInv, PlayerTypes, BufferTypes, Tick, Commit, DeleteFlow, CreateFlow, OtherPipelineRaises,
           vars, pushVars
  <2> QED
    BY <1>1, <2>1 DEF PlayerInv, PlayerTypes, BufferTypes
<1>6. PlayerTypes'
  BY <1>3, <1>4, <1>5 DEF PlayerTypes
<1>7. CursorFollowsTime'
  <2>1. Size' = Size /\ delayGrains' = delayGrains /\ IsSink' = IsSink
    BY <1>1 DEF Size, delayGrains, IsSink, Grains
  <2>2. near(now, Size) <= near(now', Size) /\ near(now, Size) \in Nat /\ near(now', Size) \in Nat
    BY <1>1, <1>2, NearIsMonotone, NearIsNear
  <2>3. current <= near(now, Size) => current <= near(now', Size)
    BY <2>2 DEF PlayerInv, PlayerTypes, ThreadTypes
  <2>4. began <= now => began <= now'
    BY <1>1, <1>2 DEF PlayerInv, PlayerTypes, ThreadTypes
  <2> QED
    BY <1>1, <2>1, <2>3, <2>4 DEF PlayerInv, CursorFollowsTime
<1>8. DeliveredIsBefore'
  <2>1. Size' = Size /\ IsSink' = IsSink /\ Grains' = Grains
    BY <1>1 DEF Size, IsSink, Grains
  <2>2. /\ req <= now => req <= now'
        /\ out.index <= now => out.index <= now'
    BY <1>1, <1>2 DEF PlayerInv, PlayerTypes, ThreadTypes, BufferTypes
  <2> QED
    BY <1>1, <2>1, <2>2 DEF PlayerInv, DeliveredIsBefore
<1> QED
  BY <1>6, <1>7, <1>8 DEF PlayerInv

-----------------------------------------------------------------------------
\* A step of mxl-gst-sink, which has no state of mxlsrc.
LEMMA SinkKeeps ==
  ASSUME PlayerInv, IsSink, UNCHANGED <<app, now, up, gen, head>>, ThreadTypes', BufferTypes', CursorFollowsTime'
  PROVE  PlayerInv'
<1>1. FlowTypes' /\ IsSink'
  BY DEF PlayerInv, PlayerTypes, FlowTypes, IsSink
<1> QED
  BY <1>1 DEF PlayerInv, PlayerTypes, DeliveredIsBefore

LEMMA SameApp ==
  ASSUME app' = app
  PROVE  Size' = Size /\ delayGrains' = delayGrains /\ IsSink' = IsSink /\ Grains' = Grains
BY DEF Size, delayGrains, IsSink, Grains

\* The first window lies in the past, but not before the beginning of time.
LEMMA OpenReaderKeeps ==
  ASSUME PlayerInv, openReader
  PROVE  PlayerInv'
<1>0. /\ IsSink /\ UNCHANGED <<app, now, up, gen, head, began, initial, discont, offset, seen, out>>
      /\ app \in Apps /\ now \in Nat /\ now >= StartTime /\ out.index = 0 /\ status = "setup"
      /\ gen \in 1..MaxGen /\ PlayerTypes /\ MaxGen \in Nat
  BY PlayerAssumption
     DEF openReader, PlayerInv, PlayerTypes, FlowTypes, ThreadTypes, CursorFollowsTime, flowVars, srcVars,
         pushVars, PlayerAssumption
<1>1. BufferTypes'
  BY <1>0 DEF PlayerTypes, BufferTypes
<1>2. CASE reader' = gen /\ realign(now) /\ status' = "idle"
  <2>1. /\ current' = near(now, Size) /\ current' \in Nat /\ current' + Size > now
        /\ \E k \in Nat : current' = k * Size
        /\ req' = current' - delayGrains /\ req' \in Int
    BY <1>0, <1>2, Realigned
  <2>2. req' > 0
    <3>1. /\ Size \in Nat /\ Size <= Window /\ delayGrains \in Nat /\ delayGrains <= Delay + Size - 1
          /\ StartTime \in Nat /\ StartTime >= 1 + Delay + 2 * Window /\ Delay \in Nat /\ Window \in Nat
      BY <1>0, SizeIsPositive, DelayIsBounded, PlayerAssumption DEF PlayerAssumption
    <3> QED
      BY <1>0, <2>1, <3>1
  <2>3. ThreadTypes'
    BY <1>0, <1>2, <2>1 DEF PlayerTypes, ThreadTypes, IsSink
  <2>4. near(now, Size) = near(now', Size')
    BY <1>0, SameApp
  <2>5. CursorFollowsTime'
    BY <1>0, <1>2, <2>1, <2>2, <2>4, SameApp DEF CursorFollowsTime
  <2> QED
    BY <1>0, <1>1, <2>3, <2>5, SinkKeeps
<1>3. CASE status' = "exited" /\ UNCHANGED <<reader, current, req>>
  <2>1. ThreadTypes'
    BY <1>0, <1>3 DEF PlayerTypes, ThreadTypes, IsSink
  <2>2. CursorFollowsTime'
    BY <1>3 DEF CursorFollowsTime
  <2> QED
    BY <1>0, <1>1, <2>1, <2>2, SinkKeeps
<1> QED
  BY <1>2, <1>3 DEF openReader

\* Calling and skipping a window move nothing.
LEMMA CallKeeps ==
  ASSUME PlayerInv, IsSink, UNCHANGED <<app, now, up, gen, head, reader, req, current, initial, discont, out>>,
         offset' \in Int, seen' \in Int,
         \/ status = "idle" /\ status' = "call" /\ began' = now
         \/ status = "call" /\ status' \in {"idle", "push", "sleep"} /\ began' = 0
  PROVE  PlayerInv'
<1>0. PlayerTypes /\ near(now, Size) = near(now', Size') /\ now \in Nat
  BY SameApp DEF PlayerInv, PlayerTypes, FlowTypes
<1>1. BufferTypes'
  BY <1>0 DEF PlayerTypes, BufferTypes
<1>2. ThreadTypes'
  BY <1>0 DEF PlayerTypes, ThreadTypes, IsSink
<1>3. CursorFollowsTime'
  <2>1. CASE status = "idle" /\ status' = "call" /\ began' = now
    BY <1>0, <2>1, SameApp DEF PlayerInv, CursorFollowsTime
  <2>2. CASE status = "call" /\ status' \in {"idle", "push", "sleep"}
    <3>1. /\ \E k \in Nat : current = k * Size
          /\ req = current - delayGrains /\ current <= near(now, Size) /\ out.index <= req /\ out.index < req
      BY <2>2 DEF PlayerInv, CursorFollowsTime
    <3> QED
      BY <1>0, <2>2, <3>1, SameApp DEF CursorFollowsTime
  <2> QED
    BY <2>1, <2>2
<1> QED
  BY <1>1, <1>2, <1>3, SinkKeeps

\* A read that gave nothing.
LEMMA RetryKeeps ==
  ASSUME PlayerInv, IsSink, status = "call", NEW answer, retryRead(answer), status' = "idle", began' = 0,
         UNCHANGED <<app, now, up, gen, head, initial, discont, offset, seen, out>>
  PROVE  PlayerInv'
<1>0. PlayerTypes /\ near(now, Size) = near(now', Size')
  BY SameApp DEF PlayerInv
<1>1. CursorIsNext
  BY RetryIsNext DEF PlayerInv
<1>2. BufferTypes'
  BY <1>0 DEF PlayerTypes, BufferTypes
<1>3. ThreadTypes'
  BY <1>0, <1>1 DEF PlayerTypes, ThreadTypes, CursorIsNext, IsSink
<1>4. CursorFollowsTime'
  <2>1. out.index \in Int /\ req' \in Int
    BY <1>0, <1>1 DEF PlayerTypes, BufferTypes, CursorIsNext
  <2> QED
    BY <1>0, <1>1, <2>1, SameApp DEF CursorFollowsTime, CursorIsNext
<1> QED
  BY <1>2, <1>3, <1>4, SinkKeeps

\* What is pushed is what was asked for; the offset may be raised.
LEMMA PushBufferMoves ==
  ASSUME PlayerTypes, pushBuffer
  PROVE  /\ IsSink /\ out' \in [index : Int, pts : Int, discont : BOOLEAN, fresh : BOOLEAN]
         /\ out'.index = req /\ offset' \in Int /\ offset' >= offset
<1>1. /\ StartTime \in Int /\ MinOffset \in Int /\ now \in Int /\ req \in Int /\ seen \in Int /\ offset \in Int
      /\ Size \in Int /\ IsSink
  BY SizeIsPositive, PlayerAssumption
     DEF PlayerAssumption, PlayerTypes, FlowTypes, ThreadTypes, BufferTypes, pushBuffer
<1> DEFINE pts == bufferTime - StartTime + seen
           new == Running + MinOffset + StartTime - bufferTime
           late == 0 <= pts /\ pts < Running + MinOffset
           p == IF late /\ offset = seen THEN bufferTime - StartTime + new ELSE pts
<1>2. bufferTime \in Int /\ Running \in Int
  BY <1>1 DEF bufferTime, Running
<1>3. p \in Int /\ (late => new > seen) /\ new \in Int
  BY <1>1, <1>2
<1>4. /\ out' = [index |-> req, discont |-> FALSE, fresh |-> FALSE, pts |-> p]
      /\ offset' = IF late /\ offset = seen THEN new ELSE offset
  BY DEF pushBuffer, adjustOffset
<1> HIDE DEF pts, new, late, p
<1>5. out' \in [index : Int, pts : Int, discont : BOOLEAN, fresh : BOOLEAN] /\ out'.index = req
  BY <1>1, <1>3, <1>4
<1>6. offset' \in Int /\ offset' >= offset
  BY <1>1, <1>3, <1>4
<1> QED
  BY <1>1, <1>5, <1>6

LEMMA PushBufferKeeps ==
  ASSUME PlayerInv, pushBuffer
  PROVE  PlayerInv'
<1>0. /\ PlayerTypes /\ IsSink /\ out'.index = req /\ status = "push" /\ status' = "sleep" /\ seen' = 0
      /\ UNCHANGED <<app, now, up, gen, head, reader, began, req, current, initial, discont>>
      /\ out' \in [index : Int, pts : Int, discont : BOOLEAN, fresh : BOOLEAN] /\ offset' \in Int
  BY PushBufferMoves DEF PlayerInv, pushBuffer, flowVars, srcVars
<1>1. BufferTypes'
  BY <1>0 DEF PlayerTypes, BufferTypes
<1>2. ThreadTypes'
  BY <1>0 DEF PlayerTypes, ThreadTypes, IsSink
<1>3. CursorFollowsTime'
  <2>1. near(now, Size) = near(now', Size') /\ req \in Int
    BY <1>0, SameApp DEF PlayerTypes, ThreadTypes
  <2> QED
    BY <1>0, <2>1, SameApp DEF PlayerInv, CursorFollowsTime
<1> QED
  BY <1>0, <1>1, <1>2, <1>3, SinkKeeps

\* The cursor moves on when the next window has begun.
LEMMA NextWindowKeeps ==
  ASSUME PlayerInv, next
  PROVE  PlayerInv'
<1>0. /\ PlayerTypes /\ IsSink /\ status = "sleep" /\ status' = "idle" /\ now >= current + Size
      /\ current' = current + Size /\ req' = req + Size
      /\ UNCHANGED <<app, now, up, gen, head, reader, began, initial, discont, offset, seen, out>>
      /\ Size \in Nat /\ Size > 0 /\ now \in Nat /\ current \in Nat /\ req \in Int /\ out.index \in Int
  BY SizeIsPositive
     DEF PlayerInv, PlayerTypes, FlowTypes, ThreadTypes, BufferTypes, next, flowVars, srcVars, pushVars
<1>1. PICK k \in Nat : current = k * Size /\ req = current - delayGrains /\ out.index <= req
  BY <1>0 DEF PlayerInv, CursorFollowsTime
<1>2. current' = (k + 1) * Size
  BY <1>0, <1>1
<1>3. current' <= near(now, Size)
  <2>1. k + 1 \in Nat /\ (k + 1) * Size <= now
    BY <1>0, <1>2
  <2>2. (k + 1) * Size <= near(now, Size)
    BY <1>0, <2>1, NearIsNotBefore
  <2> QED
    BY <1>2, <2>2
<1>4. req' = current' - delayGrains /\ out.index < req'
  <2>1. delayGrains \in Nat
    BY <1>0, DelayIsBounded DEF PlayerTypes, ThreadTypes
  <2> QED
    BY <1>0, <1>1, <2>1
<1>5. BufferTypes'
  BY <1>0 DEF PlayerTypes, BufferTypes
<1>6. ThreadTypes'
  BY <1>0 DEF PlayerTypes, ThreadTypes, IsSink
<1>7. CursorFollowsTime'
  <2>1. /\ near(now', Size') = near(now, Size) /\ Size' = Size /\ delayGrains' = delayGrains
    BY <1>0, SameApp
  <2>2. \E j \in Nat : current' = j * Size
    BY <1>2
  <2>3. out.index <= req'
    BY <1>0, <1>4
  <2> QED
    BY <1>0, <1>3, <1>4, <2>1, <2>2, <2>3 DEF CursorFollowsTime
<1> QED
  BY <1>0, <1>5, <1>6, <1>7, SinkKeeps

LEMMA SinkStepKeeps ==
  ASSUME PlayerInv, openReader \/ beginIteration \/ runVideo \/ runAudio \/ pushBuffer \/ next
  PROVE  PlayerInv'
<1>0. offset \in Int /\ seen \in Int
  BY DEF PlayerInv, PlayerTypes, BufferTypes
<1>1. CASE openReader
  BY <1>1, OpenReaderKeeps
<1>2. CASE beginIteration
  BY <1>0, <1>2, CallKeeps DEF beginIteration, flowVars, srcVars, pushVars
<1>3. CASE runVideo \/ runAudio
  <2>1. /\ status = "call" /\ IsSink /\ began' = 0
        /\ UNCHANGED <<app, now, up, gen, head, initial, discont, offset, out>>
    BY <1>3 DEF runVideo, runAudio, flowVars, srcVars
  <2>2. CASE status' \in {"idle", "push", "sleep"} /\ seen' \in {seen, offset} /\ UNCHANGED <<reader, current, req>>
    BY <1>0, <2>1, <2>2, CallKeeps
  <2>3. CASE seen' = seen /\ status' = "idle" /\ \E answer \in readAnswers : retryRead(answer)
    BY <2>1, <2>3, RetryKeeps
  <2> QED
    BY <1>3, <2>2, <2>3 DEF runVideo, runAudio
<1>4. CASE pushBuffer
  BY <1>4, PushBufferKeeps
<1>5. CASE next
  BY <1>5, NextWindowKeeps
<1> QED
  BY <1>1, <1>2, <1>3, <1>4, <1>5

-----------------------------------------------------------------------------
\* A step of mxlsrc, which has no cursor.
LEMMA SourceKeeps ==
  ASSUME PlayerInv, ~IsSink, UNCHANGED <<app, now, up, gen, head, offset, seen>>, ThreadTypes',
         initial' \in [set : BOOLEAN, index : Nat, time : Int], discont' \in BOOLEAN,
         out' \in [index : Int, pts : Int, discont : BOOLEAN, fresh : BOOLEAN],
         DeliveredIsBefore'
  PROVE  PlayerInv'
<1>1. FlowTypes' /\ ~IsSink' /\ BufferTypes'
  BY DEF PlayerInv, PlayerTypes, FlowTypes, BufferTypes, IsSink
<1> QED
  BY <1>1 DEF PlayerInv, PlayerTypes, CursorFollowsTime

\* A new beginning forgets what was delivered.
LEMMA AttachKeeps ==
  ASSUME PlayerInv, negotiate \/ reattach
  PROVE  PlayerInv'
<1>0. /\ PlayerTypes /\ ~IsSink /\ status' = "idle" /\ reader' = gen /\ gen \in 1..MaxGen
      /\ current' = 0 /\ req' = 0 /\ initial' = [set |-> FALSE, index |-> 0, time |-> 0] /\ discont' = FALSE
      /\ out' = [out EXCEPT !.fresh = TRUE] /\ began' = began
      /\ UNCHANGED <<app, now, up, gen, head, offset, seen>>
  BY DEF PlayerInv, PlayerTypes, FlowTypes, negotiate, reattach, init, init_mxl_reader, flowVars, pushVars
<1>1. MaxGen \in Nat
  BY PlayerAssumption DEF PlayerAssumption
<1>2. ThreadTypes'
  BY <1>0, <1>1 DEF PlayerTypes, ThreadTypes, IsSink
<1>3. out' \in [index : Int, pts : Int, discont : BOOLEAN, fresh : BOOLEAN] /\ out'.fresh = TRUE
  <2>1. out \in [index : Int, pts : Int, discont : BOOLEAN, fresh : BOOLEAN]
    BY <1>0 DEF PlayerTypes, BufferTypes
  <2> QED
    BY <1>0, <2>1
<1>4. initial' \in [set : BOOLEAN, index : Nat, time : Int]
  BY <1>0
<1>5. discont' \in BOOLEAN
  BY <1>0, Zenon
<1>6. DeliveredIsBefore'
  <2>1. reader' # 0 /\ req' >= 0
    BY <1>0, <1>1
  <2> QED
    BY <1>0, <1>3, <2>1 DEF DeliveredIsBefore
<1> QED
  BY <1>0, <1>2, <1>3, <1>4, <1>5, <1>6, SourceKeeps

\* A clock that is behind is moved, never back.
LEMMA ShiftedIsLater ==
  ASSUME NEW ini \in [set : BOOLEAN, index : Nat, time : Int], NEW p \in Int, NEW c, c * Size = p, NEW ts \in Int
  PROVE  /\ shifted(ini, c, ts) \in [set : BOOLEAN, index : Nat, time : Int]
         /\ shifted(ini, c, ts).set = ini.set /\ shifted(ini, c, ts).index = ini.index
         /\ shifted(ini, c, ts).time >= ini.time
<1>1. CASE p + ini.time < ts
  <2>1. shifted(ini, c, ts) = [ini EXCEPT !.time = @ + ts - (p + ini.time)]
    BY <1>1 DEF shifted
  <2>2. ini.time + ts - (p + ini.time) \in Int /\ ini.time + ts - (p + ini.time) >= ini.time
    BY <1>1
  <2> QED
    BY <2>1, <2>2
<1>2. CASE ~(p + ini.time < ts)
  <2>1. shifted(ini, c, ts) = ini
    BY <1>2 DEF shifted
  <2> QED
    BY <2>1
<1> QED
  BY <1>1, <1>2

LEMMA CountIsInt ==
  ASSUME app \in Apps, NEW c \in Nat
  PROVE  c * Size \in Int /\ (c + 1) * Size = c * Size + Size /\ (Grains => c * Size = c)
<1>1. Size \in Nat /\ (Grains => Size = 1)
  BY SizeIsPositive DEF Size
<1>2. ASSUME NEW s \in Nat PROVE c * s \in Int /\ (c + 1) * s = c * s + s
  BY SMT
<1> QED
  BY <1>1, <1>2

\* The index that is asked for: the next one, or the present.
LEMMA RequestGrainKeeps ==
  ASSUME PlayerInv, Grains, requestGrain
  PROVE  PlayerInv'
<1> DEFINE ini == IF initial.set THEN initial ELSE [set |-> TRUE, index |-> now, time |-> Running]
           idx == ini.index + current
           R == [set : BOOLEAN, index : Nat, time : Int]
<1>0. /\ PlayerTypes /\ ~IsSink /\ status = "idle" /\ status' = "call" /\ began' = now
      /\ req' = (IF idx < now THEN now ELSE idx) /\ initial' = shifted(ini, current, Running)
      /\ UNCHANGED <<app, now, up, gen, head, reader, current, discont, offset, seen, out>>
  BY DEF PlayerInv, requestGrain, flowVars, pushVars
<1>1. /\ now \in Nat /\ current \in Nat /\ Running \in Int /\ initial \in R /\ app \in Apps
      /\ out \in [index : Int, pts : Int, discont : BOOLEAN, fresh : BOOLEAN] /\ discont \in BOOLEAN
  BY <1>0, PlayerAssumption
     DEF PlayerTypes, FlowTypes, ThreadTypes, BufferTypes, Running, PlayerAssumption
<1>2. ini \in R /\ ini.set = TRUE /\ (initial.set => ini = initial)
  <2>1. CASE initial.set
    BY <1>1, <2>1
  <2>2. CASE ~initial.set
    BY <1>1, <2>2
  <2> QED
    BY <2>1, <2>2
<1> HIDE DEF ini
<1>3. current * Size \in Int /\ current * Size = current
  BY <1>1, CountIsInt
<1>4. /\ initial' \in R /\ initial'.set = TRUE /\ initial'.index = ini.index /\ initial'.time >= ini.time
  BY <1>0, <1>1, <1>2, <1>3, ShiftedIsLater
<1>5. req' \in Nat /\ req' >= now /\ req' >= idx /\ (req' <= idx \/ req' <= now) /\ ini.index \in Nat
  BY <1>0, <1>1, <1>2
<1>6. ThreadTypes'
  BY <1>0, <1>1, <1>5 DEF PlayerTypes, ThreadTypes
<1>7. DeliveredIsBefore'
  <2>1. reader' # 0 /\ req' >= 0 /\ initial'.set /\ Grains' /\ Size' = Size
    BY <1>0, <1>4, <1>5, SameApp DEF PlayerInv, DeliveredIsBefore
  <2>2. req' <= initial'.index + current' \/ req' <= now'
    BY <1>0, <1>4, <1>5
  <2>3. ASSUME ~out.fresh
        PROVE  out.index <= req' /\ (discont \/ out.pts <= current * Size + initial'.time)
    <3>1. /\ ini = initial /\ (out.index < initial.index + current \/ out.index <= now)
          /\ discont \/ out.pts <= current * Size + initial.time
      BY <1>0, <1>2, <2>3 DEF PlayerInv, DeliveredIsBefore
    <3>2. out.index <= req'
      BY <1>1, <1>5, <3>1
    <3>3. discont \/ out.pts <= current * Size + initial'.time
      <4>1. initial.time \in Int /\ initial'.time \in Int /\ out.pts \in Int
        BY <1>1, <1>4
      <4> QED
        BY <1>3, <1>4, <3>1, <4>1
    <3> QED
      BY <3>2, <3>3
  <2> QED
    BY <1>0, <2>1, <2>2, <2>3 DEF DeliveredIsBefore
<1> QED
  BY <1>0, <1>1, <1>4, <1>6, <1>7, SourceKeeps

\* The jump goes forward, past what was delivered, and is announced.
LEMMA CatchUpGoesForward ==
  ASSUME ~Grains, ~IsSink, app \in Apps, NEW h \in Nat, NEW i \in Int, i >= 0
  PROVE  /\ catch_up(h, i).index \in Int /\ catch_up(h, i).index >= i /\ catch_up(h, i).jumped \in BOOLEAN
         /\ catch_up(h, i).jumped \/ catch_up(h, i).index = i
<1>1. Size \in Nat /\ Size > 0 /\ Length \in Nat /\ 6 * Size <= Length
  BY SizeIsPositive, PlayerAssumption DEF PlayerAssumption
<1>2. CASE i < h - (Length - Size)
  <2>1. h >= 2 * Size /\ h - 2 * Size >= i
    BY <1>1, <1>2
  <2>2. catch_up(h, i) = [index |-> h - 2 * Size, jumped |-> TRUE]
    BY <1>2, <2>1 DEF catch_up
  <2> QED
    BY <1>1, <2>1, <2>2
<1>3. CASE ~(i < h - (Length - Size))
  <2>1. catch_up(h, i) = [index |-> i, jumped |-> FALSE]
    BY <1>3 DEF catch_up
  <2> QED
    BY <2>1
<1> QED
  BY <1>2, <1>3

LEMMA CreateAudioKeeps ==
  ASSUME PlayerInv, create_audio
  PROVE  PlayerInv'
<1> DEFINE h == head[reader]
           first == [set |-> TRUE, index |-> 0, time |-> Running]
           i == IF initial.set THEN req ELSE IF h >= Size THEN h - Size ELSE 0
           c == catch_up(h, i)
           R == [set : BOOLEAN, index : Nat, time : Int]
<1>0. /\ PlayerTypes /\ ~IsSink /\ ~Grains /\ status = "idle" /\ status' = "call" /\ began' = now
      /\ req' = c.index
      /\ initial' = (IF c.jumped \/ ~initial.set THEN first ELSE initial)
      /\ current' = (IF c.jumped \/ ~initial.set THEN 0 ELSE current)
      /\ discont' = (discont \/ c.jumped)
      /\ UNCHANGED <<app, now, up, gen, head, reader, offset, seen, out>>
  BY DEF PlayerInv, create_audio, flowVars, pushVars
<1>1. /\ now \in Nat /\ current \in Nat /\ Running \in Int /\ initial \in R /\ app \in Apps /\ req \in Int
      /\ out \in [index : Int, pts : Int, discont : BOOLEAN, fresh : BOOLEAN] /\ discont \in BOOLEAN
      /\ reader \in 0..MaxGen /\ head \in [1..MaxGen -> Nat] /\ MaxGen \in Nat
  <2>1. now \in Nat /\ current \in Nat /\ req \in Int /\ reader \in 0..MaxGen /\ app \in Apps
    BY <1>0 DEF PlayerTypes, FlowTypes, ThreadTypes
  <2>2. StartTime \in Nat /\ MaxGen \in Nat
    BY PlayerAssumption DEF PlayerAssumption
  <2>3. Running \in Int
    BY <2>1, <2>2 DEF Running
  <2>4. head \in [1..MaxGen -> Nat]
    BY <1>0 DEF PlayerTypes, FlowTypes
  <2>5. /\ initial \in R /\ discont \in BOOLEAN
        /\ out \in [index : Int, pts : Int, discont : BOOLEAN, fresh : BOOLEAN]
    BY <1>0 DEF PlayerTypes, BufferTypes
  <2> QED
    BY <2>1, <2>2, <2>3, <2>4, <2>5
<1>2. reader # 0 /\ req >= 0
  BY <1>0 DEF PlayerInv, DeliveredIsBefore
<1>3. h \in Nat /\ Size \in Nat
  BY <1>1, <1>2, SizeIsPositive
<1> HIDE DEF h
<1>4. i \in Int /\ i >= 0 /\ (initial.set => i = req)
  BY <1>1, <1>2, <1>3
<1> HIDE DEF i
<1>5. c.index \in Int /\ c.index >= i /\ c.jumped \in BOOLEAN /\ (c.jumped \/ c.index = i)
  BY <1>0, <1>1, <1>3, <1>4, CatchUpGoesForward
<1> HIDE DEF c
<1>6. initial' \in R /\ initial'.set = TRUE /\ current' \in Nat
  <2>1. first \in R /\ first.set = TRUE
    BY <1>1
  <2>2. CASE c.jumped \/ ~initial.set
    BY <1>0, <2>1, <2>2
  <2>3. CASE ~(c.jumped \/ ~initial.set)
    BY <1>0, <1>1, <2>3
  <2> QED
    BY <2>2, <2>3
<1>7. discont' \in BOOLEAN
  BY <1>0, <1>1, <1>5, Zenon
<1>8. ThreadTypes'
  BY <1>0, <1>1, <1>5, <1>6 DEF PlayerTypes, ThreadTypes
<1>9. DeliveredIsBefore'
  <2>1. reader' # 0 /\ req' >= 0 /\ initial'.set /\ ~Grains' /\ Size' = Size
    BY <1>0, <1>2, <1>4, <1>5, <1>6, SameApp
  <2>2. ASSUME ~out.fresh
        PROVE  /\ req' > out.index /\ (discont' \/ req' = out.index + Size)
               /\ discont' \/ out.pts <= current' * Size + initial'.time
    <3>1. /\ initial.set /\ req > out.index /\ (discont \/ req = out.index + Size)
          /\ discont \/ out.pts <= current * Size + initial.time
      BY <1>0, <2>2 DEF PlayerInv, DeliveredIsBefore
    <3>2. req' > out.index
      <4>1. out.index \in Int
        BY <1>1
      <4> QED
        BY <1>0, <1>1, <1>4, <1>5, <3>1, <4>1
    <3>3. CASE c.jumped
      BY <1>0, <3>2, <3>3
    <3>4. CASE ~c.jumped
      <4>1. req' = req /\ initial' = initial /\ current' = current /\ (discont => discont')
        BY <1>0, <1>4, <1>5, <3>1, <3>4
      <4> QED
        BY <3>1, <3>2, <4>1
    <3> QED
      BY <3>3, <3>4
  <2> QED
    BY <1>0, <2>1, <2>2 DEF DeliveredIsBefore
<1> QED
  BY <1>0, <1>1, <1>6, <1>7, <1>8, <1>9, SourceKeeps

\* What the delivered buffer carries.
LEMMA CreatedBufferMoves ==
  ASSUME PlayerTypes, createdBuffer
  PROVE  /\ initial' \in [set : BOOLEAN, index : Nat, time : Int]
         /\ initial'.set = initial.set /\ initial'.index = initial.index /\ initial'.time >= initial.time
         /\ out' \in [index : Int, pts : Int, discont : BOOLEAN, fresh : BOOLEAN]
         /\ out'.index = req /\ out'.pts = current * Size + initial'.time
         /\ out'.discont = discont /\ out'.fresh = FALSE
<1> DEFINE R == [set : BOOLEAN, index : Nat, time : Int]
           ini == IF ~Grains THEN shifted(initial, current, began - StartTime) ELSE initial
<1>1. /\ current \in Nat /\ initial \in R /\ app \in Apps /\ req \in Int /\ discont \in BOOLEAN
      /\ began - StartTime \in Int
  BY PlayerAssumption DEF PlayerTypes, ThreadTypes, BufferTypes, PlayerAssumption
<1>2. current * Size \in Int
  BY <1>1, CountIsInt
<1>3. ini \in R /\ ini.set = initial.set /\ ini.index = initial.index /\ ini.time >= initial.time
  <2>1. CASE ~Grains
    <3>1. /\ shifted(initial, current, began - StartTime) \in R
          /\ shifted(initial, current, began - StartTime).set = initial.set
          /\ shifted(initial, current, began - StartTime).index = initial.index
          /\ shifted(initial, current, began - StartTime).time >= initial.time
      BY <1>1, <1>2, ShiftedIsLater
    <3> QED
      BY <2>1, <3>1
  <2>2. CASE Grains
    <3>1. initial.time \in Int
      BY <1>1
    <3> QED
      BY <1>1, <2>2, <3>1
  <2> QED
    BY <2>1, <2>2
<1>4. /\ initial' = ini
      /\ out' = [index |-> req, pts |-> current * Size + ini.time, discont |-> discont, fresh |-> FALSE]
  BY DEF createdBuffer
<1> HIDE DEF ini
<1>5. current * Size + ini.time \in Int
  BY <1>2, <1>3
<1>6. out' \in [index : Int, pts : Int, discont : BOOLEAN, fresh : BOOLEAN]
  BY <1>1, <1>4, <1>5
<1>7. /\ out'.index = req /\ out'.pts = current * Size + initial'.time
      /\ out'.discont = discont /\ out'.fresh = FALSE
  BY <1>4
<1> QED
  BY <1>3, <1>4, <1>6, <1>7

LEMMA CreateKeeps ==
  ASSUME PlayerInv, create
  PROVE  PlayerInv'
<1>0. /\ PlayerTypes /\ ~IsSink /\ status = "call" /\ began' = 0
      /\ UNCHANGED <<app, now, up, gen, head, reader, offset, seen>>
      /\ current \in Nat /\ req \in Int /\ Size \in Nat /\ Size > 0 /\ app \in Apps /\ now \in Nat
      /\ initial \in [set : BOOLEAN, index : Nat, time : Int] /\ discont \in BOOLEAN
      /\ out \in [index : Int, pts : Int, discont : BOOLEAN, fresh : BOOLEAN]
  BY SizeIsPositive DEF PlayerInv, PlayerTypes, FlowTypes, ThreadTypes, BufferTypes, create, flowVars, pushVars
<1>1. CASE createdBuffer
  <2>1. /\ initial' \in [set : BOOLEAN, index : Nat, time : Int]
        /\ initial'.set = initial.set /\ initial'.index = initial.index /\ initial'.time >= initial.time
        /\ out' \in [index : Int, pts : Int, discont : BOOLEAN, fresh : BOOLEAN]
        /\ out'.index = req /\ out'.pts = current * Size + initial'.time /\ out'.fresh = FALSE
    BY <1>0, <1>1, CreatedBufferMoves
  <2>2. /\ discont' = FALSE /\ current' = current + 1 /\ status' = "idle"
        /\ req' = IF ~Grains THEN req + Size ELSE req
    BY <1>1 DEF createdBuffer
  <2>3. ThreadTypes'
    BY <1>0, <2>2 DEF PlayerTypes, ThreadTypes
  <2>4. discont' \in BOOLEAN
    BY <2>2, Zenon
  <2>5. DeliveredIsBefore'
    <3>1. /\ reader # 0 /\ req >= 0 /\ initial.set
          /\ Grains => req <= initial.index + current \/ req <= now
      BY <1>0 DEF PlayerInv, DeliveredIsBefore
    <3>2. reader' # 0 /\ req' >= 0 /\ initial'.set /\ Grains' = Grains /\ Size' = Size
      BY <1>0, <2>1, <2>2, <3>1, SameApp
    <3>3. ASSUME Grains PROVE out'.index < initial'.index + current' \/ out'.index <= now'
      <4>1. initial.index \in Nat /\ out'.index = req /\ initial'.index = initial.index
        BY <1>0, <2>1
      <4> QED
        BY <1>0, <2>2, <3>1, <3>3, <4>1
    <3>4. ASSUME ~Grains PROVE req' > out'.index /\ req' = out'.index + Size
      BY <1>0, <2>1, <2>2, <3>4
    <3>5. out'.pts <= current' * Size + initial'.time
      <4>1. current * Size \in Int /\ current' * Size = current * Size + Size
        BY <1>0, <2>2, CountIsInt
      <4>2. initial'.time \in Int
        BY <2>1
      <4> QED
        BY <1>0, <2>1, <4>1, <4>2
    <3> QED
      BY <2>2, <3>2, <3>3, <3>4, <3>5 DEF DeliveredIsBefore
  <2> QED
    BY <1>0, <2>1, <2>3, <2>4, <2>5, SourceKeeps
<1>2. CASE status' \in {"setup", "exited"} /\ UNCHANGED <<out, initial, discont, current, req>>
  <2>1. ThreadTypes'
    BY <1>0, <1>2 DEF PlayerTypes, ThreadTypes
  <2>2. DeliveredIsBefore'
    BY <1>2 DEF DeliveredIsBefore
  <2> QED
    BY <1>0, <1>2, <2>1, <2>2, SourceKeeps
<1> QED
  BY <1>1, <1>2 DEF create

LEMMA NextPlayerInv ==
  ASSUME PlayerInv, [Next]_vars
  PROVE  PlayerInv'
<1>1. CASE openReader \/ beginIteration \/ runVideo \/ runAudio \/ pushBuffer \/ next
  BY <1>1, SinkStepKeeps
<1>2. CASE negotiate \/ reattach
  BY <1>2, AttachKeeps
<1>3. CASE create_video \/ create_data
  BY <1>3, RequestGrainKeeps DEF create_video, create_data, Grains
<1>4. CASE create_audio
  BY <1>4, CreateAudioKeeps
<1>5. CASE create
  BY <1>5, CreateKeeps
<1>6. CASE Tick \/ Commit \/ DeleteFlow \/ CreateFlow \/ OtherPipelineRaises \/ UNCHANGED vars
  BY <1>6, EnvironmentKeeps
<1> QED
  BY <1>1, <1>2, <1>3, <1>4, <1>5, <1>6 DEF Next, Player

LEMMA SpecPlayerInv == Spec => []PlayerInv
BY InitPlayerInv, NextPlayerInv, PTL DEF Spec

\* Which steps deliver or push a buffer.
LEMMA WhatChangesTheBuffer ==
  ASSUME PlayerInv, [Next]_vars, out' # out
  PROVE  \/ IsSink /\ pushBuffer /\ out.index < req /\ out'.index = req
         \/ ~IsSink /\ (negotiate \/ reattach) /\ out'.fresh
         \/ ~IsSink /\ status = "call" /\ createdBuffer
<1>1. CASE pushBuffer
  <2>1. IsSink /\ out'.index = req
    BY <1>1, PushBufferMoves DEF PlayerInv
  <2>2. out.index < req
    BY <1>1, <2>1 DEF pushBuffer, PlayerInv, CursorFollowsTime
  <2> QED
    BY <1>1, <2>1, <2>2
<1>2. CASE negotiate \/ reattach
  <2>1. ~IsSink /\ out' = [out EXCEPT !.fresh = TRUE]
    BY <1>2 DEF negotiate, reattach, init
  <2>2. out'.fresh
    BY <2>1 DEF PlayerInv, PlayerTypes, BufferTypes
  <2> QED
    BY <1>2, <2>1, <2>2
<1>3. CASE create
  BY <1>3 DEF create
<1>4. CASE \/ openReader \/ beginIteration \/ runVideo \/ runAudio \/ next \/ create_video \/ create_data
           \/ create_audio \/ Tick \/ Commit \/ DeleteFlow \/ CreateFlow \/ OtherPipelineRaises \/ UNCHANGED vars
  BY <1>4 DEF openReader, beginIteration, runVideo, runAudio, next, create_video, create_data, requestGrain,
              create_audio, Tick, Commit, DeleteFlow, CreateFlow, OtherPipelineRaises, vars
<1> QED
  BY <1>1, <1>2, <1>3, <1>4 DEF Next, Player

(* mxl-gst-sink pushes every window once and in order, through realignments and *)
(* reopened flows (MxlReader::run, Cursor::realign, Cursor::next), for windows,  *)
(* delays and stalls of any length.                                             *)
THEOREM WindowsArePushedInOrder == Spec => PushedIndexGrows
<1>1. ASSUME PlayerInv, [Next]_vars, IsSink, out # out' PROVE out'.index > out.index
  <2>1. out.index \in Int /\ req \in Int
    BY <1>1 DEF PlayerInv, PlayerTypes, ThreadTypes, BufferTypes
  <2> QED
    BY <1>1, <2>1, WhatChangesTheBuffer
<1>2. PlayerInv /\ [Next]_vars => [IsSink /\ out # out' => out'.index > out.index]_vars
  BY <1>1
<1> QED
  BY <1>2, SpecPlayerInv, PTL DEF Spec, PushedIndexGrows

(* Between two initialisations mxlsrc delivers indices that never run backwards, *)
(* and times that do so only where DISCONT announces a jump (create_video,      *)
(* create_data, create_audio, catch_up), for every batch and buffer length.     *)
THEOREM BuffersAreCreatedInOrder == Spec => CreatedInOrder
<1>1. ASSUME PlayerInv, [Next]_vars, ~IsSink, out' # out, ~out.fresh, ~out'.fresh
      PROVE  out'.index >= out.index /\ (out'.pts >= out.pts \/ out'.discont)
  <2>1. status = "call" /\ createdBuffer /\ PlayerTypes
    BY <1>1, WhatChangesTheBuffer DEF PlayerInv
  <2>2. /\ initial'.time >= initial.time /\ out'.index = req /\ out'.pts = current * Size + initial'.time
        /\ out'.discont = discont /\ initial' \in [set : BOOLEAN, index : Nat, time : Int]
    BY <2>1, CreatedBufferMoves
  <2>3. /\ out.index \in Int /\ out.pts \in Int /\ req \in Int /\ initial.time \in Int /\ initial'.time \in Int
        /\ current * Size \in Int
    BY <2>1, <2>2, CountIsInt DEF PlayerTypes, ThreadTypes, BufferTypes
  <2>4. out.index <= req /\ (discont \/ out.pts <= current * Size + initial.time)
    BY <1>1, <2>1, <2>3 DEF PlayerInv, DeliveredIsBefore
  <2> QED
    BY <2>2, <2>3, <2>4
<1>2. PlayerInv /\ [Next]_vars
        => [~IsSink /\ out' # out /\ ~out.fresh /\ ~out'.fresh =>
                out'.index >= out.index /\ (out'.pts >= out.pts \/ out'.discont)]_vars
  BY <1>1
<1> QED
  BY <1>2, SpecPlayerInv, PTL DEF Spec, CreatedInOrder

(* Audio that mxlsrc skips within an attachment is announced by DISCONT         *)
(* (create_audio, catch_up), for every batch and buffer length.                 *)
THEOREM SkippedAudioIsAnnounced == Spec => SkippedAudioIsMarked
<1>1. ASSUME PlayerInv, [Next]_vars, ~IsSink, ~Grains, out' # out, ~out.fresh, ~out'.fresh
      PROVE  out'.index = out.index + Size \/ out'.discont
  <2>1. status = "call" /\ createdBuffer /\ PlayerTypes
    BY <1>1, WhatChangesTheBuffer DEF PlayerInv
  <2>2. out'.index = req /\ out'.discont = discont
    BY <2>1, CreatedBufferMoves
  <2> QED
    BY <1>1, <2>1, <2>2 DEF PlayerInv, DeliveredIsBefore
<1>2. PlayerInv /\ [Next]_vars
        => [~IsSink /\ ~Grains /\ out' # out /\ ~out.fresh /\ ~out'.fresh
                => out'.index = out.index + Size \/ out'.discont]_vars
  BY <1>1
<1> QED
  BY <1>2, SpecPlayerInv, PTL DEF Spec, SkippedAudioIsMarked

(* The offset that both pipelines of mxl-gst-sink share only grows              *)
(* (pushBuffer's compare and exchange of _ptsOffset).                           *)
THEOREM PtsOffsetOnlyGrows == Spec => OffsetOnlyGrows
<1>1. ASSUME PlayerInv, [Next]_vars PROVE offset' >= offset
  <2>1. offset \in Int
    BY <1>1 DEF PlayerInv, PlayerTypes, BufferTypes
  <2>2. CASE pushBuffer
    BY <1>1, <2>2, PushBufferMoves DEF PlayerInv
  <2>3. CASE OtherPipelineRaises
    BY <2>1, <2>3 DEF OtherPipelineRaises
  <2>4. CASE UNCHANGED offset
    BY <2>1, <2>4
  <2> QED
    BY <1>1, <2>2, <2>3, <2>4
    DEF Next, Player, openReader, beginIteration, runVideo, runAudio, next, negotiate, reattach, create_video,
        create_data, requestGrain, create_audio, create, Tick, Commit, DeleteFlow, CreateFlow, pushVars, vars
<1>2. PlayerInv /\ [Next]_vars => [offset' >= offset]_vars
  BY <1>1
<1> QED
  BY <1>2, SpecPlayerInv, PTL DEF Spec, OffsetOnlyGrows
=============================================================================
