------------------------ MODULE ContinuousFlowProofs ------------------------
(***************************************************************************)
(* Proofs about ContinuousFlow, for rings of every length, any number of   *)
(* readers and windows of every size: the two fragments are the window     *)
(* that was asked for, and a writer that appends does not touch what a     *)
(* reader may still read.                                                  *)
(***************************************************************************)
EXTENDS ContinuousFlow, TLAPS

(* --- Arithmetic of the ring ---------------------------------------------- *)

(* Quotient and remainder of a position in the ring.                        *)
LEMMA DivMod ==
  ASSUME NEW a \in Nat, NEW b \in Nat, b > 0
  PROVE  /\ a \div b \in Nat /\ a % b \in Nat /\ a % b < b
         /\ a = (a \div b) * b + (a % b)
BY SMT

(* Multiples of a ring's length lie at least one length apart.              *)
LEMMA Multiples ==
  ASSUME NEW b \in Nat, NEW p \in Nat, NEW q \in Nat, p + 1 <= q
  PROVE  p * b \in Nat /\ q * b \in Nat /\ p * b + b <= q * b
BY SMT

(* The remainder is what is left behind the multiple below.                 *)
LEMMA RemainderIs ==
  ASSUME NEW b \in Nat, b > 0, NEW q \in Nat, NEW s \in Nat, s < b
  PROVE  (q * b + s) % b = s
<1> DEFINE a == q * b + s
           d == a \div b
<1>1. a \in Nat /\ q * b \in Nat
  BY SMT
<1>2. d \in Nat /\ a % b \in Nat /\ a % b < b /\ a = d * b + (a % b)
  BY <1>1, DivMod
<1>3. ~(d + 1 <= q)
  <2>1. SUFFICES ASSUME d + 1 <= q PROVE FALSE
    OBVIOUS
  <2>2. d * b \in Nat /\ d * b + b <= q * b
    BY <1>2, <2>1, Multiples
  <2> HIDE DEF d
  <2> QED BY <1>1, <1>2, <2>2
<1>4. ~(q + 1 <= d)
  <2>1. SUFFICES ASSUME q + 1 <= d PROVE FALSE
    OBVIOUS
  <2>2. d * b \in Nat /\ q * b + b <= d * b
    BY <1>2, <2>1, Multiples
  <2> HIDE DEF d
  <2> QED BY <1>1, <1>2, <2>2
<1>5. d = q
  <2> HIDE DEF d
  <2> QED BY <1>2, <1>3, <1>4
<1>6. a = q * b + (a % b)
  BY <1>2, <1>5
<1>7. a % b = s
  <2> DEFINE m == a % b
             p == q * b
  <2>1. m \in Nat /\ p \in Nat /\ p + s = p + m
    BY <1>1, <1>2, <1>6
  <2> HIDE DEF m, p
  <2> QED BY <2>1 DEF m
<1> QED BY <1>7

(* Two samples less than a ring apart lie at different positions.           *)
LEMMA PositionsDiffer ==
  ASSUME NEW b \in Nat, b > 0, NEW x \in Nat, NEW y \in Nat, x < y, y < x + b
  PROVE  x % b # y % b
<1> DEFINE p == x \div b
           q == y \div b
           s == x % b
<1>1. SUFFICES ASSUME y % b = s PROVE FALSE
  OBVIOUS
<1>2. /\ p \in Nat /\ s \in Nat /\ s < b /\ x = p * b + s
      /\ q \in Nat /\ y = q * b + s
  BY <1>1, DivMod
<1>3. p * b \in Nat /\ q * b \in Nat
  BY <1>2
<1> HIDE DEF p, q, s
<1>4. CASE p = q
  BY <1>2, <1>3, <1>4
<1>5. CASE p + 1 <= q
  BY <1>2, <1>3, <1>5, Multiples
<1>6. CASE q + 1 <= p
  BY <1>2, <1>3, <1>6, Multiples
<1> QED BY <1>2, <1>4, <1>5, <1>6

(* The ring positions of `count' samples that end at `index', in terms of   *)
(* the position of the first one and of what fits behind it.                *)
LEMMA WindowPositions ==
  ASSUME NEW a \in Nat, NEW count \in Nat, count > 0, count <= BufferLength
  PROVE  LET s == a % BufferLength
         IN  {k % BufferLength : k \in a .. (a + count - 1)} =
               IF s + count <= BufferLength THEN s .. (s + count - 1)
               ELSE (s .. (BufferLength - 1)) \cup (0 .. (s + count - BufferLength - 1))
<1> DEFINE b == BufferLength
           s == a % b
           q == a \div b
           p == q * b
           W == {k % b : k \in a .. (a + count - 1)}
<1>1. b \in Nat /\ b > 0
  BY RingAssumption
<1>2. q \in Nat /\ s \in Nat /\ s < b /\ a = p + s /\ p \in Nat
  BY <1>1, DivMod
<1>3. \A t \in Nat : t < b => (p + t) % b = t
  BY <1>1, <1>2, RemainderIs
<1>4. \A t \in Nat : b <= t /\ t < 2 * b => (p + t) % b = t - b
  <2>1. SUFFICES ASSUME NEW t \in Nat, b <= t, t < 2 * b
                 PROVE  (p + t) % b = t - b
    OBVIOUS
  <2>2. ((q + 1) * b + (t - b)) % b = t - b
    <3>1. q + 1 \in Nat /\ t - b \in Nat /\ t - b < b
      BY <1>1, <1>2, <2>1
    <3> HIDE DEF b, q
    <3> QED BY <1>1, <3>1, RemainderIs
  <2>3. (q + 1) * b = p + b
    BY <1>1, <1>2
  <2>4. (q + 1) * b + (t - b) = p + t
    <3> HIDE DEF p, q, b
    <3> QED BY <1>1, <1>2, <2>1, <2>3
  <2> QED BY <2>2, <2>4
<1> HIDE DEF b, s, q, p
<1>5. \A x : x \in W <=> \E t \in s .. (s + count - 1) : x = (p + t) % b
  <2>1. ASSUME NEW x, x \in W
        PROVE  \E t \in s .. (s + count - 1) : x = (p + t) % b
    <3>1. PICK k \in a .. (a + count - 1) : x = k % b
      BY <2>1
    <3>2. k - p \in s .. (s + count - 1) /\ p + (k - p) = k
      BY <1>2, <3>1
    <3> QED BY <3>1, <3>2
  <2>2. ASSUME NEW x, NEW t \in s .. (s + count - 1), x = (p + t) % b
        PROVE  x \in W
    <3>1. p + t \in a .. (a + count - 1)
      BY <1>2, <2>2
    <3> QED BY <2>2, <3>1
  <2> QED BY <2>1, <2>2
<1> HIDE DEF W
<1>6. CASE s + count <= b
  <2>1. \A t \in s .. (s + count - 1) : (p + t) % b = t
    BY <1>1, <1>2, <1>3, <1>6
  <2>2. \A x : x \in W <=> x \in s .. (s + count - 1)
    BY <1>5, <2>1
  <2>3. W = s .. (s + count - 1)
    BY <2>2
  <2> QED BY <1>6, <2>3 DEF W, s, b
<1>7. CASE ~(s + count <= b)
  <2> DEFINE U == (s .. (b - 1)) \cup (0 .. (s + count - b - 1))
  <2>1. count <= b
    BY DEF b
  <2>2. ASSUME NEW x, x \in W PROVE x \in U
    <3>1. PICK t \in s .. (s + count - 1) : x = (p + t) % b
      BY <1>5, <2>2
    <3>2. CASE t < b
      BY <1>1, <1>2, <1>3, <3>1, <3>2
    <3>3. CASE b <= t
      BY <1>1, <1>2, <1>4, <2>1, <3>1, <3>3
    <3> QED BY <1>1, <1>2, <3>1, <3>2, <3>3
  <2>3. ASSUME NEW x, x \in U PROVE x \in W
    <3>1. CASE x \in s .. (b - 1)
      <4>1. x \in s .. (s + count - 1) /\ x = (p + x) % b
        BY <1>1, <1>2, <1>3, <1>7, <3>1
      <4> QED BY <1>5, <4>1
    <3>2. CASE x \in 0 .. (s + count - b - 1)
      <4>1. x + b \in s .. (s + count - 1) /\ x = (p + (x + b)) % b
        <5>1. x \in Nat /\ x + b \in Nat /\ b <= x + b /\ x + b < 2 * b
              /\ x + b \in s .. (s + count - 1) /\ (x + b) - b = x
          BY <1>1, <1>2, <1>7, <2>1, <3>2
        <5>2. (p + (x + b)) % b = (x + b) - b
          BY <1>4, <5>1
        <5> QED BY <5>1, <5>2
      <4> QED BY <1>5, <4>1
    <3> QED BY <2>3, <3>1, <3>2
  <2>4. W = U
    BY <2>2, <2>3
  <2> QED BY <1>7, <2>4 DEF W, s, b
<1> QED BY <1>6, <1>7 DEF s, b

(* A pair of fragments has the samples of its window, each once.            *)
Covers(f, index, count) ==
  /\ f.first + f.second = count
  /\ Positions(f) = {k % BufferLength : k \in (index - count) .. (index - 1)}

(* The arithmetic of getSamplesImpl and openSamples is right for every      *)
(* window that is not empty, fits into the ring and begins at index 0 or    *)
(* later.                                                                   *)
LEMMA FragmentsAreTheWindow ==
  ASSUME NEW index \in Nat, NEW count \in Nat,
         count > 0, count <= BufferLength, count <= index
  PROVE  Covers(Fragments(index, count), index, count)
<1> DEFINE b == BufferLength
           a == index - count
           s == a % b
           q == a \div b
           p == q * b
           f == Fragments(index, count)
<1>1. /\ b \in Nat /\ b > 0 /\ IndexModulus \in Nat /\ b < IndexModulus
      /\ a \in Nat /\ index = a + count
  BY RingAssumption
<1>2. q \in Nat /\ s \in Nat /\ s < b /\ a = p + s /\ p \in Nat
  BY <1>1, DivMod
<1>3. (q + 1) * b = p + b /\ (q + 1) * b \in Nat
  BY <1>1, <1>2
<1>4. (index + b - count) % b = s
  <2>1. ((q + 1) * b + s) % b = s
    <3>1. q + 1 \in Nat
      BY <1>2
    <3> HIDE DEF b, q, s
    <3> QED BY <1>1, <1>2, <3>1, RemainderIs
  <2>2. (q + 1) * b + s = index + b - count
    <3> HIDE DEF b, s, q, p
    <3> QED BY <1>1, <1>2, <1>3
  <2> QED BY <2>1, <2>2
<1> DEFINE W == {k % b : k \in (index - count) .. (index - 1)}
<1>5. W = IF s + count <= b THEN s .. (s + count - 1)
          ELSE (s .. (b - 1)) \cup (0 .. (s + count - b - 1))
  <2>1. a + count - 1 = index - 1
    BY <1>1
  <2>2. W = {k % b : k \in a .. (a + count - 1)}
    BY <2>1
  <2> HIDE DEF W
  <2> QED BY <1>1, <2>2, WindowPositions
<1>6. ASSUME f.first + f.second = count, Positions(f) = W
      PROVE  Covers(f, index, count)
  BY <1>6 DEF Covers
<1>7. CASE s + count < b
  <2>1. (q * b + (s + count)) % b = s + count
    <3>1. s + count \in Nat
      BY <1>2
    <3> HIDE DEF b, q, s
    <3> QED BY <1>1, <1>2, <1>7, <3>1, RemainderIs
  <2>2. q * b + (s + count) = index
    <3> HIDE DEF b, s, q
    <3> QED BY <1>1, <1>2
  <2>3. index % b = s + count
    BY <2>1, <2>2
  <2>4. f = [start |-> s, first |-> count, second |-> (count - count) % IndexModulus]
    <3> HIDE DEF s, q, p, a
    <3> QED BY <1>1, <1>2, <1>4, <2>3 DEF Fragments
  <2>5. (count - count) % IndexModulus = 0
    BY <1>1
  <2>6. Positions(f) = s .. (s + count - 1)
    <3> HIDE DEF s, f
    <3> QED BY <1>2, <2>4, <2>5 DEF Positions
  <2>7. f.first + f.second = count
    <3> HIDE DEF s, f
    <3> QED BY <1>1, <1>2, <2>4, <2>5
  <2>8. W = s .. (s + count - 1)
    <3> HIDE DEF s, W, b
    <3> QED BY <1>1, <1>2, <1>7, <1>5
  <2>9. Covers(f, index, count)
    <3> HIDE DEF f, W
    <3> QED BY <1>6, <2>6, <2>7, <2>8
  <2> QED BY <2>9
<1>8. CASE ~(s + count < b)
  <2>1. ((q + 1) * b + (s + count - b)) % b = s + count - b
    <3>1. q + 1 \in Nat /\ s + count - b \in Nat /\ s + count - b < b
      BY <1>1, <1>2, <1>8
    <3> HIDE DEF b, q, s
    <3> QED BY <1>1, <3>1, RemainderIs
  <2>2. (q + 1) * b + (s + count - b) = index
    <3> HIDE DEF b, s, q, p
    <3> QED BY <1>1, <1>2, <1>3
  <2>3. index % b = s + count - b
    BY <2>1, <2>2
  <2>4. f = [start |-> s, first |-> b - s, second |-> (count - (b - s)) % IndexModulus]
    <3> HIDE DEF s, q, p, a
    <3> QED BY <1>1, <1>2, <1>4, <2>3 DEF Fragments
  <2>5. (count - (b - s)) % IndexModulus = s + count - b
    <3> HIDE DEF s
    <3>1. count - (b - s) = s + count - b /\ s + count - b \in Nat
          /\ s + count - b < IndexModulus
      BY <1>1, <1>2, <1>8
    <3> QED BY <1>1, <3>1
  <2>6. Positions(f) = (s .. (b - 1)) \cup (0 .. (s + count - b - 1))
    <3> HIDE DEF s, f
    <3>1. f.start = s /\ f.first = b - s /\ f.second = s + count - b
      BY <2>4, <2>5
    <3>2. s + (b - s) - 1 = b - 1
      BY <1>1, <1>2
    <3>3. Positions(f) = (f.start .. (f.start + f.first - 1)) \cup (0 .. (f.second - 1))
      BY DEF Positions
    <3>4. Positions(f) = (s .. (s + (b - s) - 1)) \cup (0 .. ((s + count - b) - 1))
      BY <3>1, <3>3
    <3> HIDE DEF b
    <3> QED BY <1>1, <1>2, <3>2, <3>4, SMT
  <2>7. f.first + f.second = count
    <3> HIDE DEF s, f
    <3> QED BY <1>1, <1>2, <2>4, <2>5
  <2>8. W = (s .. (b - 1)) \cup (0 .. (s + count - b - 1))
    <3> HIDE DEF s, W, b
    <3>1. CASE s + count = b
      <4>1. 0 .. (s + count - b - 1) = {}
        BY <1>1, <1>2, <3>1
      <4> QED BY <1>1, <1>2, <1>5, <3>1, <4>1
    <3>2. CASE s + count # b
      BY <1>1, <1>2, <1>8, <1>5, <3>2
    <3> QED BY <3>1, <3>2
  <2>9. Covers(f, index, count)
    <3> HIDE DEF f, W
    <3> QED BY <1>6, <2>6, <2>7, <2>8
  <2> QED BY <2>9
<1> QED BY <1>7, <1>8

(* --- The invariant ------------------------------------------------------- *)

Stored == Indices \cup {UndefinedIndex}

Windows == [start : Nat, first : Nat, second : Nat]

Statuses == {"NONE", "OK", "TOO_EARLY", "TOO_LATE", "FLOW_INVALID"}

Types ==
  /\ headIndex \in Stored /\ currentIndex \in Stored /\ commits \in Nat
  /\ rpc \in [Readers -> {"idle", "loadCounter", "getSamplesImpl", "checkCounter",
                          "futexWait", "sleeping", "validate"}]
  /\ request \in [Readers -> Requests]
  /\ seenHead \in [Readers -> Stored]
  /\ result \in [Readers -> [status : Statuses, fragments : Windows]]

(* What a reader got is the window it asked for, as the head allowed it.    *)
Granted(r) ==
  GotSamples(r) =>
    /\ result[r].fragments = Fragments(request[r].index, request[r].count)
    /\ Verdict(seenHead[r], request[r].index, request[r].count) = "OK"

(* From the first commit on the window that is open begins at the head.     *)
OpenAtHead ==
  (commits > 0 /\ currentIndex # UndefinedIndex) =>
    \E count \in WriteCounts :
      /\ count <= HalfLength
      /\ openFragments = Fragments(currentIndex, count)
      /\ currentIndex - count = headIndex

RingInv ==
  /\ Types
  /\ \A r \in Readers : Granted(r)
  /\ InOrder => OpenAtHead

(* Fragments are offsets and lengths, whatever the window.                  *)
LEMMA FragmentsType ==
  ASSUME NEW index \in Nat, NEW count \in 0 .. BufferLength
  PROVE  Fragments(index, count) \in Windows
<1> DEFINE b == BufferLength
           s == (index + b - count) % b
           first == IF s < index % b THEN count ELSE b - s
           second == (count - first) % IndexModulus
<1>1. b \in Nat /\ b > 0 /\ IndexModulus \in Nat /\ IndexModulus > 0
      /\ count \in Nat /\ index + b - count \in Nat
  BY RingAssumption
<1>2. s \in Nat /\ s < b
  BY <1>1, DivMod
<1>3. first \in Nat
  BY <1>1, <1>2
<1>4. second \in Nat
  <2> HIDE DEF first
  <2> QED BY <1>1, <1>3
<1>5. Fragments(index, count) = [start |-> s, first |-> first, second |-> second]
  BY DEF Fragments
<1> HIDE DEF s, first, second
<1> QED BY <1>2, <1>3, <1>4, <1>5 DEF Windows

(* A caller names an index, and no more samples than the ring has.          *)
LEMMA RequestType ==
  ASSUME NEW q \in Requests
  PROVE  q.index \in Nat /\ q.count \in 0 .. BufferLength
<1>1. q.index \in Indices /\ q.count \in ReadCounts \cup {0}
  BY DEF Requests
<1>2. Indices \subseteq Nat /\ ReadCounts \cup {0} \subseteq 0 .. BufferLength
  BY RingAssumption DEF Indices
<1> QED BY <1>1, <1>2

(* Nobody has read or opened anything in the initial state.                 *)
LEMMA InitRingInv == Init => RingInv
<1>1. SUFFICES ASSUME Init PROVE RingInv
  OBVIOUS
<1>2. NoRequest \in Requests /\ NoFragments \in Windows /\ 0 \in Stored
  BY RingAssumption DEF NoRequest, Requests, Calls, NoFragments, Windows, Stored, Indices
<1>3. Types
  BY <1>1, <1>2 DEF Init, Types, Statuses, Stored
<1>4. \A r \in Readers : Granted(r)
  BY <1>1 DEF Init, Granted, GotSamples
<1>5. OpenAtHead
  BY <1>1 DEF Init, OpenAtHead
<1> QED BY <1>3, <1>4, <1>5 DEF RingInv

(* A step of reader r has to establish only what concerns r.                *)
LEMMA OneReader ==
  ASSUME RingInv, NEW r \in Readers, Types', Granted(r)',
         UNCHANGED <<headIndex, currentIndex, openFragments, commits>>,
         \A i \in Readers \ {r} :
           /\ rpc'[i] = rpc[i] /\ request'[i] = request[i]
           /\ seenHead'[i] = seenHead[i] /\ result'[i] = result[i]
  PROVE  RingInv'
<1>1. \A i \in Readers : Granted(i)'
  BY DEF RingInv, Granted, GotSamples
<1>2. InOrder => OpenAtHead'
  BY DEF RingInv, OpenAtHead
<1> QED BY <1>1, <1>2 DEF RingInv

(* So has a step that only moves r on to a position inside its call.        *)
LEMMA MoveOn ==
  ASSUME RingInv, NEW r \in Readers,
         NEW pc \in {"loadCounter", "getSamplesImpl", "checkCounter",
                     "futexWait", "sleeping", "validate"},
         Goto(r, pc),
         UNCHANGED <<headIndex, currentIndex, openFragments, commits,
                     request, seenHead, result>>
  PROVE  RingInv'
<1>1. Types'
  BY DEF RingInv, Types, Goto
<1>2. rpc'[r] = pc /\ \A i \in Readers \ {r} : rpc'[i] = rpc[i]
  BY DEF RingInv, Types, Goto
<1>3. Granted(r)'
  BY <1>2 DEF Granted, GotSamples
<1> QED BY <1>1, <1>2, <1>3, OneReader

(* A step of the writer that keeps what readers have, and the readers.      *)
LEMMA WriterOnly ==
  ASSUME RingInv, UNCHANGED <<rpc, request, seenHead, result>>,
         headIndex' \in Stored, currentIndex' \in Stored, commits' \in Nat,
         InOrder => OpenAtHead'
  PROVE  RingInv'
<1>1. Types'
  BY DEF RingInv, Types
<1>2. \A r \in Readers : Granted(r)'
  BY DEF RingInv, Granted, GotSamples
<1> QED BY <1>1, <1>2 DEF RingInv

(* Every step of the writer keeps the invariant.                            *)
LEMMA WriterRingInv ==
  ASSUME RingInv,
         \/ \E index \in Indices, count \in WriteCounts : openSamples(index, count)
         \/ cancel \/ commit \/ CommitStep \/ FlowReplaced
  PROVE  RingInv'
<1>1. ASSUME NEW index \in Indices, NEW count \in WriteCounts, openSamples(index, count)
      PROVE  RingInv'
  <2>1. InOrder => OpenAtHead'
    BY <1>1 DEF RingInv, Types, openSamples, Appends, OpenAtHead
  <2> QED BY <1>1, <2>1, WriterOnly DEF RingInv, Types, openSamples, Stored, readerVars
<1>2. CASE cancel
  <2>1. OpenAtHead'
    BY <1>2 DEF cancel, OpenAtHead
  <2> QED BY <1>2, <2>1, WriterOnly DEF RingInv, Types, cancel, Stored, readerVars
<1>3. CASE commit
  <2>1. OpenAtHead'
    BY <1>3 DEF commit, OpenAtHead
  <2> QED BY <1>3, <2>1, WriterOnly DEF RingInv, Types, commit, Stored, readerVars
<1>4. CASE IncrementSyncCounter
  <2>1. InOrder => OpenAtHead'
    BY <1>4 DEF RingInv, OpenAtHead, IncrementSyncCounter
  <2> QED BY <1>4, <2>1, WriterOnly DEF RingInv, Types, IncrementSyncCounter, readerVars
<1>5. CASE wakeAll
  <2>1. Types'
    BY <1>5 DEF RingInv, Types, wakeAll
  <2>2. \A r \in Readers : Granted(r)'
    BY <1>5 DEF RingInv, Types, wakeAll, Granted, GotSamples
  <2>3. InOrder => OpenAtHead'
    BY <1>5 DEF RingInv, OpenAtHead, wakeAll
  <2> QED BY <2>1, <2>2, <2>3 DEF RingInv
<1>6. CASE FlowReplaced
  <2>1. InOrder => OpenAtHead'
    BY <1>6 DEF RingInv, OpenAtHead, FlowReplaced, writerVars
  <2> QED BY <1>6, <2>1, WriterOnly DEF RingInv, Types, FlowReplaced, writerVars, readerVars
<1> QED BY <1>1, <1>2, <1>3, <1>4, <1>5, <1>6 DEF CommitStep

(* Every step of a reader keeps the invariant; the one that counts is the   *)
(* look at the head, which decides and computes the fragments at once.      *)
LEMMA ReaderRingInv ==
  ASSUME RingInv, NEW r \in Readers,
         \/ \E q \in Requests : Begin(r, q)
         \/ ReaderStep(r) \/ DeadlinePassed(r) \/ Interrupted(r)
  PROVE  RingInv'
<1> USE DEF writerVars
<1>0. Types
  BY DEF RingInv
<1>1. ASSUME NEW q \in Requests, Begin(r, q)
      PROVE  RingInv'
  <2>1. Types'
    <3>1. NoFragments \in Windows /\ 0 \in Stored
      BY RingAssumption DEF NoFragments, Windows, Stored, Indices
    <3> QED BY <1>0, <1>1, <3>1 DEF Types, Begin, Goto, Statuses
  <2>2. rpc'[r] # "idle"
    BY <1>0, <1>1 DEF Types, Begin, Goto
  <2>3. Granted(r)'
    BY <2>2 DEF Granted, GotSamples
  <2> QED BY <1>0, <1>1, <2>1, <2>3, OneReader DEF Types, Begin, Goto
<1>2. CASE LoadCounter(r)
  BY <1>2, MoveOn DEF LoadCounter
<1>3. CASE getSamplesImpl(r)
  <2> DEFINE q == request[r]
             verdict == Verdict(headIndex, q.index, q.count)
  <2>1. /\ UNCHANGED <<headIndex, currentIndex, openFragments, commits, request>>
        /\ seenHead' = [seenHead EXCEPT ![r] = headIndex]
    BY <1>3 DEF getSamplesImpl
  <2>2. /\ q \in Requests /\ q.index \in Nat /\ q.count \in 0 .. BufferLength
        /\ NoFragments \in Windows
    BY <1>0, RequestType DEF Types, NoFragments, Windows
  <2>3. Fragments(q.index, q.count) \in Windows
    BY <2>2, FragmentsType
  <2>4. CASE verdict = "TOO_EARLY"
    <3>1. \E pc \in {"validate", "checkCounter"} : Goto(r, pc) /\ UNCHANGED result
      BY <1>3, <2>4 DEF getSamplesImpl
    <3>2. Types'
      BY <1>0, <2>1, <3>1 DEF Types, Goto
    <3>3. Granted(r)'
      BY <1>0, <3>1 DEF Types, Goto, Granted, GotSamples
    <3> QED BY <1>0, <2>1, <3>1, <3>2, <3>3, OneReader DEF Types, Goto
  <2>5. CASE verdict = "OK"
    <3> DEFINE f == IF q.call = "waitForSamples" THEN NoFragments
                    ELSE Fragments(q.index, q.count)
    <3>1. /\ rpc' = [rpc EXCEPT ![r] = "idle"]
          /\ result' = [result EXCEPT ![r] = [status |-> "OK", fragments |-> f]]
      BY <1>3, <2>5 DEF getSamplesImpl, Finish, Goto
    <3>2. f \in Windows
      BY <2>2, <2>3
    <3>3. Types'
      <4> HIDE DEF f
      <4> QED BY <1>0, <2>1, <3>1, <3>2 DEF Types, Statuses
    <3>4. /\ request'[r] = q /\ seenHead'[r] = headIndex
          /\ result'[r].fragments = f
      BY <1>0, <2>1, <3>1 DEF Types
    <3>5. Granted(r)'
      BY <2>5, <3>4 DEF Granted, GotSamples
    <3> QED BY <1>0, <2>1, <3>1, <3>3, <3>5, OneReader DEF Types
  <2>6. CASE verdict = "TOO_LATE"
    <3>1. /\ rpc' = [rpc EXCEPT ![r] = "idle"]
          /\ result' = [result EXCEPT ![r] = [status |-> "TOO_LATE", fragments |-> NoFragments]]
      BY <1>3, <2>6 DEF getSamplesImpl, Finish, Goto
    <3>2. Types'
      BY <1>0, <2>1, <2>2, <3>1 DEF Types, Statuses
    <3>3. Granted(r)'
      BY <1>0, <3>1 DEF Types, Granted, GotSamples
    <3> QED BY <1>0, <2>1, <3>1, <3>2, <3>3, OneReader DEF Types
  <2> QED BY <2>4, <2>5, <2>6 DEF Verdict
<1>4. CASE CheckCounter(r)
  BY <1>4, MoveOn DEF CheckCounter
<1>5. CASE FutexWait(r)
  BY <1>5, MoveOn DEF FutexWait
<1>6. CASE Validate(r)
  <2>1. \E status \in {"TOO_EARLY", "FLOW_INVALID"} :
          /\ rpc' = [rpc EXCEPT ![r] = "idle"]
          /\ result' = [result EXCEPT ![r] = [status |-> status, fragments |-> NoFragments]]
    BY <1>6 DEF Validate, Finish, Goto
  <2>2. UNCHANGED <<headIndex, currentIndex, openFragments, commits, request, seenHead>>
    BY <1>6 DEF Validate
  <2>3. NoFragments \in Windows
    BY DEF NoFragments, Windows
  <2>4. Types'
    BY <1>0, <2>1, <2>2, <2>3 DEF Types, Statuses
  <2>5. Granted(r)'
    BY <1>0, <2>1 DEF Types, Granted, GotSamples
  <2> QED BY <1>0, <2>1, <2>2, <2>4, <2>5, OneReader DEF Types
<1>7. CASE DeadlinePassed(r)
  BY <1>7, MoveOn DEF DeadlinePassed
<1>8. CASE Interrupted(r)
  BY <1>8, MoveOn DEF Interrupted
<1> QED BY <1>1, <1>2, <1>3, <1>4, <1>5, <1>6, <1>7, <1>8 DEF ReaderStep

(* The invariant holds in every reachable state.                            *)
LEMMA RingInvHolds == Spec => []RingInv
<1>1. RingInv /\ [Next]_vars => RingInv'
  <2>1. SUFFICES ASSUME RingInv, [Next]_vars PROVE RingInv'
    OBVIOUS
  <2>2. CASE UNCHANGED vars
    BY <2>1, <2>2 DEF vars, writerVars, readerVars, RingInv, Types, Granted, GotSamples, OpenAtHead
  <2>3. CASE Next
    BY <2>1, <2>3, WriterRingInv, ReaderRingInv DEF Next
  <2> QED BY <2>1, <2>2, <2>3
<1> QED BY <1>1, InitRingInv, PTL DEF Spec

(* --- Results ------------------------------------------------------------- *)

(* A window that is granted begins at index 0 or later.                     *)
LEMMA GrantedWindow ==
  ASSUME RingInv, NEW r \in Readers, GotSamples(r), request[r].count > 0
  PROVE  LET q == request[r]
         IN  /\ q.index \in Nat /\ q.count \in Nat /\ seenHead[r] \in Nat
             /\ q.count <= q.index /\ q.count <= BufferLength
             /\ q.index <= seenHead[r] /\ seenHead[r] - HalfLength <= q.index - q.count
             /\ Covers(result[r].fragments, q.index, q.count)
<1> DEFINE q == request[r]
<1>0. q \in Requests
  BY DEF RingInv, Types
<1>1. /\ q.index \in Nat /\ q.count \in 0 .. BufferLength
      /\ q.count \in Nat /\ q.count <= BufferLength
  <2> HIDE DEF q
  <2> QED BY <1>0, RequestType, RingAssumption
<1>2. seenHead[r] \in Nat
  BY RingAssumption DEF RingInv, Types, Stored, Indices, UndefinedIndex
<1>3. HalfLength \in Nat
  BY RingAssumption DEF HalfLength
<1>4. /\ result[r].fragments = Fragments(q.index, q.count)
      /\ Verdict(seenHead[r], q.index, q.count) = "OK"
  BY DEF RingInv, Granted
<1> HIDE DEF q
<1>5. q.index <= seenHead[r] /\ q.index - MinIndex(seenHead[r]) >= q.count
  BY <1>1, <1>2, <1>4 DEF Verdict
<1>6. /\ q.count <= q.index /\ seenHead[r] - HalfLength <= q.index - q.count
  BY <1>1, <1>2, <1>3, <1>5 DEF MinIndex
<1>7. q.count > 0
  BY DEF q
<1>8. Covers(Fragments(q.index, q.count), q.index, q.count)
  BY <1>1, <1>6, <1>7, FragmentsAreTheWindow
<1> QED BY <1>1, <1>2, <1>4, <1>5, <1>6, <1>8 DEF q

(* The fragments that getSamples hands out are the samples asked for, each  *)
(* once, wherever the window lies in the ring and whatever the writer does. *)
THEOREM FragmentsAlwaysCover == Spec => []FragmentsCoverWindow
<1>1. RingInv => FragmentsCoverWindow
  BY GrantedWindow DEF FragmentsCoverWindow, Covers
<1> QED BY <1>1, RingInvHolds, PTL

(* The same of a window that an appending writer has open.                  *)
LEMMA OpenWindow ==
  ASSUME RingInv, InOrder, 0 \notin WriteCounts,
         commits > 0, currentIndex # UndefinedIndex
  PROVE  \E count \in WriteCounts :
           /\ count \in Nat /\ count <= HalfLength /\ headIndex \in Nat
           /\ currentIndex = headIndex + count
           /\ Covers(openFragments, currentIndex, count)
<1>1. PICK count \in WriteCounts :
        /\ count <= HalfLength
        /\ openFragments = Fragments(currentIndex, count)
        /\ currentIndex - count = headIndex
  BY DEF RingInv, OpenAtHead
<1>2. count \in Nat /\ count > 0 /\ count <= BufferLength
  BY RingAssumption
<1>3. currentIndex \in Nat /\ headIndex \in Nat
  BY RingAssumption DEF RingInv, Types, Stored, Indices, UndefinedIndex
<1>4. currentIndex = headIndex + count /\ count <= currentIndex
  BY <1>1, <1>2, <1>3
<1>5. Covers(openFragments, currentIndex, count)
  BY <1>1, <1>2, <1>3, <1>4, FragmentsAreTheWindow
<1> QED BY <1>1, <1>2, <1>3, <1>4, <1>5

(* Half of the ring is read and the other half written: a writer that       *)
(* appends windows that are not empty never opens one that touches samples  *)
(* granted under the present head.                                          *)
THEOREM FreshReadsAreSafe ==
  (InOrder /\ 0 \notin WriteCounts) => (Spec => []FreshReadIsNotOverwritten)
<1>1. SUFFICES ASSUME InOrder, 0 \notin WriteCounts
               PROVE  Spec => []FreshReadIsNotOverwritten
  OBVIOUS
<1>2. RingInv => FreshReadIsNotOverwritten
  <2>1. SUFFICES ASSUME RingInv, NEW r \in Readers, GotSamples(r), request[r].count > 0,
                        seenHead[r] = headIndex, commits > 0, currentIndex # UndefinedIndex,
                        NEW x, x \in Positions(result[r].fragments),
                        x \in Positions(openFragments)
                 PROVE  FALSE
    BY DEF FreshReadIsNotOverwritten
  <2> DEFINE q == request[r]
  <2>2. /\ q.index \in Nat /\ q.count \in Nat /\ headIndex \in Nat /\ q.count <= q.index
        /\ q.index <= headIndex /\ headIndex - HalfLength <= q.index - q.count
        /\ Covers(result[r].fragments, q.index, q.count)
    BY <2>1, GrantedWindow
  <2>3. PICK count \in WriteCounts :
          /\ count \in Nat /\ count <= HalfLength
          /\ currentIndex = headIndex + count
          /\ Covers(openFragments, currentIndex, count)
    BY <1>1, <2>1, OpenWindow
  <2> HIDE DEF q
  <2>4. PICK k \in (q.index - q.count) .. (q.index - 1) : x = k % BufferLength
    BY <2>1, <2>2 DEF Covers
  <2>5. PICK l \in (currentIndex - count) .. (currentIndex - 1) : x = l % BufferLength
    BY <2>1, <2>3 DEF Covers
  <2>6. HalfLength \in Nat /\ BufferLength \in Nat /\ BufferLength > 0
        /\ HalfLength + HalfLength <= BufferLength
    BY RingAssumption DEF HalfLength
  <2>7. k \in Nat /\ l \in Nat /\ k < l /\ l < k + BufferLength
    BY <2>2, <2>3, <2>4, <2>5, <2>6
  <2>8. k % BufferLength # l % BufferLength
    BY <2>6, <2>7, PositionsDiffer
  <2> QED BY <2>4, <2>5, <2>8
<1> QED BY <1>1, <1>2, RingInvHolds, PTL
=============================================================================
