--------------------------- MODULE ContinuousFlow ---------------------------
(***************************************************************************)
(* One continuous (audio) flow: a ring of bufferLength samples per channel *)
(* in shared memory, its writer (PosixContinuousFlowWriter), its readers   *)
(* (PosixContinuousFlowReader) and the futex on which blocked readers      *)
(* sleep.  A sample window is named by the index behind its last sample    *)
(* and by its length; the library hands it out as two fragments of the     *)
(* ring.  Channels differ only in their base address, so one stands for    *)
(* all; what the samples are does not matter, only where they lie.         *)
(*                                                                         *)
(* An index is a 64 bit number: MXL_UNDEFINED_INDEX is the largest one,    *)
(* and lengths wrap (IndexModulus is 2^64 in the code).                    *)
(***************************************************************************)
EXTENDS Integers, FiniteSets

CONSTANTS
  Readers,          \* processes that hold a reader of the flow
  BufferLength,     \* config.continuous.bufferLength
  IndexModulus,     \* number of values of an index or a length
  SyncBatchHint,    \* maxSyncBatchSizeHint
  CommitBatchHint,  \* maxCommitBatchSizeHint
  ReadCounts,       \* the numbers of samples that readers ask for
  WriteCounts,      \* the numbers of samples that the writer opens
  MaxIndex,         \* bound: the largest index a caller uses
  MaxCommits,       \* bound: the number of commits of a behaviour
  InOrder           \* TRUE: the writer appends without gaps, FALSE: anything

(* The ring holds two samples at least, and no index in use comes near 2^64. *)
ASSUME RingAssumption ==
  /\ BufferLength \in Nat /\ BufferLength >= 2
  /\ MaxIndex \in Nat /\ MaxIndex + BufferLength < IndexModulus - 1
  /\ IndexModulus \in Nat
  /\ SyncBatchHint \in Nat /\ CommitBatchHint \in Nat
  /\ MaxCommits \in Nat
  /\ ReadCounts \subseteq 0 .. BufferLength
  /\ WriteCounts \subseteq 0 .. BufferLength
  /\ InOrder \in BOOLEAN

Indices == 0 .. MaxIndex

UndefinedIndex == IndexModulus - 1

AtLeastOne(n) == IF n > 1 THEN n ELSE 1

\* _syncBatchSize and _earlySyncThreshold of the writer.
SyncBatchSize == AtLeastOne(SyncBatchHint)

EarlySyncThreshold ==
  IF SyncBatchSize >= AtLeastOne(CommitBatchHint)
  THEN SyncBatchSize - AtLeastOne(CommitBatchHint) ELSE 0

Calls == {"getSamples", "waitForSamples", "getSamplesNonBlocking"}

Requests == {q \in [index : Indices, count : ReadCounts \cup {0}, call : Calls] :
               (q.call = "waitForSamples" /\ q.count = 0) \/
               (q.call # "waitForSamples" /\ q.count \in ReadCounts)}

NoFragments == [start |-> 0, first |-> 0, second |-> 0]

VARIABLES
  headIndex, syncCounter,   \* shared memory
  inodeMatches,             \* the data path still names the mapped inode
  wpc,                      \* where the writer is in commit()
  currentIndex,             \* _currentIndex
  lastSyncSampleBatch,      \* _lastSyncSampleBatch
  openFragments,            \* the fragments of the last openSamples()
  rpc, request,             \* reader -> position in its call, its arguments
  seenCounter, seenHead,    \* reader -> previousSyncCounter, headIndex as read
  result,                   \* reader -> what its last call returned
  commits                   \* number of commits, bounded by MaxCommits

writerVars == <<wpc, currentIndex, lastSyncSampleBatch, openFragments>>
readerVars == <<rpc, request, seenCounter, seenHead, result>>
vars == <<headIndex, syncCounter, inodeMatches, writerVars, readerVars, commits>>

NoRequest == [index |-> 0, count |-> 0, call |-> "waitForSamples"]

Init ==
  /\ headIndex = 0 /\ syncCounter = 0 /\ inodeMatches = TRUE
  /\ wpc = "idle" /\ currentIndex = UndefinedIndex
  /\ lastSyncSampleBatch = 0 /\ openFragments = NoFragments
  /\ rpc = [r \in Readers |-> "idle"]
  /\ request = [r \in Readers |-> NoRequest]
  /\ seenCounter = [r \in Readers |-> 0]
  /\ seenHead = [r \in Readers |-> 0]
  /\ result = [r \in Readers |-> [status |-> "NONE", fragments |-> NoFragments]]
  /\ commits = 0

-----------------------------------------------------------------------------
(* The geometry of the ring *)

HalfLength == BufferLength \div 2

\* Faulty variant: the first fragment stops one sample before the end of the ring.
FragmentsShort(index, count) ==
  LET startOffset == (index + BufferLength - count) % BufferLength
      endOffset == index % BufferLength
      firstLength == IF startOffset < endOffset THEN count
                     ELSE BufferLength - 1 - startOffset
  IN  [start |-> startOffset, first |-> firstLength,
       second |-> (count - firstLength) % IndexModulus]

(* The fragments of the window of `count' samples that ends at `index'.     *)
Fragments(index, count) ==
  LET startOffset == (index + BufferLength - count) % BufferLength
      endOffset == index % BufferLength
      firstLength == IF startOffset < endOffset THEN count ELSE BufferLength - startOffset
  IN  [start |-> startOffset, first |-> firstLength,
       second |-> (count - firstLength) % IndexModulus]

\* Faulty variant: the whole ring is readable.
MinIndexFullRing(head) == IF head >= BufferLength THEN head - BufferLength ELSE 0

\* The oldest sample that may be read: only one half of the ring is.
MinIndex(head) == IF head >= HalfLength THEN head - HalfLength ELSE 0

\* The answer of getSamplesImpl to a request that sees this head.
Verdict(head, index, count) ==
  IF index > head THEN "TOO_EARLY"
  ELSE IF index >= MinIndex(head) /\ index - MinIndex(head) >= count THEN "OK"
  ELSE "TOO_LATE"

-----------------------------------------------------------------------------
(* The writer *)

Appends(index, count) == commits = 0 \/ index - count = headIndex

\* More than half the ring is refused (MXL_ERR_INVALID_ARG): a stuttering step.
openSamples(index, count) ==
  /\ wpc = "idle"
  /\ count <= HalfLength
  /\ InOrder => Appends(index, count)
  /\ openFragments' = Fragments(index, count)
  /\ currentIndex' = index
  /\ UNCHANGED <<headIndex, syncCounter, inodeMatches, wpc, lastSyncSampleBatch,
                 readerVars, commits>>

cancel ==
  /\ wpc = "idle"
  /\ currentIndex' = UndefinedIndex
  /\ UNCHANGED <<headIndex, syncCounter, inodeMatches, wpc, lastSyncSampleBatch,
                 openFragments, readerVars, commits>>

(* What signalCompletedBatch does for this value of _currentIndex: whether  *)
(* it asks for a signal, and its new _lastSyncSampleBatch.                  *)
SignalCompletedBatch(index) ==
  LET batch == index \div SyncBatchSize
  IN  IF batch < lastSyncSampleBatch
      THEN [signal |-> FALSE, last |-> lastSyncSampleBatch]
      ELSE IF batch > lastSyncSampleBatch
      THEN [signal |-> TRUE, last |-> batch]
      ELSE IF index % SyncBatchSize > EarlySyncThreshold
      THEN [signal |-> TRUE, last |-> batch + 1]
      ELSE [signal |-> FALSE, last |-> lastSyncSampleBatch]

(* The open window becomes the head.  _currentIndex is reset first, so      *)
(* signalCompletedBatch always looks at MXL_UNDEFINED_INDEX.                *)
commit ==
  /\ wpc = "idle"
  /\ commits < MaxCommits
  /\ InOrder => currentIndex # UndefinedIndex
  /\ headIndex' = currentIndex
  /\ currentIndex' = UndefinedIndex
  /\ lastSyncSampleBatch' = SignalCompletedBatch(currentIndex').last
  /\ wpc' = IF SignalCompletedBatch(currentIndex').signal THEN "increment" ELSE "idle"
  /\ commits' = commits + 1
  /\ UNCHANGED <<syncCounter, inodeMatches, openFragments, readerVars>>

IncrementSyncCounter ==
  /\ wpc = "increment"
  /\ syncCounter' = syncCounter + 1
  /\ wpc' = "wake"
  /\ UNCHANGED <<headIndex, inodeMatches, currentIndex, lastSyncSampleBatch,
                 openFragments, readerVars, commits>>

wakeAll ==
  /\ wpc = "wake"
  /\ rpc' = [r \in Readers |-> IF rpc[r] = "sleeping" THEN "checkCounter" ELSE rpc[r]]
  /\ wpc' = "idle"
  /\ UNCHANGED <<headIndex, syncCounter, inodeMatches, currentIndex, lastSyncSampleBatch,
                 openFragments, request, seenCounter, seenHead, result, commits>>

-----------------------------------------------------------------------------
(* The readers *)

Goto(r, pc) == rpc' = [rpc EXCEPT ![r] = pc]

\* The call returns; what it remembered of the counter is forgotten.
Finish(r, status, fragments) ==
  /\ Goto(r, "idle")
  /\ result' = [result EXCEPT ![r] = [status |-> status, fragments |-> fragments]]
  /\ seenCounter' = [seenCounter EXCEPT ![r] = 0]

Begin(r, q) ==
  /\ rpc[r] = "idle"
  /\ request' = [request EXCEPT ![r] = q]
  /\ Goto(r, IF q.call = "getSamplesNonBlocking" THEN "getSamplesImpl" ELSE "loadCounter")
  /\ result' = [result EXCEPT ![r] = [status |-> "NONE", fragments |-> NoFragments]]
  /\ seenHead' = [seenHead EXCEPT ![r] = 0]
  /\ UNCHANGED <<headIndex, syncCounter, inodeMatches, writerVars, seenCounter, commits>>

LoadCounter(r) ==
  /\ rpc[r] = "loadCounter"
  /\ seenCounter' = [seenCounter EXCEPT ![r] = syncCounter]
  /\ Goto(r, "getSamplesImpl")
  /\ UNCHANGED <<headIndex, syncCounter, inodeMatches, writerVars, request,
                 seenHead, result, commits>>

(* headIndex is the only shared word that getSamplesImpl reads.  A reader   *)
(* that is too early waits, unless its call does not block.                 *)
getSamplesImpl(r) ==
  LET q == request[r]
      verdict == Verdict(headIndex, q.index, q.count)
  IN /\ rpc[r] = "getSamplesImpl"
     /\ seenHead' = [seenHead EXCEPT ![r] = headIndex]
     /\ \/ /\ verdict = "TOO_EARLY"
           /\ Goto(r, IF q.call = "getSamplesNonBlocking" THEN "validate" ELSE "checkCounter")
           /\ UNCHANGED <<seenCounter, result>>
        \/ /\ verdict = "OK"
           /\ Finish(r, "OK", IF q.call = "waitForSamples" THEN NoFragments
                              ELSE Fragments(q.index, q.count))
        \/ /\ verdict = "TOO_LATE"
           /\ Finish(r, "TOO_LATE", NoFragments)
     /\ UNCHANGED <<headIndex, syncCounter, inodeMatches, writerVars, request, commits>>

\* The loop of waitUntilChanged.
CheckCounter(r) ==
  /\ rpc[r] = "checkCounter"
  /\ Goto(r, IF syncCounter # seenCounter[r] THEN "loadCounter" ELSE "futexWait")
  /\ UNCHANGED <<headIndex, syncCounter, inodeMatches, writerVars, request,
                 seenCounter, seenHead, result, commits>>

FutexWait(r) ==
  /\ rpc[r] = "futexWait"
  /\ Goto(r, IF syncCounter = seenCounter[r] THEN "sleeping" ELSE "checkCounter")
  /\ UNCHANGED <<headIndex, syncCounter, inodeMatches, writerVars, request,
                 seenCounter, seenHead, result, commits>>

\* Faulty variant: ETIMEDOUT is retried like EINTR, and nothing else looks at the deadline.
RetryAfterTimeout(r) ==
  /\ rpc[r] = "sleeping"
  /\ Goto(r, "checkCounter")
  /\ UNCHANGED <<headIndex, syncCounter, inodeMatches, writerVars, request,
                 seenCounter, seenHead, result, commits>>

\* The deadline is found to have passed, in user space or by the kernel.
DeadlinePassed(r) ==
  /\ \/ rpc[r] = "checkCounter" /\ syncCounter = seenCounter[r]
     \/ rpc[r] = "sleeping"
  /\ Goto(r, "validate")
  /\ UNCHANGED <<headIndex, syncCounter, inodeMatches, writerVars, request,
                 seenCounter, seenHead, result, commits>>

\* EINTR, or a spurious return of FUTEX_WAIT.
Interrupted(r) ==
  /\ rpc[r] = "sleeping"
  /\ Goto(r, "checkCounter")
  /\ UNCHANGED <<headIndex, syncCounter, inodeMatches, writerVars, request,
                 seenCounter, seenHead, result, commits>>

Validate(r) ==
  /\ rpc[r] = "validate"
  /\ Finish(r, IF inodeMatches THEN "TOO_EARLY" ELSE "FLOW_INVALID", NoFragments)
  /\ UNCHANGED <<headIndex, syncCounter, inodeMatches, writerVars, request, seenHead, commits>>

\* The flow is deleted, or created anew, under its path.
FlowReplaced ==
  /\ inodeMatches
  /\ inodeMatches' = FALSE
  /\ UNCHANGED <<headIndex, syncCounter, writerVars, readerVars, commits>>

-----------------------------------------------------------------------------
CommitStep == IncrementSyncCounter \/ wakeAll

ReaderStep(r) ==
  LoadCounter(r) \/ getSamplesImpl(r) \/ CheckCounter(r) \/ FutexWait(r) \/ Validate(r)

Next ==
  \/ \E index \in Indices, count \in WriteCounts : openSamples(index, count)
  \/ cancel
  \/ commit
  \/ CommitStep
  \/ \E r \in Readers :
       \/ \E q \in Requests : Begin(r, q)
       \/ ReaderStep(r) \/ DeadlinePassed(r) \/ Interrupted(r)
  \/ FlowReplaced

Spec == Init /\ [][Next]_vars

(* Threads inside a call keep running; deadlines may be infinitely far.     *)
FairSpec == Spec /\ WF_vars(CommitStep) /\ \A r \in Readers : WF_vars(ReaderStep(r))

(* The same, and the deadline of every call passes some day.  Once passed   *)
(* it stays passed, so a reader that keeps coming back to the check finds   *)
(* it, however often signals interrupt its sleep: strong fairness.          *)
FiniteDeadlines == FairSpec /\ \A r \in Readers : SF_vars(DeadlinePassed(r))

-----------------------------------------------------------------------------
(* Properties *)

\* The positions of the ring that a pair of fragments denotes.
Positions(f) == (f.start .. (f.start + f.first - 1)) \cup (0 .. (f.second - 1))

GotSamples(r) ==
  rpc[r] = "idle" /\ result[r].status = "OK" /\ request[r].call # "waitForSamples"

(* The two fragments that getSamples returns are exactly the ring positions *)
(* of the samples asked for, each once (the wrap-around arithmetic shared   *)
(* by getSamplesImpl and openSamples).                                      *)
FragmentsCoverWindow ==
  \A r \in Readers :
    (GotSamples(r) /\ request[r].count > 0) =>
      LET f == result[r].fragments
          q == request[r]
      IN  /\ f.first + f.second = q.count
          /\ Positions(f) = {k % BufferLength : k \in (q.index - q.count) .. (q.index - 1)}

(* As long as the head has not moved since a reader was granted samples,    *)
(* no window that an appending writer opens touches them: reads are kept    *)
(* to one half of the ring and writes to the other.                         *)
FreshReadIsNotOverwritten ==
  \A r \in Readers :
    (/\ GotSamples(r) /\ request[r].count > 0
     /\ seenHead[r] = headIndex /\ commits > 0
     /\ currentIndex # UndefinedIndex)
    => Positions(result[r].fragments) \cap Positions(openFragments) = {}

(* With a finite deadline every call of a reader returns, whatever the      *)
(* writer does and whether it signals or not.                               *)
CallEndsByDeadline == \A r \in Readers : rpc[r] # "idle" ~> rpc[r] = "idle"
=============================================================================
