---------------------------- MODULE DiscreteFlow ----------------------------
(***************************************************************************)
(* One discrete (video / data) flow: the ring of grains in shared memory,  *)
(* the processes that write it through PosixDiscreteFlowWriter, the ones   *)
(* that read it through PosixDiscreteFlowReader, and the futex of Sync.cpp *)
(* on which blocked readers sleep.                                         *)
(*                                                                         *)
(* Every access to shared memory is a step of its own.  headIndex and the  *)
(* words of a grain header are plain, unsynchronised objects: the stores   *)
(* that commit() makes before it calls currentTime() may become visible in *)
(* any order, a header is copied word by word in any order, and            *)
(* `syncCounter++' is a load followed by a store.  The stores of one       *)
(* commit are otherwise seen in program order (x86-TSO).                   *)
(*                                                                         *)
(* Payload bytes, time stamps and the grain's descriptive fields are left  *)
(* out; a grain header is what a reader's decision depends on: the index,  *)
(* the number of valid slices and the flag MXL_GRAIN_FLAG_INVALID.         *)
(***************************************************************************)
EXTENDS Integers, FiniteSets

CONSTANTS
  Readers,       \* processes that hold a flow reader
  Writers,       \* processes that hold a flow writer
  GrainCount,    \* config.discrete.grainCount, the number of ring entries
  TotalSlices,   \* totalSlices of every grain of the flow
  SyncModulus,   \* number of values of the 32 bit syncCounter (2^32)
  MinSlices,     \* the values of minValidSlices that readers ask for
  MaxIndex,      \* bound: the largest grain index a caller uses
  MaxCommits,    \* bound: the number of commits of a behaviour
  InOrder        \* TRUE: writers follow the protocol of flow.h, FALSE: any index

(* The history of 200 ms holds a grain at every rate of 5 Hz or more, a     *)
(* grain has at least one slice, and the counter does not wrap within the   *)
(* bounded behaviours.                                                      *)
ASSUME FlowAssumption ==
  /\ GrainCount \in Nat \ {0}
  /\ TotalSlices \in Nat \ {0}
  /\ MinSlices \subseteq 0 .. TotalSlices
  /\ TotalSlices \in MinSlices
  /\ MaxIndex \in Nat
  /\ MaxCommits \in Nat
  /\ SyncModulus \in Nat
  /\ MaxCommits < SyncModulus
  /\ InOrder \in BOOLEAN

Indices == 0 .. MaxIndex

Slices == 0 .. TotalSlices

Slots == 0 .. (GrainCount - 1)

\* MXL_UNDEFINED_INDEX
UndefinedIndex == -1

GrainInfo == [index : Indices, validSlices : Slices, invalid : BOOLEAN]

\* The words of a header: index, totalSlices with validSlices, and flags.
Words == {"index", "validSlices", "invalid"}

\* The accessors of the reader: getGrain with a deadline, waitForGrain, and
\* the getGrain that does not block.
Calls == {"getGrain", "waitForGrain", "getGrainNonBlocking"}

Requests == [index : Indices, minValidSlices : MinSlices, call : Calls]

NoGrain == [index |-> 0, validSlices |-> 0, invalid |-> FALSE]

VARIABLES
  (* shared memory and file system *)
  headIndex,     \* flow->info.runtime.headIndex
  grains,        \* ring entry -> header.info
  syncCounter,   \* flow->state.syncCounter
  inodeMatches,  \* the flow's data path still names the mapped inode
  (* writers *)
  wpc,           \* writer -> where it is in commit()
  currentIndex,  \* writer -> _currentIndex
  grainInfo,     \* writer -> the argument of the commit() in progress
  unstored,      \* writer -> the stores of commit() not visible yet
  counterReg,    \* writer -> the value `syncCounter++' has loaded
  (* readers *)
  rpc,           \* reader -> where it is in its call
  request,       \* reader -> the arguments of its call
  seenCounter,   \* reader -> previousSyncCounter
  seenHead,      \* reader -> the headIndex getGrainImpl read
  uncopied,      \* reader -> the words of the header it has yet to copy
  result,        \* reader -> what its last call returned
  (* bookkeeping *)
  shown,         \* history: reader -> word -> what its entry held during its look
  commits        \* number of commits begun, bounded by MaxCommits

memory == <<headIndex, grains, syncCounter, inodeMatches>>
writerVars == <<wpc, currentIndex, grainInfo, unstored, counterReg>>
readerVars == <<rpc, request, seenCounter, seenHead, uncopied, result, shown>>
vars == <<memory, writerVars, readerVars, commits>>

Statuses == {"NONE", "OK", "TOO_EARLY", "TOO_LATE", "FLOW_INVALID"}

WriterPCs == {"idle", "store", "load", "increment", "wake"}

ReaderPCs == {"idle", "loadCounter", "readHead", "readSlices", "readFlags", "copyInfo",
              "checkCounter", "futexWait", "sleeping", "validate"}

\* History: the values that the words of an entry had.
Views == [index : SUBSET Indices, validSlices : SUBSET Slices, invalid : SUBSET BOOLEAN]

Nothing == [index |-> {}, validSlices |-> {}, invalid |-> {}]

TypeOK ==
  /\ headIndex \in Indices
  /\ grains \in [Slots -> GrainInfo]
  /\ syncCounter \in 0 .. (SyncModulus - 1)
  /\ inodeMatches \in BOOLEAN
  /\ wpc \in [Writers -> WriterPCs]
  /\ currentIndex \in [Writers -> Indices \cup {UndefinedIndex}]
  /\ grainInfo \in [Writers -> GrainInfo]
  /\ unstored \in [Writers -> SUBSET ({"head"} \cup Words)]
  /\ counterReg \in [Writers -> 0 .. (SyncModulus - 1)]
  /\ rpc \in [Readers -> ReaderPCs]
  /\ request \in [Readers -> Requests]
  /\ seenCounter \in [Readers -> 0 .. (SyncModulus - 1)]
  /\ seenHead \in [Readers -> Indices]
  /\ uncopied \in [Readers -> SUBSET Words]
  /\ result \in [Readers -> [status : Statuses, info : GrainInfo]]
  /\ shown \in [Readers -> Views]
  /\ commits \in 0 .. MaxCommits

(***************************************************************************)
(* The flow as FlowManager::createOrOpenDiscreteFlow publishes it: head 0, *)
(* every grain with no valid slice.                                        *)
(***************************************************************************)
Init ==
  /\ headIndex = 0
  /\ grains = [s \in Slots |-> NoGrain]
  /\ syncCounter = 0
  /\ inodeMatches = TRUE
  /\ wpc = [w \in Writers |-> "idle"]
  /\ currentIndex = [w \in Writers |-> UndefinedIndex]
  /\ grainInfo = [w \in Writers |-> NoGrain]
  /\ unstored = [w \in Writers |-> {}]
  /\ counterReg = [w \in Writers |-> 0]
  /\ rpc = [r \in Readers |-> "idle"]
  /\ request = [r \in Readers |->
                  [index |-> 0, minValidSlices |-> TotalSlices, call |-> "getGrain"]]
  /\ seenCounter = [r \in Readers |-> 0]
  /\ seenHead = [r \in Readers |-> 0]
  /\ uncopied = [r \in Readers |-> {}]
  /\ result = [r \in Readers |-> [status |-> "NONE", info |-> NoGrain]]
  /\ shown = [r \in Readers |-> Nothing]
  /\ commits = 0

-----------------------------------------------------------------------------
(* Index arithmetic of the ring *)

Slot(i) == i % GrainCount

\* Faulty variant: the window is one entry too long.
MinIndexOffByOne(head) == IF head >= GrainCount THEN head - GrainCount ELSE 0

\* The oldest index that the reader still considers part of the ring.
MinIndex(head) == IF head >= GrainCount THEN head - GrainCount + 1 ELSE 0

\* Faulty variant: any slice will do.
EnoughSlicesAny(validSlices, min) == validSlices > 0

\* Enough slices for the request.
EnoughSlices(validSlices, min) ==
  validSlices >= IF min < TotalSlices THEN min ELSE TotalSlices

\* The entry that a reader's index falls on.
EntryOf(r) == grains[Slot(request[r].index)]

\* The header `info' with its word f taken from another one.
Overwritten(info, f, from) ==
  [index |-> IF f = "index" THEN from.index ELSE info.index,
   validSlices |-> IF f = "validSlices" THEN from.validSlices ELSE info.validSlices,
   invalid |-> IF f = "invalid" THEN from.invalid ELSE info.invalid]

\* History: a header's words, and those that a reader has been shown so far.
With(seen, info) == [index |-> seen.index \cup {info.index},
                     validSlices |-> seen.validSlices \cup {info.validSlices},
                     invalid |-> seen.invalid \cup {info.invalid}]

Shows(i) == With(Nothing, grains[Slot(i)])

ShownSince ==
  shown' = [r \in Readers |->
              IF rpc[r] \in {"loadCounter", "readHead", "readSlices", "readFlags", "copyInfo"}
              THEN With(shown[r], grains'[Slot(request[r].index)]) ELSE shown[r]]

-----------------------------------------------------------------------------
(* Writers.  Opening a grain rewrites only the index of the ring entry: the *)
(* slices and flags of the grain that was there before stay until a commit. *)

(* flow.h asks callers to move forward one grain at a time, writing grains  *)
(* they miss as invalid; the very first grain may have any index.           *)
FollowsProtocol(i) == commits = 0 \/ i \in {headIndex, headIndex + 1}

openGrain(w, i) ==
  /\ wpc[w] = "idle"
  /\ InOrder => FollowsProtocol(i)
  /\ grains' = [grains EXCEPT ![Slot(i)].index = i]
  /\ currentIndex' = [currentIndex EXCEPT ![w] = i]
  /\ ShownSince
  /\ UNCHANGED <<headIndex, syncCounter, inodeMatches, wpc, grainInfo, unstored,
                 counterReg, rpc, request, seenCounter, seenHead, uncopied, result, commits>>

cancel(w) ==
  /\ wpc[w] = "idle"
  /\ currentIndex' = [currentIndex EXCEPT ![w] = UndefinedIndex]
  /\ UNCHANGED <<memory, wpc, grainInfo, unstored, counterReg, readerVars, commits>>

(* A grain that is committed slice by slice only ever gains slices.         *)
GainsSlices(info) ==
  (commits > 0 /\ info.index = headIndex) =>
     /\ info.validSlices >= grains[Slot(info.index)].validSlices
     /\ grains[Slot(info.index)].invalid => info.invalid

(* commit() for a grain that is not the open one returns                    *)
(* MXL_ERR_INVALID_ARG and changes nothing: a stuttering step.              *)
commit(w, info) ==
  /\ wpc[w] = "idle"
  /\ commits < MaxCommits
  /\ info.index = currentIndex[w]
  /\ InOrder => GainsSlices(info)
  /\ wpc' = [wpc EXCEPT ![w] = "store"]
  /\ grainInfo' = [grainInfo EXCEPT ![w] = info]
  /\ unstored' = [unstored EXCEPT ![w] = {"head"} \cup Words]
  /\ commits' = commits + 1
  /\ UNCHANGED <<memory, currentIndex, counterReg, readerVars>>

\* Where commit() goes once the stores `left' are the only ones missing.
AfterStore(left) == IF left = {} THEN "load" ELSE "store"

\* Faulty variant: the head is taken from _currentIndex after the grain was closed.
StoreHeadAfterClose(w) ==
  /\ wpc[w] = "store"
  /\ "head" \in unstored[w]
  /\ headIndex' = IF grainInfo[w].validSlices = TotalSlices THEN UndefinedIndex
                  ELSE currentIndex[w]
  /\ unstored' = [unstored EXCEPT ![w] = @ \ {"head"}]
  /\ wpc' = [wpc EXCEPT ![w] = AfterStore(unstored[w] \ {"head"})]
  /\ UNCHANGED <<grains, syncCounter, inodeMatches, currentIndex,
                 grainInfo, counterReg, readerVars, commits>>

StoreHead(w) ==
  /\ wpc[w] = "store"
  /\ "head" \in unstored[w]
  /\ headIndex' = grainInfo[w].index
  /\ unstored' = [unstored EXCEPT ![w] = @ \ {"head"}]
  /\ wpc' = [wpc EXCEPT ![w] = AfterStore(unstored[w] \ {"head"})]
  /\ UNCHANGED <<grains, syncCounter, inodeMatches, currentIndex,
                 grainInfo, counterReg, readerVars, commits>>

StoreInfo(w, f) ==
  /\ wpc[w] = "store"
  /\ f \in unstored[w]
  /\ grains' = [grains EXCEPT ![Slot(grainInfo[w].index)] = Overwritten(@, f, grainInfo[w])]
  /\ unstored' = [unstored EXCEPT ![w] = @ \ {f}]
  /\ wpc' = [wpc EXCEPT ![w] = AfterStore(unstored[w] \ {f})]
  /\ ShownSince
  /\ UNCHANGED <<headIndex, syncCounter, inodeMatches, currentIndex, grainInfo,
                 counterReg, rpc, request, seenCounter, seenHead, uncopied, result, commits>>

(* A complete grain is closed, a partial one stays open for more slices;    *)
(* then the first half of `syncCounter++'.                                  *)
LoadSyncCounter(w) ==
  /\ wpc[w] = "load"
  /\ currentIndex' =
       [currentIndex EXCEPT ![w] =
          IF grainInfo[w].validSlices = TotalSlices THEN UndefinedIndex ELSE @]
  /\ counterReg' = [counterReg EXCEPT ![w] = syncCounter]
  /\ wpc' = [wpc EXCEPT ![w] = "increment"]
  /\ UNCHANGED <<memory, grainInfo, unstored, readerVars, commits>>

\* Faulty variant: only complete grains are signalled.
StoreSyncCounterIfComplete(w) ==
  /\ wpc[w] = "increment"
  /\ syncCounter' = IF grainInfo[w].validSlices = TotalSlices
                    THEN counterReg[w] + 1 ELSE syncCounter
  /\ wpc' = [wpc EXCEPT ![w] = "wake"]
  /\ UNCHANGED <<headIndex, grains, inodeMatches, currentIndex,
                 grainInfo, unstored, counterReg, readerVars, commits>>

StoreSyncCounter(w) ==
  /\ wpc[w] = "increment"
  /\ syncCounter' = IF counterReg[w] + 1 = SyncModulus THEN 0 ELSE counterReg[w] + 1
  /\ wpc' = [wpc EXCEPT ![w] = "wake"]
  /\ UNCHANGED <<headIndex, grains, inodeMatches, currentIndex,
                 grainInfo, unstored, counterReg, readerVars, commits>>

\* The end of commit(): its locals are dead and go back to their default.
wakeAll(w) ==
  /\ wpc[w] = "wake"
  /\ rpc' = [r \in Readers |-> IF rpc[r] = "sleeping" THEN "checkCounter" ELSE rpc[r]]
  /\ wpc' = [wpc EXCEPT ![w] = "idle"]
  /\ grainInfo' = [grainInfo EXCEPT ![w] = NoGrain]
  /\ counterReg' = [counterReg EXCEPT ![w] = 0]
  /\ UNCHANGED <<memory, currentIndex, unstored,
                 request, seenCounter, seenHead, uncopied, result, shown, commits>>

-----------------------------------------------------------------------------
(* Readers *)

Goto(r, pc) == rpc' = [rpc EXCEPT ![r] = pc]

\* The call returns; what it remembered is forgotten.
Finish(r, status, info) ==
  /\ Goto(r, "idle")
  /\ result' = [result EXCEPT ![r] = [status |-> status, info |-> info]]
  /\ seenCounter' = [seenCounter EXCEPT ![r] = 0]
  /\ shown' = [shown EXCEPT ![r] = Nothing]

\* A reader that finds the grain missing returns, or waits if its call blocks.
TooEarly(r) ==
  /\ Goto(r, IF request[r].call = "getGrainNonBlocking" THEN "validate" ELSE "checkCounter")
  /\ shown' = [shown EXCEPT ![r] = Nothing]
  /\ UNCHANGED <<seenCounter, uncopied, result>>

Begin(r, req) ==
  /\ rpc[r] = "idle"
  /\ request' = [request EXCEPT ![r] = req]
  /\ Goto(r, IF req.call = "getGrainNonBlocking" THEN "readHead" ELSE "loadCounter")
  /\ result' = [result EXCEPT ![r] = [status |-> "NONE", info |-> NoGrain]]
  /\ seenHead' = [seenHead EXCEPT ![r] = 0]
  /\ shown' = [shown EXCEPT ![r] = Shows(req.index)]
  /\ UNCHANGED <<memory, writerVars, seenCounter, uncopied, commits>>

\* The blocking getGrainImpl remembers the counter before it looks at the head.
LoadCounter(r) ==
  /\ rpc[r] = "loadCounter"
  /\ seenCounter' = [seenCounter EXCEPT ![r] = syncCounter]
  /\ Goto(r, "readHead")
  /\ UNCHANGED <<memory, writerVars, request, seenHead, uncopied, result, shown, commits>>

ReadHead(r) ==
  /\ rpc[r] = "readHead"
  /\ seenHead' = [seenHead EXCEPT ![r] = headIndex]
  /\ \/ request[r].index > headIndex /\ TooEarly(r)
     \/ /\ request[r].index <= headIndex
        /\ request[r].index < MinIndex(headIndex)
        /\ Finish(r, "TOO_LATE", NoGrain) /\ UNCHANGED uncopied
     \/ /\ request[r].index <= headIndex
        /\ request[r].index >= MinIndex(headIndex)
        /\ Goto(r, "readSlices")
        /\ UNCHANGED <<seenCounter, uncopied, result, shown>>
  /\ UNCHANGED <<memory, writerVars, request, commits>>

\* waitForGrain passes no output and is done, getGrain has yet to copy the header.
Granted(r) ==
  \/ /\ request[r].call = "waitForGrain"
     /\ Finish(r, "OK", NoGrain) /\ UNCHANGED uncopied
  \/ /\ request[r].call # "waitForGrain"
     /\ Goto(r, "copyInfo")
     /\ uncopied' = [uncopied EXCEPT ![r] = Words]
     /\ shown' = [shown EXCEPT ![r] = Shows(request[r].index)]
     /\ UNCHANGED <<seenCounter, result>>

(* The first half of the slice check; the flags are loaded only when there  *)
(* are too few slices.                                                      *)
ReadSlices(r) ==
  /\ rpc[r] = "readSlices"
  /\ IF EnoughSlices(EntryOf(r).validSlices, request[r].minValidSlices)
     THEN Granted(r)
     ELSE Goto(r, "readFlags") /\ UNCHANGED <<seenCounter, uncopied, result, shown>>
  /\ UNCHANGED <<memory, writerVars, request, seenHead, commits>>

ReadFlags(r) ==
  /\ rpc[r] = "readFlags"
  /\ IF EntryOf(r).invalid THEN Granted(r) ELSE TooEarly(r)
  /\ UNCHANGED <<memory, writerVars, request, seenHead, commits>>

\* The header is read a second time, word by word, for the caller.  The access
\* file is touched before the call returns: DomainWatcher!Touch.
CopyInfo(r, f) ==
  LET info == Overwritten(result[r].info, f, EntryOf(r))
  IN  /\ rpc[r] = "copyInfo" /\ f \in uncopied[r]
      /\ uncopied' = [uncopied EXCEPT ![r] = @ \ {f}]
      /\ \/ /\ uncopied[r] # {f}
            /\ result' = [result EXCEPT ![r].info = info]
            /\ UNCHANGED <<rpc, seenCounter, shown>>
         \/ uncopied[r] = {f} /\ Finish(r, "OK", info)
      /\ UNCHANGED <<memory, writerVars, request, seenHead, commits>>

(* The loop of waitUntilChanged: a changed counter sends the reader back to *)
(* look at the head, an expired deadline ends the wait.                     *)
CheckCounter(r) ==
  /\ rpc[r] = "checkCounter"
  /\ \/ /\ syncCounter # seenCounter[r]
        /\ Goto(r, "loadCounter") /\ shown' = [shown EXCEPT ![r] = Shows(request[r].index)]
     \/ /\ syncCounter = seenCounter[r]
        /\ Goto(r, "futexWait") /\ UNCHANGED shown
  /\ UNCHANGED <<memory, writerVars, request, seenCounter, seenHead, uncopied, result, commits>>

DeadlinePassed(r) ==
  /\ rpc[r] = "checkCounter"
  /\ syncCounter = seenCounter[r]
  /\ Goto(r, "validate")
  /\ UNCHANGED <<memory, writerVars, request, seenCounter, seenHead, uncopied, result, shown, commits>>

\* FUTEX_WAIT: the kernel compares and puts to sleep atomically, else EAGAIN.
FutexWait(r) ==
  /\ rpc[r] = "futexWait"
  /\ Goto(r, IF syncCounter = seenCounter[r] THEN "sleeping" ELSE "checkCounter")
  /\ UNCHANGED <<memory, writerVars, request, seenCounter, seenHead, uncopied, result, shown, commits>>

\* EINTR, or a spurious return of FUTEX_WAIT.
Interrupted(r) ==
  /\ rpc[r] = "sleeping"
  /\ Goto(r, "checkCounter")
  /\ UNCHANGED <<memory, writerVars, request, seenCounter, seenHead, uncopied, result, shown, commits>>

\* ETIMEDOUT
TimedOut(r) ==
  /\ rpc[r] = "sleeping"
  /\ Goto(r, "validate")
  /\ UNCHANGED <<memory, writerVars, request, seenCounter, seenHead, uncopied, result, shown, commits>>

\* A reader that gives up asks whether the flow was replaced under its feet.
Validate(r) ==
  /\ rpc[r] = "validate"
  /\ Finish(r, IF inodeMatches THEN "TOO_EARLY" ELSE "FLOW_INVALID", NoGrain)
  /\ UNCHANGED <<memory, writerVars, request, seenHead, uncopied, commits>>

-----------------------------------------------------------------------------
(* The rest of the system *)

\* deleteFlow, or another process that creates the flow anew.
FlowReplaced ==
  /\ inodeMatches
  /\ inodeMatches' = FALSE
  /\ UNCHANGED <<headIndex, grains, syncCounter, writerVars, readerVars, commits>>

CommitStep(w) ==
  \/ StoreHead(w) \/ (\E f \in Words : StoreInfo(w, f))
  \/ LoadSyncCounter(w) \/ StoreSyncCounter(w) \/ wakeAll(w)

WriterNext(w) ==
  \/ \E i \in Indices : openGrain(w, i)
  \/ cancel(w)
  \/ \E info \in GrainInfo : commit(w, info)
  \/ CommitStep(w)

ReaderStep(r) ==
  \/ LoadCounter(r) \/ ReadHead(r) \/ ReadSlices(r) \/ ReadFlags(r)
  \/ (\E f \in Words : CopyInfo(r, f))
  \/ CheckCounter(r) \/ FutexWait(r) \/ Validate(r)

ReaderNext(r) ==
  \/ \E req \in Requests : Begin(r, req)
  \/ ReaderStep(r)
  \/ DeadlinePassed(r) \/ Interrupted(r) \/ TimedOut(r)

Next ==
  \/ \E w \in Writers : WriterNext(w)
  \/ \E r \in Readers : ReaderNext(r)
  \/ FlowReplaced

Spec == Init /\ [][Next]_vars

(* A thread inside a call keeps running: commits are finished and readers   *)
(* take their next step.  Deadlines, signals and callers owe nothing.       *)
Fairness ==
  /\ \A w \in Writers : WF_vars(CommitStep(w))
  /\ \A r \in Readers : WF_vars(ReaderStep(r))

FairSpec == Spec /\ Fairness

-----------------------------------------------------------------------------
(* Properties *)

\* What getGrainImpl would answer if it ran now, without interference.
TooEarlyNow(r) ==
  LET i == request[r].index
  IN  \/ i > headIndex
      \/ /\ i >= MinIndex(headIndex)
         /\ ~EnoughSlices(EntryOf(r).validSlices, request[r].minValidSlices)
         /\ ~EntryOf(r).invalid

\* A commit has begun and the counter does not show it yet.
CommitUnsignalled == \E w \in Writers : wpc[w] \in {"store", "load", "increment"}

InWait(r) == rpc[r] \in {"checkCounter", "futexWait", "sleeping"}

(* No lost wake-up: a reader that waitUntilChanged holds back while its     *)
(* grain is there (or already gone) either has an outdated counter value,   *)
(* and when it sleeps a writer is about to wake it, or the commit that      *)
(* changed the answer has not incremented the counter yet.  This is what    *)
(* loading syncCounter before headIndex, and incrementing it after every    *)
(* store, are for (PosixDiscreteFlowReader.cpp, blocking getGrainImpl).     *)
NoLostWakeup ==
  \A r \in Readers :
    (InWait(r) /\ ~TooEarlyNow(r)) =>
      \/ CommitUnsignalled
      \/ /\ seenCounter[r] # syncCounter
         /\ rpc[r] = "sleeping" => \E w \in Writers : wpc[w] = "wake"

(* The parts of the inductive invariant behind NoLostWakeup.                *)

SingleWriter == \A v, w \in Writers : v = w

\* Every increment belongs to a commit, so the counter does not wrap.
CounterBehindCommits ==
  /\ syncCounter <= commits
  /\ CommitUnsignalled => syncCounter < commits

\* Nobody writes the counter between the load and the store of `syncCounter++'.
IncrementIsAtomic ==
  \A w \in Writers : wpc[w] = "increment" => counterReg[w] = syncCounter

SeenCounterIsPast == \A r \in Readers : seenCounter[r] <= syncCounter

\* A counter value that no commit has made obsolete.
Current(r) == seenCounter[r] = syncCounter /\ ~CommitUnsignalled

\* A reader that found its index in the window still has the right head.
HeadIsFresh ==
  \A r \in Readers : rpc[r] \in {"readSlices", "readFlags"} =>
    /\ request[r].index <= seenHead[r]
    /\ request[r].index >= MinIndex(seenHead[r])
    /\ (request[r].call # "getGrainNonBlocking" /\ Current(r)) => seenHead[r] = headIndex

\* Too few slices are still too few while the counter value is current.
SlicesAreFresh ==
  \A r \in Readers :
    (rpc[r] = "readFlags" /\ request[r].call # "getGrainNonBlocking" /\ Current(r)) =>
      ~EnoughSlices(EntryOf(r).validSlices, request[r].minValidSlices)

\* A reader waits with a current counter value only if its grain is missing.
WaitIsJustified == \A r \in Readers : (InWait(r) /\ Current(r)) => TooEarlyNow(r)

\* A sleeper with an obsolete counter value is about to be woken.
SleeperIsWoken ==
  \A r \in Readers :
    (rpc[r] = "sleeping" /\ seenCounter[r] # syncCounter) =>
       \E w \in Writers : wpc[w] = "wake"

WakeupInv ==
  /\ CounterBehindCommits
  /\ IncrementIsAtomic
  /\ SeenCounterIsPast
  /\ HeadIsFresh
  /\ SlicesAreFresh
  /\ WaitIsJustified
  /\ SleeperIsWoken

(* The header that getGrain returns for an index carries that index, unless *)
(* it belongs to a grain beyond the headIndex the reader saw: the writer    *)
(* has reopened the ring entry since.  getGrainImpl never looks at          *)
(* header.info.index, so only its window arithmetic keeps the grains of     *)
(* other laps away (minValidSlices 0 accepts entries never written), also   *)
(* when the words of the header are copied while it is being overwritten.   *)
ReturnedGrainIsRequested ==
  \A r \in Readers :
    (/\ rpc[r] = "idle"
     /\ result[r].status = "OK"
     /\ request[r].call # "waitForGrain"
     /\ request[r].minValidSlices > 0
     /\ result[r].info.index # request[r].index)
    => result[r].info.index > seenHead[r]

\* A call is looking until it has found its grain missing or there.
PhaseOf(pc) ==
  CASE pc \in {"loadCounter", "readHead", "readSlices", "readFlags"} -> "looking"
    [] pc \in {"checkCounter", "futexWait", "sleeping", "validate"} -> "missing"
    [] pc = "copyInfo" -> "granted"
    [] OTHER -> "idle"

Phase == [r \in Readers |-> PhaseOf(rpc[r])]

\* The caller sees its answer when the call returns.
Answer == [r \in Readers |-> IF rpc[r] = "idle" THEN result[r]
                             ELSE [status |-> "NONE", info |-> NoGrain]]

Abstract == INSTANCE GrainRead WITH
  head <- headIndex, ring <- grains, phase <- Phase, asked <- request, answer <- Answer, seen <- shown

(* The parts of the inductive invariant behind the refinement: the index    *)
(* that is open is never behind the head, and neither is the head that a    *)
(* reader remembers ahead of it.                                            *)
OpenIsNotBehind ==
  \A w \in Writers : currentIndex[w] # UndefinedIndex => currentIndex[w] >= headIndex

CommitIsOfOpenGrain ==
  \A w \in Writers : wpc[w] \in {"store", "load"} => currentIndex[w] = grainInfo[w].index

NothingBeforeFirstCommit ==
  commits = 0 => headIndex = 0 /\ \A w \in Writers : wpc[w] = "idle"

SeenHeadIsPast ==
  \A r \in Readers : rpc[r] \in {"readSlices", "readFlags"} =>
    request[r].index <= seenHead[r] /\ seenHead[r] <= headIndex

OrderInv ==
  /\ OpenIsNotBehind
  /\ CommitIsOfOpenGrain
  /\ NothingBeforeFirstCommit
  /\ SeenHeadIsPast

(* With counter, futex and remembered head hidden, writers that follow the  *)
(* protocol and readers implement GrainRead.  The head, the slices and the  *)
(* flags are loaded one after the other, the header is copied word by word, *)
(* and a commit stores them one by one, so an answer is not always that of  *)
(* one moment; but a grain that is granted was there, one that is missing   *)
(* showed too few slices and no flag during this look, a header mixes only  *)
(* words that its entry held since it was granted, and a call that waits    *)
(* looks again once its grain is there to stay.                             *)
ImplementsGrainRead == Abstract!Spec
=============================================================================
