------------------------- MODULE DiscreteFlowProofs -------------------------
(***************************************************************************)
(* Proofs about DiscreteFlow for any number of readers, any ring size, any *)
(* slices and any order of indices: type correctness, the absence of lost  *)
(* wake-ups as long as one process writes the flow, and, when it writes in *)
(* order, that reads are as regular as GrainRead promises and return the   *)
(* grain that was asked for.                                               *)
(***************************************************************************)
EXTENDS DiscreteFlow, TLAPS

(* Every index falls on a ring entry.                                       *)
LEMMA SlotInRing ==
  ASSUME NEW i \in Nat
  PROVE  Slot(i) \in Slots
  BY FlowAssumption DEF Slot, Slots

(* A header that is overwritten in part is still a header, and the history  *)
(* of a reader still one of header words.                                   *)
LEMMA OverwrittenTyped ==
  ASSUME NEW a \in GrainInfo, NEW b \in GrainInfo, NEW f
  PROVE  Overwritten(a, f, b) \in GrainInfo
  BY DEF Overwritten, GrainInfo

LEMMA WithTyped ==
  ASSUME NEW seen \in Views, NEW info \in GrainInfo
  PROVE  With(seen, info) \in Views
  BY DEF With, Views, GrainInfo

LEMMA ShowsTyped ==
  ASSUME TypeOK, NEW i \in Indices
  PROVE  Shows(i) \in Views
<1>1. Nothing \in Views
  BY DEF Nothing, Views
<1>2. Slot(i) \in Slots
  BY SlotInRing, FlowAssumption DEF Indices
<1>3. grains[Slot(i)] \in GrainInfo
  BY <1>2 DEF TypeOK
<1> QED
  BY <1>1, <1>3, WithTyped DEF Shows

LEMMA ShownSinceTyped ==
  ASSUME TypeOK, ShownSince, grains' \in [Slots -> GrainInfo]
  PROVE  shown' \in [Readers -> Views]
<1> SUFFICES ASSUME NEW r \in Readers
             PROVE  /\ shown[r] \in Views
                    /\ With(shown[r], grains'[Slot(request[r].index)]) \in Views
  BY DEF ShownSince
<1>1. shown[r] \in Views
  BY DEF TypeOK
<1>2. Slot(request[r].index) \in Slots
  BY SlotInRing, FlowAssumption DEF TypeOK, Requests, Indices
<1> QED
  BY <1>1, <1>2, WithTyped

(* The entry that a reader looks at.                                        *)
LEMMA EntryTyped ==
  ASSUME TypeOK, NEW r \in Readers
  PROVE  Slot(request[r].index) \in Slots /\ EntryOf(r) \in GrainInfo
<1>1. Slot(request[r].index) \in Slots
  BY SlotInRing, FlowAssumption DEF TypeOK, Requests, Indices
<1> QED
  BY <1>1 DEF TypeOK, EntryOf

(* The initial state of createOrOpenDiscreteFlow is well typed.             *)
LEMMA InitTypeOK == Init => TypeOK
<1> SUFFICES ASSUME Init PROVE TypeOK
  OBVIOUS
<1> USE FlowAssumption
<1>1. NoGrain \in GrainInfo
  BY DEF NoGrain, GrainInfo, Indices, Slices
<1>2. [index |-> 0, minValidSlices |-> TotalSlices, call |-> "getGrain"] \in Requests
  BY DEF Requests, Indices, Calls
<1>3. 0 \in Indices /\ 0 \in 0 .. (SyncModulus - 1) /\ 0 \in 0 .. MaxCommits
  BY DEF Indices
<1>4. Nothing \in Views
  BY DEF Nothing, Views
<1> QED
  BY <1>1, <1>2, <1>3, <1>4 DEF Init, TypeOK, WriterPCs, ReaderPCs, Statuses

(* No step of a writer leaves the types.                                    *)
LEMMA WriterTypeOK ==
  ASSUME TypeOK, NEW w \in Writers, WriterNext(w)
  PROVE  TypeOK'
<1> USE FlowAssumption
<1>0. NoGrain \in GrainInfo
  BY DEF NoGrain, GrainInfo, Indices, Slices
<1>1. ASSUME NEW i \in Indices, openGrain(w, i) PROVE TypeOK'
  <2>1. Slot(i) \in Slots
    BY SlotInRing DEF Indices
  <2>2. grains \in [Slots -> GrainInfo]
    BY DEF TypeOK
  <2>3. [grains[Slot(i)] EXCEPT !.index = i] \in GrainInfo
    BY <2>1, <2>2 DEF GrainInfo
  <2>4. grains' = [grains EXCEPT ![Slot(i)] = [grains[Slot(i)] EXCEPT !.index = i]]
    BY <1>1, <2>1, <2>2 DEF openGrain
  <2>5. grains' \in [Slots -> GrainInfo]
    BY <2>1, <2>2, <2>3, <2>4
  <2>6. shown' \in [Readers -> Views]
    BY <1>1, <2>5, ShownSinceTyped DEF openGrain
  <2> QED
    BY <1>1, <2>5, <2>6 DEF openGrain, TypeOK
<1>2. CASE cancel(w)
  BY <1>2 DEF cancel, TypeOK, memory, readerVars
<1>3. ASSUME NEW info \in GrainInfo, commit(w, info) PROVE TypeOK'
  BY <1>3 DEF commit, TypeOK, memory, readerVars, WriterPCs
<1>4. CASE StoreHead(w)
  <2>1. headIndex' \in Indices
    BY <1>4 DEF StoreHead, TypeOK, GrainInfo
  <2>2. wpc' \in [Writers -> WriterPCs]
    BY <1>4 DEF StoreHead, TypeOK, WriterPCs, AfterStore
  <2> QED
    BY <1>4, <2>1, <2>2 DEF StoreHead, TypeOK, readerVars
<1>5. ASSUME NEW f \in Words, StoreInfo(w, f) PROVE TypeOK'
  <2>1. Slot(grainInfo[w].index) \in Slots
    BY SlotInRing DEF TypeOK, GrainInfo, Indices
  <2>2. Overwritten(grains[Slot(grainInfo[w].index)], f, grainInfo[w]) \in GrainInfo
    BY <2>1, OverwrittenTyped DEF TypeOK
  <2>3. grains' \in [Slots -> GrainInfo]
    BY <1>5, <2>1, <2>2 DEF StoreInfo, TypeOK
  <2>4. wpc' \in [Writers -> WriterPCs]
    BY <1>5 DEF StoreInfo, TypeOK, WriterPCs, AfterStore
  <2>5. shown' \in [Readers -> Views]
    BY <1>5, <2>3, ShownSinceTyped DEF StoreInfo
  <2> QED
    BY <1>5, <2>3, <2>4, <2>5 DEF StoreInfo, TypeOK
<1>6. CASE LoadSyncCounter(w)
  <2>1. currentIndex' \in [Writers -> Indices \cup {UndefinedIndex}]
    BY <1>6 DEF LoadSyncCounter, TypeOK
  <2>2. wpc' \in [Writers -> WriterPCs]
    BY <1>6 DEF LoadSyncCounter, TypeOK, WriterPCs
  <2> QED
    BY <1>6, <2>1, <2>2 DEF LoadSyncCounter, TypeOK, memory, readerVars
<1>7. CASE StoreSyncCounter(w)
  <2>1. counterReg[w] \in 0 .. (SyncModulus - 1)
    BY DEF TypeOK
  <2>2. syncCounter' \in 0 .. (SyncModulus - 1)
    BY <1>7, <2>1 DEF StoreSyncCounter
  <2>3. wpc' \in [Writers -> WriterPCs]
    BY <1>7 DEF StoreSyncCounter, TypeOK, WriterPCs
  <2> QED
    BY <1>7, <2>2, <2>3 DEF StoreSyncCounter, TypeOK, readerVars
<1>8. CASE wakeAll(w)
  BY <1>8, <1>0 DEF wakeAll, TypeOK, memory, WriterPCs, ReaderPCs
<1> QED
  BY <1>1, <1>2, <1>3, <1>4, <1>5, <1>6, <1>7, <1>8 DEF WriterNext, CommitStep

(* A reader that returns, or finds its grain missing or there.              *)
LEMMA OutcomeTyped ==
  ASSUME TypeOK, NEW r \in Readers,
         \/ (\E status \in Statuses : \E info \in GrainInfo : Finish(r, status, info))
               /\ uncopied' \in [Readers -> SUBSET Words]
         \/ TooEarly(r)
         \/ Granted(r)
  PROVE  /\ rpc' \in [Readers -> ReaderPCs]
         /\ seenCounter' \in [Readers -> 0 .. (SyncModulus - 1)]
         /\ uncopied' \in [Readers -> SUBSET Words]
         /\ result' \in [Readers -> [status : Statuses, info : GrainInfo]]
         /\ shown' \in [Readers -> Views]
<1> USE FlowAssumption
<1>0. NoGrain \in GrainInfo /\ Nothing \in Views /\ "OK" \in Statuses
  BY DEF NoGrain, GrainInfo, Indices, Slices, Nothing, Views, Statuses
<1>1. ASSUME NEW status \in Statuses, NEW info \in GrainInfo, Finish(r, status, info)
      PROVE  /\ rpc' \in [Readers -> ReaderPCs]
             /\ seenCounter' \in [Readers -> 0 .. (SyncModulus - 1)]
             /\ result' \in [Readers -> [status : Statuses, info : GrainInfo]]
             /\ shown' \in [Readers -> Views]
  BY <1>0, <1>1 DEF Finish, Goto, TypeOK, ReaderPCs
<1>2. CASE TooEarly(r)
  BY <1>0, <1>2 DEF TooEarly, Goto, TypeOK, ReaderPCs
<1>3. CASE Granted(r)
  <2>1. CASE Finish(r, "OK", NoGrain) /\ UNCHANGED uncopied
    BY <1>0, <1>1, <2>1 DEF TypeOK
  <2>2. CASE /\ Goto(r, "copyInfo")
             /\ uncopied' = [uncopied EXCEPT ![r] = Words]
             /\ shown' = [shown EXCEPT ![r] = Shows(request[r].index)]
             /\ UNCHANGED <<seenCounter, result>>
    <3>1. Shows(request[r].index) \in Views
      BY ShowsTyped DEF TypeOK, Requests
    <3> QED
      BY <2>2, <3>1 DEF Goto, TypeOK, ReaderPCs
  <2> QED
    BY <1>3, <2>1, <2>2 DEF Granted
<1> QED
  BY <1>1, <1>2, <1>3

(* No step of a reader leaves the types.                                    *)
LEMMA ReaderTypeOK ==
  ASSUME TypeOK, NEW r \in Readers, ReaderNext(r)
  PROVE  TypeOK'
<1> USE FlowAssumption
<1>0. NoGrain \in GrainInfo
  BY DEF NoGrain, GrainInfo, Indices, Slices
<1>1. ASSUME NEW req \in Requests, Begin(r, req) PROVE TypeOK'
  <2>1. Shows(req.index) \in Views
    BY ShowsTyped DEF Requests
  <2> QED
    BY <1>1, <1>0, <2>1 DEF Begin, Goto, TypeOK, memory, writerVars, ReaderPCs, Statuses, Indices
<1>2. CASE LoadCounter(r)
  BY <1>2 DEF LoadCounter, Goto, TypeOK, memory, writerVars, ReaderPCs
<1>3. CASE ReadHead(r)
  <2> DEFINE Typed ==
        /\ rpc' \in [Readers -> ReaderPCs]
        /\ seenCounter' \in [Readers -> 0 .. (SyncModulus - 1)]
        /\ uncopied' \in [Readers -> SUBSET Words]
        /\ result' \in [Readers -> [status : Statuses, info : GrainInfo]]
        /\ shown' \in [Readers -> Views]
  <2>4. Typed
    <3>1. CASE TooEarly(r)
      BY <3>1, OutcomeTyped
    <3>2. CASE Finish(r, "TOO_LATE", NoGrain) /\ UNCHANGED uncopied
      <4>1. "TOO_LATE" \in Statuses /\ uncopied' \in [Readers -> SUBSET Words]
        BY <3>2 DEF Statuses, TypeOK
      <4> QED
        BY <1>0, <3>2, <4>1, OutcomeTyped
    <3>3. CASE Goto(r, "readSlices") /\ UNCHANGED <<seenCounter, uncopied, result, shown>>
      BY <3>3 DEF Goto, TypeOK, ReaderPCs
    <3> QED
      BY <1>3, <3>1, <3>2, <3>3 DEF ReadHead
  <2> QED
    BY <1>3, <2>4 DEF ReadHead, TypeOK, memory, writerVars
<1>4. CASE ReadSlices(r)
  <2>1. CASE Granted(r)
    BY <1>4, <2>1, OutcomeTyped DEF ReadSlices, TypeOK, memory, writerVars
  <2>2. CASE Goto(r, "readFlags") /\ UNCHANGED <<seenCounter, uncopied, result, shown>>
    BY <1>4, <2>2 DEF ReadSlices, Goto, ReaderPCs, TypeOK, memory, writerVars
  <2> QED
    BY <1>4, <2>1, <2>2 DEF ReadSlices
<1>5. CASE ReadFlags(r)
  <2>1. Granted(r) \/ TooEarly(r)
    BY <1>5 DEF ReadFlags
  <2> QED
    BY <1>5, <2>1, OutcomeTyped DEF ReadFlags, TypeOK, memory, writerVars
<1>6. ASSUME NEW f \in Words, CopyInfo(r, f) PROVE TypeOK'
  <2> DEFINE info == Overwritten(result[r].info, f, EntryOf(r))
  <2>1. info \in GrainInfo
    BY EntryTyped, OverwrittenTyped DEF TypeOK
  <2>2. uncopied' \in [Readers -> SUBSET Words]
    BY <1>6 DEF CopyInfo, TypeOK
  <2>3. CASE result' = [result EXCEPT ![r].info = info] /\ UNCHANGED <<rpc, seenCounter, shown>>
    BY <1>6, <2>1, <2>2, <2>3 DEF CopyInfo, TypeOK, memory, writerVars
  <2>4. CASE Finish(r, "OK", info)
    <3>1. "OK" \in Statuses
      BY DEF Statuses
    <3> HIDE DEF info
    <3>2. /\ rpc' \in [Readers -> ReaderPCs]
          /\ seenCounter' \in [Readers -> 0 .. (SyncModulus - 1)]
          /\ result' \in [Readers -> [status : Statuses, info : GrainInfo]]
          /\ shown' \in [Readers -> Views]
      BY <2>1, <2>2, <2>4, <3>1, OutcomeTyped
    <3> QED
      BY <1>6, <2>2, <3>2 DEF CopyInfo, TypeOK, memory, writerVars
  <2> QED
    BY <1>6, <2>3, <2>4 DEF CopyInfo
<1>7. CASE CheckCounter(r)
  <2>1. Shows(request[r].index) \in Views
    BY ShowsTyped DEF TypeOK, Requests
  <2> QED
    BY <1>7, <2>1 DEF CheckCounter, Goto, TypeOK, memory, writerVars, ReaderPCs
<1>8. CASE FutexWait(r)
  BY <1>8 DEF FutexWait, Goto, TypeOK, memory, writerVars, ReaderPCs
<1>9. CASE Validate(r)
  <2>1. \A status : status \in {"TOO_EARLY", "FLOW_INVALID"} => status \in Statuses
    BY DEF Statuses
  <2>2. uncopied' \in [Readers -> SUBSET Words]
    BY <1>9 DEF Validate, TypeOK
  <2>3. \E status \in Statuses : Finish(r, status, NoGrain)
    BY <1>9, <2>1 DEF Validate
  <2> QED
    BY <1>0, <1>9, <2>2, <2>3, OutcomeTyped DEF Validate, TypeOK, memory, writerVars
<1>10. CASE DeadlinePassed(r)
  BY <1>10 DEF DeadlinePassed, Goto, TypeOK, memory, writerVars, ReaderPCs
<1>11. CASE Interrupted(r)
  BY <1>11 DEF Interrupted, Goto, TypeOK, memory, writerVars, ReaderPCs
<1>12. CASE TimedOut(r)
  BY <1>12 DEF TimedOut, Goto, TypeOK, memory, writerVars, ReaderPCs
<1> QED
  BY <1>1, <1>2, <1>3, <1>4, <1>5, <1>6, <1>7, <1>8, <1>9, <1>10, <1>11, <1>12
  DEF ReaderNext, ReaderStep

(* Types are kept by every step, of every process and by stuttering.        *)
LEMMA NextTypeOK == TypeOK /\ [Next]_vars => TypeOK'
<1> SUFFICES ASSUME TypeOK, [Next]_vars PROVE TypeOK'
  OBVIOUS
<1>1. ASSUME NEW w \in Writers, WriterNext(w) PROVE TypeOK'
  BY <1>1, WriterTypeOK
<1>2. ASSUME NEW r \in Readers, ReaderNext(r) PROVE TypeOK'
  BY <1>2, ReaderTypeOK
<1>3. CASE FlowReplaced
  BY <1>3 DEF FlowReplaced, TypeOK, writerVars, readerVars
<1>4. CASE UNCHANGED vars
  BY <1>4 DEF vars, TypeOK, memory, writerVars, readerVars
<1> QED
  BY <1>1, <1>2, <1>3, <1>4 DEF Next

(* Type correctness: whatever the callers do, the ring, the counter and the *)
(* registers of commit() and getGrain() stay within their types.            *)
THEOREM TypeCorrect == Spec => []TypeOK
  BY InitTypeOK, NextTypeOK, PTL DEF Spec

-----------------------------------------------------------------------------
(* No lost wake-ups *)

(* Nobody waits and nothing is committed in the initial state.              *)
LEMMA InitWakeupInv == Init => WakeupInv
<1> SUFFICES ASSUME Init PROVE WakeupInv
  OBVIOUS
<1> USE DEF Init
<1>1. ~CommitUnsignalled
  BY DEF CommitUnsignalled
<1>2. CounterBehindCommits
  BY <1>1 DEF CounterBehindCommits
<1>3. IncrementIsAtomic /\ SeenCounterIsPast /\ HeadIsFresh /\ SlicesAreFresh
  BY DEF IncrementIsAtomic, SeenCounterIsPast, HeadIsFresh, SlicesAreFresh
<1>4. WaitIsJustified /\ SleeperIsWoken
  BY DEF WaitIsJustified, SleeperIsWoken, InWait
<1> QED
  BY <1>2, <1>3, <1>4 DEF WakeupInv

\* What the wake-ups depend on in a reader.
waiting == <<rpc, request, seenCounter, seenHead>>

(* Steps that change neither the head, the slices and flags of the ring,    *)
(* the counter, the stage of a commit, nor a reader keep the invariant.     *)
LEMMA QuietStep ==
  ASSUME WakeupInv, UNCHANGED <<headIndex, syncCounter, wpc, counterReg, commits, waiting>>,
         \A s \in Slots : /\ grains'[s].validSlices = grains[s].validSlices
                          /\ grains'[s].invalid = grains[s].invalid,
         TypeOK
  PROVE  WakeupInv'
<1> USE DEF waiting
<1>1. CommitUnsignalled' = CommitUnsignalled
  BY DEF CommitUnsignalled
<1>2. \A r \in Readers : /\ EntryOf(r)'.validSlices = EntryOf(r).validSlices
                         /\ EntryOf(r)'.invalid = EntryOf(r).invalid
  BY EntryTyped DEF EntryOf
<1>3. \A r \in Readers : TooEarlyNow(r)' = TooEarlyNow(r)
  BY <1>2 DEF TooEarlyNow, MinIndex
<1>4. CounterBehindCommits' /\ IncrementIsAtomic' /\ SeenCounterIsPast'
  BY <1>1 DEF WakeupInv, CounterBehindCommits, IncrementIsAtomic, SeenCounterIsPast
<1>5. HeadIsFresh'
  BY <1>1 DEF WakeupInv, HeadIsFresh, Current, MinIndex
<1>6. SlicesAreFresh'
  BY <1>1, <1>2 DEF WakeupInv, SlicesAreFresh, Current
<1>7. WaitIsJustified'
  BY <1>1, <1>3 DEF WakeupInv, WaitIsJustified, InWait, Current
<1>8. SleeperIsWoken'
  BY DEF WakeupInv, SleeperIsWoken
<1> QED
  BY <1>4, <1>5, <1>6, <1>7, <1>8 DEF WakeupInv

(* While a commit is unsignalled its stores may change the answer of every  *)
(* reader: all that must hold is that the counter still lags behind.        *)
LEMMA UnsignalledStep ==
  ASSUME WakeupInv, CommitUnsignalled', UNCHANGED <<syncCounter, waiting>>,
         syncCounter' < commits', IncrementIsAtomic', TypeOK',
         \A w \in Writers : wpc[w] # "wake"
  PROVE  WakeupInv'
<1> USE DEF waiting
<1>1. CounterBehindCommits'
  BY FlowAssumption DEF CounterBehindCommits, TypeOK
<1>2. SeenCounterIsPast'
  BY DEF WakeupInv, SeenCounterIsPast
<1>3. HeadIsFresh'
  BY DEF WakeupInv, HeadIsFresh, Current, MinIndex
<1>4. WaitIsJustified' /\ SlicesAreFresh'
  BY DEF WaitIsJustified, SlicesAreFresh, Current
<1>5. SleeperIsWoken'
  BY DEF WakeupInv, SleeperIsWoken
<1> QED
  BY <1>1, <1>2, <1>3, <1>4, <1>5 DEF WakeupInv

(* Every step of the only writer keeps the invariant.                       *)
LEMMA WriterWakeupInv ==
  ASSUME TypeOK, TypeOK', SingleWriter, WakeupInv, NEW w \in Writers, WriterNext(w)
  PROVE  WakeupInv'
<1> USE FlowAssumption DEF waiting, readerVars
<1>0. \A v \in Writers : v = w
  BY DEF SingleWriter
<1>1. ASSUME NEW i \in Indices, openGrain(w, i) PROVE WakeupInv'
  <2>1. Slot(i) \in Slots
    BY SlotInRing DEF Indices
  <2>2. \A s \in Slots : /\ grains'[s].validSlices = grains[s].validSlices
                         /\ grains'[s].invalid = grains[s].invalid
    BY <1>1, <2>1 DEF openGrain, TypeOK, GrainInfo
  <2>3. UNCHANGED <<headIndex, syncCounter, wpc, counterReg, commits, waiting>>
    BY <1>1 DEF openGrain
  <2> QED
    BY <2>2, <2>3, QuietStep
<1>2. CASE cancel(w)
  <2>1. UNCHANGED <<headIndex, grains, syncCounter, wpc, counterReg, commits, waiting>>
    BY <1>2 DEF cancel, memory
  <2> QED
    BY <2>1, QuietStep
<1>3. ASSUME NEW info \in GrainInfo, commit(w, info) PROVE WakeupInv'
  <2>1. wpc[w] = "idle" /\ wpc'[w] = "store"
    BY <1>3 DEF commit, TypeOK
  <2>2. CommitUnsignalled'
    BY <2>1 DEF CommitUnsignalled
  <2>3. syncCounter' < commits'
    BY <1>3 DEF commit, memory, WakeupInv, CounterBehindCommits, TypeOK
  <2>4. IncrementIsAtomic'
    BY <1>0, <2>1 DEF IncrementIsAtomic
  <2>5. UNCHANGED <<syncCounter, waiting>>
    BY <1>3 DEF commit, memory
  <2> QED
    BY <1>0, <2>1, <2>2, <2>3, <2>4, <2>5, UnsignalledStep
<1>4. ASSUME wpc[w] = "store", wpc'[w] \in {"store", "load"},
             UNCHANGED <<syncCounter, waiting, commits>>
      PROVE  WakeupInv'
  <2>1. CommitUnsignalled /\ CommitUnsignalled'
    BY <1>4 DEF CommitUnsignalled
  <2>2. syncCounter' < commits'
    BY <1>4, <2>1 DEF WakeupInv, CounterBehindCommits
  <2>3. IncrementIsAtomic'
    BY <1>0, <1>4 DEF IncrementIsAtomic
  <2> QED
    BY <1>0, <1>4, <2>1, <2>2, <2>3, UnsignalledStep
<1>5. CASE StoreHead(w)
  <2>1. wpc'[w] \in {"store", "load"}
    BY <1>5 DEF StoreHead, AfterStore, TypeOK
  <2> QED
    BY <1>4, <1>5, <2>1 DEF StoreHead
<1>6. ASSUME NEW f \in Words, StoreInfo(w, f) PROVE WakeupInv'
  <2>1. wpc'[w] \in {"store", "load"}
    BY <1>6 DEF StoreInfo, AfterStore, TypeOK
  <2> QED
    BY <1>4, <1>6, <2>1 DEF StoreInfo
<1>7. CASE LoadSyncCounter(w)
  <2>1. /\ wpc[w] = "load" /\ wpc'[w] = "increment"
        /\ counterReg'[w] = syncCounter
        /\ UNCHANGED <<syncCounter, waiting, commits>>
    BY <1>7 DEF LoadSyncCounter, memory, TypeOK
  <2>2. CommitUnsignalled /\ CommitUnsignalled'
    BY <2>1 DEF CommitUnsignalled
  <2>3. syncCounter' < commits'
    BY <2>1, <2>2 DEF WakeupInv, CounterBehindCommits
  <2>4. IncrementIsAtomic'
    BY <1>0, <2>1 DEF IncrementIsAtomic
  <2> QED
    BY <1>0, <2>1, <2>2, <2>3, <2>4, UnsignalledStep
<1>8. CASE StoreSyncCounter(w)
  <2>1. /\ wpc[w] = "increment" /\ wpc'[w] = "wake"
        /\ UNCHANGED <<waiting, commits>>
    BY <1>8 DEF StoreSyncCounter, TypeOK
  <2>2. CommitUnsignalled /\ ~CommitUnsignalled'
    BY <1>0, <2>1 DEF CommitUnsignalled
  <2>3. counterReg[w] = syncCounter /\ syncCounter < commits
    BY <2>1, <2>2 DEF WakeupInv, IncrementIsAtomic, CounterBehindCommits
  <2>4. syncCounter' = syncCounter + 1
    BY <1>8, <2>3 DEF StoreSyncCounter, TypeOK
  <2>5. CounterBehindCommits'
    BY <2>1, <2>2, <2>3, <2>4 DEF CounterBehindCommits, TypeOK
  <2>6. IncrementIsAtomic'
    BY <1>0, <2>1 DEF IncrementIsAtomic
  <2>7. \A r \in Readers : seenCounter'[r] < syncCounter'
    BY <2>1, <2>4 DEF WakeupInv, SeenCounterIsPast, TypeOK
  <2>8. SeenCounterIsPast'
    BY <2>7 DEF SeenCounterIsPast, TypeOK
  <2>9. \A r \in Readers : ~Current(r)'
    BY <2>7 DEF Current, TypeOK
  <2>10. HeadIsFresh'
    BY <2>1, <2>9 DEF WakeupInv, HeadIsFresh, MinIndex
  <2>11. WaitIsJustified' /\ SlicesAreFresh'
    BY <2>9 DEF WaitIsJustified, SlicesAreFresh
  <2>12. SleeperIsWoken'
    BY <2>1 DEF SleeperIsWoken
  <2> QED
    BY <2>5, <2>6, <2>8, <2>10, <2>11, <2>12 DEF WakeupInv
<1>9. CASE wakeAll(w)
  <2>1. /\ wpc[w] = "wake" /\ wpc'[w] = "idle"
        /\ UNCHANGED <<headIndex, grains, syncCounter, commits, request, seenCounter, seenHead>>
    BY <1>9 DEF wakeAll, memory, TypeOK
  <2>2. ~CommitUnsignalled /\ ~CommitUnsignalled'
    BY <1>0, <2>1 DEF CommitUnsignalled
  <2>3. \A r \in Readers : rpc'[r] = IF rpc[r] = "sleeping" THEN "checkCounter" ELSE rpc[r]
    BY <1>9 DEF wakeAll
  <2>4. CounterBehindCommits' /\ SeenCounterIsPast'
    BY <2>1, <2>2 DEF WakeupInv, CounterBehindCommits, SeenCounterIsPast
  <2>5. IncrementIsAtomic'
    BY <1>0, <2>1 DEF IncrementIsAtomic
  <2>6. HeadIsFresh'
    BY <2>1, <2>2, <2>3 DEF WakeupInv, HeadIsFresh, Current, MinIndex
  <2>7. \A r \in Readers : TooEarlyNow(r)' = TooEarlyNow(r) /\ EntryOf(r)' = EntryOf(r)
    BY <2>1 DEF TooEarlyNow, MinIndex, EntryOf, Slot
  <2>10. SlicesAreFresh'
    BY <2>1, <2>2, <2>3, <2>7 DEF WakeupInv, SlicesAreFresh, Current
  <2>8. WaitIsJustified'
    BY <2>1, <2>2, <2>3, <2>7 DEF WakeupInv, WaitIsJustified, InWait, Current
  <2>9. SleeperIsWoken'
    BY <2>3 DEF SleeperIsWoken
  <2> QED
    BY <2>4, <2>5, <2>6, <2>8, <2>9, <2>10 DEF WakeupInv
<1> QED
  BY <1>1, <1>2, <1>3, <1>5, <1>6, <1>7, <1>8, <1>9 DEF WriterNext, CommitStep

(* What the invariant says about one reader.                                *)
ReaderOK(r) ==
  /\ seenCounter[r] <= syncCounter
  /\ rpc[r] \in {"readSlices", "readFlags"} =>
       /\ request[r].index <= seenHead[r]
       /\ request[r].index >= MinIndex(seenHead[r])
       /\ (request[r].call # "getGrainNonBlocking" /\ Current(r)) => seenHead[r] = headIndex
  /\ (rpc[r] = "readFlags" /\ request[r].call # "getGrainNonBlocking" /\ Current(r)) =>
       ~EnoughSlices(EntryOf(r).validSlices, request[r].minValidSlices)
  /\ (InWait(r) /\ Current(r)) => TooEarlyNow(r)
  /\ (rpc[r] = "sleeping" /\ seenCounter[r] # syncCounter) =>
       \E w \in Writers : wpc[w] = "wake"

(* The invariant is a statement about the writers and one about each reader. *)
LEMMA InvPerReader ==
  WakeupInv <=> CounterBehindCommits /\ IncrementIsAtomic /\ \A r \in Readers : ReaderOK(r)
  BY DEF WakeupInv, ReaderOK, SeenCounterIsPast, HeadIsFresh, SlicesAreFresh, WaitIsJustified,
     SleeperIsWoken

(* A step of reader r has to establish only what concerns r.                *)
LEMMA OneReaderStep ==
  ASSUME WakeupInv, TypeOK, NEW r \in Readers,
         UNCHANGED <<headIndex, grains, syncCounter, wpc, counterReg, commits>>,
         \A q \in Readers \ {r} :
           /\ rpc'[q] = rpc[q] /\ request'[q] = request[q]
           /\ seenCounter'[q] = seenCounter[q] /\ seenHead'[q] = seenHead[q],
         ReaderOK(r)'
  PROVE  WakeupInv'
<1>1. CommitUnsignalled' = CommitUnsignalled
  BY DEF CommitUnsignalled
<1>2. CounterBehindCommits' /\ IncrementIsAtomic'
  BY <1>1 DEF WakeupInv, CounterBehindCommits, IncrementIsAtomic
<1>3. ASSUME NEW q \in Readers \ {r} PROVE ReaderOK(q)'
  <2>1. ReaderOK(q)
    BY InvPerReader
  <2>2. TooEarlyNow(q)' = TooEarlyNow(q) /\ EntryOf(q)' = EntryOf(q)
    BY DEF TooEarlyNow, MinIndex, EntryOf, Slot
  <2>3. Current(q)' = Current(q) /\ InWait(q)' = InWait(q)
    BY <1>1 DEF Current, InWait
  <2> QED
    BY <2>1, <2>2, <2>3 DEF ReaderOK, MinIndex
<1>4. \A q \in Readers : ReaderOK(q)'
  BY <1>3
<1> QED
  BY <1>2, <1>4, InvPerReader DEF WakeupInv, SeenCounterIsPast, HeadIsFresh, SlicesAreFresh,
     WaitIsJustified, SleeperIsWoken, ReaderOK

(* Every step of a reader keeps the invariant.                              *)
LEMMA ReaderWakeupInv ==
  ASSUME TypeOK, TypeOK', WakeupInv, NEW r \in Readers, ReaderNext(r)
  PROVE  WakeupInv'
<1> USE FlowAssumption
<1>0. ReaderOK(r)
  BY InvPerReader
<1>a. \A q \in Readers \ {r} :
        /\ rpc'[q] = rpc[q] /\ request'[q] = request[q]
        /\ seenCounter'[q] = seenCounter[q] /\ seenHead'[q] = seenHead[q]
  BY DEF ReaderNext, ReaderStep, Begin, LoadCounter, ReadHead, ReadSlices, ReadFlags,
     CopyInfo, CheckCounter, FutexWait, Validate, DeadlinePassed, Interrupted, TimedOut,
     Finish, TooEarly, Granted, Goto, TypeOK
<1>b. UNCHANGED <<headIndex, grains, syncCounter, wpc, counterReg, commits>>
  BY DEF ReaderNext, ReaderStep, Begin, LoadCounter, ReadHead, ReadSlices, ReadFlags,
     CopyInfo, CheckCounter, FutexWait, Validate, DeadlinePassed, Interrupted, TimedOut,
     memory, writerVars
<1>c. CommitUnsignalled' = CommitUnsignalled
  BY <1>b DEF CommitUnsignalled
<1> SUFFICES ReaderOK(r)'
  BY <1>a, <1>b, OneReaderStep
<1>d. ASSUME rpc'[r] \in {"idle", "loadCounter", "readHead", "copyInfo", "validate"},
             seenCounter'[r] <= syncCounter
      PROVE  ReaderOK(r)'
  BY <1>b, <1>d DEF ReaderOK, InWait
<1>e. ASSUME Granted(r) PROVE ReaderOK(r)'
  <2>1. CASE Finish(r, "OK", NoGrain)
    <3>1. rpc'[r] = "idle" /\ seenCounter'[r] = 0
      BY <2>1 DEF Finish, Goto, TypeOK
    <3> QED
      BY <1>d, <3>1 DEF TypeOK
  <2>2. CASE Goto(r, "copyInfo") /\ UNCHANGED <<seenCounter, result>>
    <3>1. rpc'[r] = "copyInfo" /\ seenCounter' = seenCounter
      BY <2>2 DEF Goto, TypeOK
    <3> QED
      BY <1>0, <1>d, <3>1 DEF ReaderOK
  <2> QED
    BY <1>e, <2>1, <2>2 DEF Granted
<1>f. ASSUME TooEarly(r), request' = request,
             request[r].call # "getGrainNonBlocking" /\ Current(r) => TooEarlyNow(r)
      PROVE  ReaderOK(r)'
  <2>1. /\ rpc'[r] = IF request[r].call = "getGrainNonBlocking" THEN "validate" ELSE "checkCounter"
        /\ seenCounter' = seenCounter
    BY <1>f DEF TooEarly, Goto, TypeOK
  <2>2. CASE request[r].call = "getGrainNonBlocking"
    BY <1>0, <1>d, <2>1, <2>2 DEF ReaderOK
  <2>3. CASE request[r].call # "getGrainNonBlocking"
    <3>1. Current(r)' = Current(r)
      BY <1>b, <1>c, <2>1 DEF Current
    <3>2. TooEarlyNow(r)' = TooEarlyNow(r)
      BY <1>b, <1>f DEF TooEarlyNow, MinIndex, EntryOf, Slot
    <3> QED
      BY <1>0, <1>b, <1>f, <2>1, <2>3, <3>1, <3>2 DEF ReaderOK
  <2> QED
    BY <2>2, <2>3
<1>1. ASSUME NEW req \in Requests, Begin(r, req) PROVE ReaderOK(r)'
  <2>1. rpc'[r] \in {"readHead", "loadCounter"} /\ seenCounter'[r] = seenCounter[r]
    BY <1>1 DEF Begin, Goto, TypeOK
  <2> QED
    BY <1>0, <1>d, <2>1 DEF ReaderOK
<1>2. CASE LoadCounter(r)
  <2>1. rpc'[r] = "readHead" /\ seenCounter'[r] = syncCounter
    BY <1>2 DEF LoadCounter, Goto, TypeOK
  <2> QED
    BY <1>d, <2>1 DEF TypeOK
<1>3. CASE ReadHead(r)
  <2>1. seenHead'[r] = headIndex /\ request' = request
    BY <1>3 DEF ReadHead, TypeOK
  <2>2. CASE request[r].index > headIndex /\ TooEarly(r)
    BY <1>f, <2>1, <2>2 DEF TooEarlyNow
  <2>3. CASE Finish(r, "TOO_LATE", NoGrain)
    <3>1. rpc'[r] = "idle" /\ seenCounter'[r] = 0
      BY <2>3 DEF Finish, Goto, TypeOK
    <3> QED
      BY <1>d, <3>1 DEF TypeOK
  <2>4. CASE /\ request[r].index <= headIndex
             /\ request[r].index >= MinIndex(headIndex)
             /\ Goto(r, "readSlices")
             /\ UNCHANGED <<seenCounter, uncopied, result, shown>>
    <3>1. rpc'[r] = "readSlices" /\ seenCounter' = seenCounter
      BY <2>4 DEF Goto, TypeOK
    <3> QED
      BY <1>0, <1>b, <2>1, <2>4, <3>1 DEF ReaderOK, InWait
  <2> QED
    BY <1>3, <2>2, <2>3, <2>4 DEF ReadHead
<1>4. CASE ReadSlices(r)
  <2>1. rpc[r] = "readSlices" /\ request' = request /\ seenHead' = seenHead
    BY <1>4 DEF ReadSlices
  <2>2. CASE Granted(r)
    BY <1>e, <2>2
  <2>3. CASE /\ ~EnoughSlices(EntryOf(r).validSlices, request[r].minValidSlices)
             /\ Goto(r, "readFlags") /\ UNCHANGED <<seenCounter, uncopied, result, shown>>
    <3>1. rpc'[r] = "readFlags" /\ seenCounter' = seenCounter
      BY <2>3 DEF Goto, TypeOK
    <3>2. EntryOf(r)' = EntryOf(r)
      BY <1>b, <2>1 DEF EntryOf, Slot
    <3> QED
      BY <1>0, <1>b, <1>c, <2>1, <2>3, <3>1, <3>2 DEF ReaderOK, InWait, Current, MinIndex
  <2> QED
    BY <1>4, <2>2, <2>3 DEF ReadSlices
<1>5. CASE ReadFlags(r)
  <2>1. rpc[r] = "readFlags" /\ request' = request
    BY <1>5 DEF ReadFlags
  <2>2. CASE Granted(r)
    BY <1>e, <2>2
  <2>3. CASE ~EntryOf(r).invalid /\ TooEarly(r)
    <3>1. request[r].call # "getGrainNonBlocking" /\ Current(r) => TooEarlyNow(r)
      BY <1>0, <2>1, <2>3 DEF ReaderOK, TooEarlyNow
    <3> QED
      BY <1>f, <2>1, <2>3, <3>1
  <2> QED
    BY <1>5, <2>2, <2>3 DEF ReadFlags
<1>12. ASSUME NEW f \in Words, CopyInfo(r, f) PROVE ReaderOK(r)'
  <2>1. \/ rpc'[r] = "idle" /\ seenCounter'[r] = 0
        \/ rpc'[r] = "copyInfo" /\ seenCounter'[r] = seenCounter[r]
    BY <1>12 DEF CopyInfo, Finish, Goto, TypeOK
  <2> QED
    BY <1>0, <1>d, <2>1 DEF ReaderOK, TypeOK
<1>6. CASE Validate(r)
  <2>1. rpc'[r] = "idle" /\ seenCounter'[r] = 0
    BY <1>6 DEF Validate, Finish, Goto, TypeOK
  <2> QED
    BY <1>d, <2>1 DEF TypeOK
<1>7. CASE DeadlinePassed(r) \/ TimedOut(r)
  <2>1. rpc'[r] = "validate" /\ seenCounter' = seenCounter
    BY <1>7 DEF DeadlinePassed, TimedOut, Goto, TypeOK
  <2> QED
    BY <1>0, <1>d, <2>1 DEF ReaderOK
<1>8. ASSUME InWait(r), UNCHANGED <<request, seenCounter, seenHead>>,
             rpc'[r] \in {"checkCounter", "futexWait", "sleeping"},
             rpc'[r] = "sleeping" => seenCounter[r] = syncCounter
      PROVE  ReaderOK(r)'
  <2>1. Current(r)' = Current(r)
    BY <1>b, <1>c, <1>8 DEF Current
  <2>2. TooEarlyNow(r)' = TooEarlyNow(r)
    BY <1>b, <1>8 DEF TooEarlyNow, MinIndex, EntryOf, Slot
  <2> QED
    BY <1>0, <1>b, <1>8, <2>1, <2>2 DEF ReaderOK
<1>9. CASE CheckCounter(r)
  <2>1. CASE syncCounter # seenCounter[r]
    <3>1. rpc'[r] = "loadCounter" /\ seenCounter' = seenCounter
      BY <1>9, <2>1 DEF CheckCounter, Goto, TypeOK
    <3> QED
      BY <1>0, <1>d, <3>1 DEF ReaderOK
  <2>2. CASE syncCounter = seenCounter[r]
    BY <1>8, <1>9, <2>2 DEF CheckCounter, Goto, TypeOK, InWait
  <2> QED
    BY <2>1, <2>2
<1>10. CASE FutexWait(r)
  <2>1. rpc'[r] = IF syncCounter = seenCounter[r] THEN "sleeping" ELSE "checkCounter"
    BY <1>10 DEF FutexWait, Goto, TypeOK
  <2> QED
    BY <1>8, <1>10, <2>1 DEF FutexWait, InWait
<1>11. CASE Interrupted(r)
  BY <1>8, <1>11 DEF Interrupted, Goto, TypeOK, InWait
<1> QED
  BY <1>1, <1>2, <1>3, <1>4, <1>5, <1>6, <1>7, <1>9, <1>10, <1>11, <1>12
  DEF ReaderNext, ReaderStep

(* WakeupInv is inductive under one writer.                                 *)
LEMMA NextWakeupInv ==
  ASSUME SingleWriter
  PROVE  TypeOK /\ TypeOK' /\ WakeupInv /\ [Next]_vars => WakeupInv'
<1> SUFFICES ASSUME TypeOK, TypeOK', WakeupInv, [Next]_vars PROVE WakeupInv'
  OBVIOUS
<1>1. ASSUME NEW w \in Writers, WriterNext(w) PROVE WakeupInv'
  BY <1>1, WriterWakeupInv
<1>2. ASSUME NEW r \in Readers, ReaderNext(r) PROVE WakeupInv'
  BY <1>2, ReaderWakeupInv
<1>3. CASE FlowReplaced \/ UNCHANGED vars
  <2>1. UNCHANGED <<headIndex, grains, syncCounter, wpc, counterReg, commits, waiting>>
    BY <1>3 DEF FlowReplaced, vars, memory, writerVars, readerVars, waiting
  <2> QED
    BY <2>1, QuietStep
<1> QED
  BY <1>1, <1>2, <1>3 DEF Next

(* The invariant says what NoLostWakeup claims.                             *)
LEMMA WakeupInvSuffices == WakeupInv => NoLostWakeup
  BY DEF WakeupInv, NoLostWakeup, WaitIsJustified, SleeperIsWoken, Current

(* No wake-up is ever lost while one process writes the flow, for any       *)
(* number of readers, ring size, slice counts and sequence of indices: the  *)
(* order "counter before head" in the blocking getGrainImpl and "stores     *)
(* before counter" in commit() is enough.                                   *)
THEOREM WakeupsAreNotLost == SingleWriter => (Spec => []NoLostWakeup)
<1> SUFFICES ASSUME SingleWriter PROVE Spec => []NoLostWakeup
  OBVIOUS
<1>1. Init => WakeupInv
  BY InitWakeupInv
<1>2. TypeOK /\ TypeOK' /\ WakeupInv /\ [Next]_vars => WakeupInv'
  BY NextWakeupInv
<1>3. WakeupInv => NoLostWakeup
  BY WakeupInvSuffices
<1> QED
  BY <1>1, <1>2, <1>3, TypeCorrect, PTL DEF Spec

(***************************************************************************)
(* Flows that one process writes in the order that flow.h asks for:        *)
(* DiscreteFlow implements the safety part of GrainRead, and the grain     *)
(* that a reader gets is the one it asked for.                             *)
(***************************************************************************)

(* The published flow: nothing open, nobody reading.                        *)
LEMMA InitOrderInv == Init => OrderInv
  BY DEF Init, OrderInv, OpenIsNotBehind, CommitIsOfOpenGrain, NothingBeforeFirstCommit,
         SeenHeadIsPast

(* openGrain under the protocol, commit() and its stores keep the order of  *)
(* indices: the head only moves to the index that is open.                  *)
LEMMA WriterOrderInv ==
  ASSUME TypeOK, OrderInv, SingleWriter, InOrder, NEW w \in Writers, WriterNext(w)
  PROVE  OrderInv' /\ headIndex' >= headIndex
<1> USE FlowAssumption
<1> USE DEF OrderInv, OpenIsNotBehind, CommitIsOfOpenGrain, NothingBeforeFirstCommit,
            SeenHeadIsPast
<1>0. /\ headIndex \in Nat
      /\ \A v \in Writers : currentIndex[v] \in Int /\ grainInfo[v].index \in Nat
      /\ \A r \in Readers : seenHead[r] \in Nat /\ request[r].index \in Nat
      /\ Writers = {w}
  BY DEF TypeOK, Indices, GrainInfo, Requests, UndefinedIndex, SingleWriter
<1>1. ASSUME NEW i \in Indices, openGrain(w, i) PROVE OrderInv' /\ headIndex' >= headIndex
  <2>1. i >= headIndex
    BY <1>0, <1>1 DEF openGrain, FollowsProtocol, Indices
  <2> QED
    BY <1>0, <1>1, <2>1 DEF openGrain, TypeOK
<1>2. CASE cancel(w)
  BY <1>0, <1>2 DEF cancel, TypeOK, memory, readerVars
<1>3. ASSUME NEW info \in GrainInfo, commit(w, info) PROVE OrderInv' /\ headIndex' >= headIndex
  BY <1>0, <1>3 DEF commit, TypeOK, memory, readerVars
<1>4. CASE StoreHead(w)
  <2>1. headIndex' = grainInfo[w].index /\ headIndex' = currentIndex[w]
    BY <1>0, <1>4 DEF StoreHead
  <2>2. headIndex' >= headIndex
    <3>1. currentIndex[w] \in Nat
      BY <1>0, <2>1
    <3>2. currentIndex[w] # UndefinedIndex
      BY <3>1 DEF UndefinedIndex
    <3> QED
      BY <1>0, <2>1, <3>2
  <2> QED
    BY <1>0, <1>4, <2>1, <2>2 DEF StoreHead, TypeOK, readerVars, AfterStore
<1>5. ASSUME NEW f \in Words, StoreInfo(w, f) PROVE OrderInv' /\ headIndex' >= headIndex
  BY <1>0, <1>5 DEF StoreInfo, TypeOK, AfterStore
<1>6. CASE LoadSyncCounter(w)
  BY <1>0, <1>6 DEF LoadSyncCounter, TypeOK, memory, readerVars
<1>7. CASE StoreSyncCounter(w)
  BY <1>0, <1>7 DEF StoreSyncCounter, TypeOK, readerVars
<1>8. CASE wakeAll(w)
  BY <1>0, <1>8 DEF wakeAll, TypeOK, memory
<1> QED
  BY <1>1, <1>2, <1>3, <1>4, <1>5, <1>6, <1>7, <1>8 DEF WriterNext, CommitStep

(* A reader remembers a head that is current when it looks for its grain.   *)
LEMMA ReaderOrderInv ==
  ASSUME TypeOK, OrderInv, NEW r \in Readers, ReaderNext(r)
  PROVE  OrderInv'
<1> USE DEF OrderInv, OpenIsNotBehind, CommitIsOfOpenGrain, NothingBeforeFirstCommit
<1>0. /\ headIndex \in Nat
      /\ \A q \in Readers : seenHead[q] \in Nat /\ request[q].index \in Nat
      /\ rpc \in [Readers -> ReaderPCs] /\ seenHead \in [Readers -> Indices]
      /\ request \in [Readers -> Requests]
  BY FlowAssumption DEF TypeOK, Indices, Requests
<1> DEFINE OthersKept ==
      /\ UNCHANGED <<headIndex, writerVars, commits>>
      /\ \A q \in Readers \ {r} : /\ rpc'[q] = rpc[q] /\ request'[q] = request[q]
                                  /\ seenHead'[q] = seenHead[q]
<1>1. OthersKept
  <2>1. ASSUME NEW req \in Requests, Begin(r, req) PROVE OthersKept
    BY <1>0, <2>1 DEF Begin, Goto, memory, writerVars
  <2>2. CASE LoadCounter(r)
    BY <1>0, <2>2 DEF LoadCounter, Goto, memory
  <2>3. CASE ReadHead(r)
    BY <1>0, <2>3 DEF ReadHead, Finish, TooEarly, Goto, memory
  <2>4. CASE ReadSlices(r) \/ ReadFlags(r)
    BY <1>0, <2>4 DEF ReadSlices, ReadFlags, Granted, TooEarly, Finish, Goto, memory
  <2>5. ASSUME NEW f \in Words, CopyInfo(r, f) PROVE OthersKept
    BY <1>0, <2>5 DEF CopyInfo, Finish, Goto, memory
  <2>6. CASE CheckCounter(r)
    BY <1>0, <2>6 DEF CheckCounter, Goto, memory
  <2>7. CASE FutexWait(r)
    BY <1>0, <2>7 DEF FutexWait, Goto, memory
  <2>8. CASE Validate(r)
    BY <1>0, <2>8 DEF Validate, Finish, Goto, memory
  <2>9. CASE DeadlinePassed(r) \/ Interrupted(r) \/ TimedOut(r)
    BY <1>0, <2>9 DEF DeadlinePassed, Interrupted, TimedOut, Goto, memory
  <2> QED
    BY <2>1, <2>2, <2>3, <2>4, <2>5, <2>6, <2>7, <2>8, <2>9 DEF ReaderNext, ReaderStep
<1>2. rpc'[r] \in {"readSlices", "readFlags"} =>
        request'[r].index <= seenHead'[r] /\ seenHead'[r] <= headIndex'
  <2>1. CASE ReadHead(r)
    BY <1>0, <2>1 DEF ReadHead, Finish, Goto, TooEarly, memory
  <2>2. CASE ReadSlices(r)
    BY <1>0, <2>2 DEF ReadSlices, Granted, Finish, Goto, memory, SeenHeadIsPast
  <2>3. CASE ~ReadHead(r) /\ ~ReadSlices(r)
    <3>1. ASSUME NEW req \in Requests, Begin(r, req) PROVE rpc'[r] \notin {"readSlices", "readFlags"}
      BY <1>0, <3>1 DEF Begin, Goto
    <3>2. CASE ReaderStep(r)
      BY <1>0, <2>3, <3>2 DEF ReaderStep, LoadCounter, ReadFlags, CopyInfo, CheckCounter,
        FutexWait, Validate, Granted, Finish, Goto, TooEarly
    <3>3. CASE DeadlinePassed(r) \/ Interrupted(r) \/ TimedOut(r)
      BY <1>0, <3>3 DEF DeadlinePassed, Interrupted, TimedOut, Goto
    <3> QED
      BY <3>1, <3>2, <3>3 DEF ReaderNext
  <2> QED
    BY <2>1, <2>2, <2>3
<1>3. SeenHeadIsPast'
  BY <1>1, <1>2 DEF SeenHeadIsPast
<1> QED
  BY <1>1, <1>3 DEF writerVars

(* The order of indices is an invariant of writers that follow the protocol. *)
LEMMA NextOrderInv ==
  ASSUME SingleWriter, InOrder
  PROVE  TypeOK /\ OrderInv /\ [Next]_vars => OrderInv'
<1> SUFFICES ASSUME TypeOK, OrderInv, [Next]_vars PROVE OrderInv'
  OBVIOUS
<1>1. ASSUME NEW w \in Writers, WriterNext(w) PROVE OrderInv'
  BY <1>1, WriterOrderInv
<1>2. ASSUME NEW r \in Readers, ReaderNext(r) PROVE OrderInv'
  BY <1>2, ReaderOrderInv
<1>3. CASE FlowReplaced \/ UNCHANGED vars
  BY <1>3 DEF FlowReplaced, vars, memory, writerVars, readerVars, OrderInv,
     OpenIsNotBehind, CommitIsOfOpenGrain, NothingBeforeFirstCommit, SeenHeadIsPast
<1> QED
  BY <1>1, <1>2, <1>3 DEF Next

(* The values that a reader's entry has had: what it holds now is among     *)
(* them, and so is every word that has been copied.                         *)

InLook(r) == rpc[r] \in {"loadCounter", "readHead", "readSlices", "readFlags", "copyInfo"}

Has(seen, info) == /\ info.index \in seen.index
                   /\ info.validSlices \in seen.validSlices
                   /\ info.invalid \in seen.invalid

Lacking(r) == \E n \in shown[r].validSlices : ~EnoughSlices(n, request[r].minValidSlices)

Copied(r) ==
  /\ "index" \in uncopied[r] \/ result[r].info.index \in shown[r].index
  /\ "validSlices" \in uncopied[r] \/ result[r].info.validSlices \in shown[r].validSlices
  /\ "invalid" \in uncopied[r] \/ result[r].info.invalid \in shown[r].invalid

Shown(r) ==
  /\ InLook(r) => Has(shown[r], EntryOf(r))
  /\ rpc[r] = "readFlags" => Lacking(r)
  /\ rpc[r] = "copyInfo" => Copied(r)

ShownInv == \A r \in Readers : Shown(r)

LEMMA WithHas ==
  ASSUME NEW seen \in Views, NEW info \in GrainInfo
  PROVE  /\ Has(With(seen, info), info)
         /\ With(seen, info) \in Views
         /\ seen.index \subseteq With(seen, info).index
         /\ seen.validSlices \subseteq With(seen, info).validSlices
         /\ seen.invalid \subseteq With(seen, info).invalid
         /\ Has(seen, info) => With(seen, info) = seen
  BY DEF With, Has, Views, GrainInfo

LEMMA ShowsHas ==
  ASSUME TypeOK, NEW i \in Indices
  PROVE  Has(Shows(i), grains[Slot(i)])
<1>1. Nothing \in Views
  BY DEF Nothing, Views
<1>2. Slot(i) \in Slots
  BY SlotInRing, FlowAssumption DEF Indices
<1>3. grains[Slot(i)] \in GrainInfo
  BY <1>2 DEF TypeOK
<1> QED
  BY <1>1, <1>3, WithHas DEF Shows

(* What a writer stores is added to what the readers have been shown.       *)
LEMMA WriterShownInv ==
  ASSUME TypeOK, TypeOK', ShownInv, NEW w \in Writers, WriterNext(w)
  PROVE  ShownInv'
<1> SUFFICES ASSUME NEW r \in Readers PROVE Shown(r)'
  BY DEF ShownInv
<1>0. /\ shown[r] \in Views /\ EntryOf(r) \in GrainInfo /\ EntryOf(r)' \in GrainInfo
      /\ Shown(r)
  <2>1. EntryOf(r) \in GrainInfo
    BY EntryTyped
  <2>2. Slot(request'[r].index) \in Slots
    BY SlotInRing, FlowAssumption DEF TypeOK, Requests, Indices
  <2>3. EntryOf(r)' \in GrainInfo
    BY <2>2 DEF EntryOf, Slot, TypeOK
  <2> QED
    BY <2>1, <2>3 DEF TypeOK, ShownInv
<1>1. UNCHANGED <<request, uncopied, result>>
  BY DEF WriterNext, CommitStep, openGrain, cancel, commit, StoreHead, StoreInfo,
         LoadSyncCounter, StoreSyncCounter, wakeAll, readerVars
<1>2. CASE ShownSince /\ rpc' = rpc
  <2>1. EntryOf(r)' = grains'[Slot(request[r].index)]
    BY <1>1 DEF EntryOf, Slot
  <2>2. CASE InLook(r)
    <3>1. shown'[r] = With(shown[r], EntryOf(r)')
      BY <1>2, <2>1, <2>2 DEF ShownSince, InLook
    <3>2. /\ Has(shown'[r], EntryOf(r)')
          /\ shown[r].index \subseteq shown'[r].index
          /\ shown[r].validSlices \subseteq shown'[r].validSlices
          /\ shown[r].invalid \subseteq shown'[r].invalid
      BY <1>0, <3>1, WithHas
    <3>3. Has(shown[r], EntryOf(r))'
      BY <3>2 DEF Has
    <3>4. Lacking(r) => Lacking(r)'
      BY <1>1, <3>2 DEF Lacking, EnoughSlices
    <3>5. Copied(r) => Copied(r)'
      BY <1>1, <3>2 DEF Copied
    <3> QED
      BY <1>0, <1>2, <3>3, <3>4, <3>5 DEF Shown
  <2>3. CASE ~InLook(r)
    BY <1>2, <2>3 DEF Shown, InLook
  <2> QED
    BY <2>2, <2>3
<1>3. CASE UNCHANGED <<grains, shown>>
  <2>1. \/ rpc'[r] = rpc[r]
        \/ rpc'[r] = "checkCounter"
    BY DEF WriterNext, CommitStep, openGrain, cancel, commit, StoreHead, StoreInfo,
           LoadSyncCounter, StoreSyncCounter, wakeAll, readerVars
  <2>2. EntryOf(r)' = EntryOf(r)
    BY <1>1, <1>3 DEF EntryOf, Slot
  <2> QED
    BY <1>0, <1>1, <1>3, <2>1, <2>2 DEF Shown, InLook, Has, Lacking, Copied, EnoughSlices
<1>4. (ShownSince /\ rpc' = rpc) \/ UNCHANGED <<grains, shown>>
  BY DEF WriterNext, CommitStep, openGrain, cancel, commit, StoreHead, StoreInfo,
         LoadSyncCounter, StoreSyncCounter, wakeAll, readerVars, memory
<1> QED
  BY <1>2, <1>3, <1>4

(* A look begins with what the entry holds, and copies what it shows.       *)
LEMMA ReaderShownInv ==
  ASSUME TypeOK, ShownInv, NEW r \in Readers, ReaderNext(r)
  PROVE  ShownInv'
<1>0. /\ Shown(r) /\ request[r].index \in Indices
      /\ rpc \in [Readers -> ReaderPCs] /\ shown \in [Readers -> Views]
      /\ request \in [Readers -> Requests] /\ uncopied \in [Readers -> SUBSET Words]
      /\ result \in [Readers -> [status : Statuses, info : GrainInfo]]
  BY DEF ShownInv, TypeOK, Requests
<1> DEFINE Rest ==
      /\ UNCHANGED grains
      /\ \A q \in Readers \ {r} :
           /\ rpc'[q] = rpc[q] /\ request'[q] = request[q] /\ shown'[q] = shown[q]
           /\ uncopied'[q] = uncopied[q] /\ result'[q] = result[q]
<1> SUFFICES Rest /\ Shown(r)'
  <2>1. SUFFICES ASSUME Rest, Shown(r)' PROVE ShownInv'
    OBVIOUS
  <2>2. ASSUME NEW q \in Readers \ {r} PROVE Shown(q)'
    <3>1. Shown(q) /\ EntryOf(q)' = EntryOf(q)
      BY <2>1 DEF ShownInv, EntryOf, Slot
    <3> QED
      BY <2>1, <3>1 DEF Shown, InLook, Has, Lacking, Copied, EnoughSlices
  <2> QED
    BY <2>1, <2>2 DEF ShownInv
<1>a. ASSUME UNCHANGED grains, rpc'[r] \in {"idle", "checkCounter", "futexWait", "sleeping", "validate"}
      PROVE  Shown(r)'
  BY <1>a DEF Shown, InLook
<1>b. ASSUME UNCHANGED <<grains, request>>, shown'[r] = Shows(request[r].index),
             rpc'[r] \in {"loadCounter", "readHead"} \/ (rpc'[r] = "copyInfo" /\ uncopied'[r] = Words)
      PROVE  Shown(r)'
  <2>1. Has(shown'[r], EntryOf(r)')
    BY <1>0, <1>b, ShowsHas DEF EntryOf, Slot
  <2>2. Has(shown[r], EntryOf(r))'
    BY <2>1 DEF Has
  <2> QED
    BY <1>b, <2>2 DEF Shown, Copied, Words
<1>c. ASSUME UNCHANGED <<grains, request>>, Granted(r) \/ TooEarly(r) PROVE Rest /\ Shown(r)'
  <2>1. CASE TooEarly(r)
    BY <1>0, <1>a, <1>c, <2>1 DEF TooEarly, Goto
  <2>2. CASE Granted(r)
    <3>1. CASE Finish(r, "OK", NoGrain) /\ UNCHANGED uncopied
      BY <1>0, <1>a, <1>c, <3>1 DEF Finish, Goto
    <3>2. CASE /\ Goto(r, "copyInfo") /\ uncopied' = [uncopied EXCEPT ![r] = Words]
               /\ shown' = [shown EXCEPT ![r] = Shows(request[r].index)]
               /\ UNCHANGED <<seenCounter, result>>
      BY <1>0, <1>b, <1>c, <3>2 DEF Goto
    <3> QED
      BY <2>2, <3>1, <3>2 DEF Granted
  <2> QED
    BY <1>c, <2>1, <2>2
<1>1. ASSUME NEW req \in Requests, Begin(r, req) PROVE Rest /\ Shown(r)'
  <2>1. Rest /\ shown'[r] = Shows(req.index) /\ request'[r] = req
        /\ rpc'[r] \in {"loadCounter", "readHead"}
    BY <1>0, <1>1 DEF Begin, Goto, memory
  <2>2. Has(shown'[r], EntryOf(r)')
    BY <2>1, ShowsHas DEF EntryOf, Slot, Requests
  <2>3. Has(shown[r], EntryOf(r))'
    BY <2>2 DEF Has
  <2> QED
    BY <2>1, <2>3 DEF Shown
<1>2. CASE LoadCounter(r)
  <2>1. Rest /\ UNCHANGED <<request, shown>> /\ rpc[r] = "loadCounter" /\ rpc'[r] = "readHead"
    BY <1>0, <1>2 DEF LoadCounter, Goto, memory
  <2>2. EntryOf(r)' = EntryOf(r)
    BY <2>1 DEF EntryOf, Slot
  <2> QED
    BY <1>0, <2>1, <2>2 DEF Shown, InLook, Has
<1>3. CASE ReadHead(r)
  <2>0. UNCHANGED <<grains, request>> /\ rpc[r] = "readHead"
    BY <1>3 DEF ReadHead, memory
  <2>1. CASE Finish(r, "TOO_LATE", NoGrain) /\ UNCHANGED uncopied
    BY <1>0, <1>a, <2>0, <2>1 DEF Finish, Goto
  <2>2. CASE Goto(r, "readSlices") /\ UNCHANGED <<seenCounter, uncopied, result, shown>>
    <3>1. EntryOf(r)' = EntryOf(r)
      BY <2>0 DEF EntryOf, Slot
    <3> QED
      BY <1>0, <2>0, <2>2, <3>1 DEF Goto, Shown, InLook, Has
  <2> QED
    BY <1>3, <1>c, <2>0, <2>1, <2>2 DEF ReadHead
<1>4. CASE ReadSlices(r)
  <2>0. UNCHANGED <<grains, request>> /\ rpc[r] = "readSlices"
    BY <1>4 DEF ReadSlices, memory
  <2>1. CASE /\ ~EnoughSlices(EntryOf(r).validSlices, request[r].minValidSlices)
             /\ Goto(r, "readFlags") /\ UNCHANGED <<seenCounter, uncopied, result, shown>>
    <3>1. EntryOf(r)' = EntryOf(r)
      BY <2>0 DEF EntryOf, Slot
    <3>2. Has(shown[r], EntryOf(r))
      BY <1>0, <2>0 DEF Shown, InLook
    <3>3. Lacking(r)
      BY <2>1, <3>2 DEF Lacking, Has
    <3>4. Rest /\ rpc'[r] = "readFlags" /\ shown' = shown
      BY <1>0, <2>0, <2>1 DEF Goto
    <3> QED
      BY <2>0, <3>1, <3>2, <3>3, <3>4 DEF Shown, Has, Lacking, EnoughSlices
  <2> QED
    BY <1>4, <1>c, <2>0, <2>1 DEF ReadSlices
<1>5. CASE ReadFlags(r)
  <2>0. UNCHANGED <<grains, request>>
    BY <1>5 DEF ReadFlags, memory
  <2> QED
    BY <1>5, <1>c, <2>0 DEF ReadFlags
<1>6. ASSUME NEW f \in Words, CopyInfo(r, f) PROVE Rest /\ Shown(r)'
  <2> DEFINE info == Overwritten(result[r].info, f, EntryOf(r))
  <2>0. UNCHANGED <<grains, request>> /\ rpc[r] = "copyInfo"
        /\ uncopied' = [uncopied EXCEPT ![r] = @ \ {f}]
    BY <1>6 DEF CopyInfo, memory
  <2>1. CASE Finish(r, "OK", info)
    BY <1>0, <1>a, <2>0, <2>1 DEF Finish, Goto
  <2>2. CASE result' = [result EXCEPT ![r].info = info] /\ UNCHANGED <<rpc, seenCounter, shown>>
    <3>1. EntryOf(r)' = EntryOf(r)
      BY <2>0 DEF EntryOf, Slot
    <3>2. Has(shown[r], EntryOf(r)) /\ Copied(r)
      BY <1>0, <2>0 DEF Shown, InLook
    <3>3. result'[r].info = info /\ uncopied'[r] = uncopied[r] \ {f}
      BY <1>0, <2>0, <2>2
    <3>4. /\ info.index = IF f = "index" THEN EntryOf(r).index ELSE result[r].info.index
          /\ info.validSlices = IF f = "validSlices" THEN EntryOf(r).validSlices
                                ELSE result[r].info.validSlices
          /\ info.invalid = IF f = "invalid" THEN EntryOf(r).invalid ELSE result[r].info.invalid
      BY DEF Overwritten
    <3> HIDE DEF info
    <3>5. Copied(r)'
      BY <2>2, <3>2, <3>3, <3>4 DEF Copied, Has
    <3>6. Rest
      BY <1>0, <2>0, <2>2
    <3> QED
      BY <2>0, <2>2, <3>1, <3>2, <3>5, <3>6 DEF Shown, Has
  <2> QED
    BY <1>6, <2>1, <2>2 DEF CopyInfo
<1>7. CASE CheckCounter(r)
  <2>0. UNCHANGED <<grains, request>> /\ UNCHANGED <<uncopied, result>>
    BY <1>7 DEF CheckCounter, memory
  <2>1. CASE Goto(r, "loadCounter") /\ shown' = [shown EXCEPT ![r] = Shows(request[r].index)]
    BY <1>0, <1>b, <2>0, <2>1 DEF Goto
  <2>2. CASE Goto(r, "futexWait") /\ UNCHANGED shown
    BY <1>0, <1>a, <2>0, <2>2 DEF Goto
  <2> QED
    BY <1>7, <2>1, <2>2 DEF CheckCounter
<1>8. CASE FutexWait(r) \/ DeadlinePassed(r) \/ Interrupted(r) \/ TimedOut(r)
  BY <1>0, <1>a, <1>8 DEF FutexWait, DeadlinePassed, Interrupted, TimedOut, Goto, memory
<1>9. CASE Validate(r)
  BY <1>0, <1>a, <1>9 DEF Validate, Finish, Goto, memory
<1> QED
  BY <1>1, <1>2, <1>3, <1>4, <1>5, <1>6, <1>7, <1>8, <1>9 DEF ReaderNext, ReaderStep

LEMMA NextShownInv == TypeOK /\ TypeOK' /\ ShownInv /\ [Next]_vars => ShownInv'
<1> SUFFICES ASSUME TypeOK, TypeOK', ShownInv, [Next]_vars PROVE ShownInv'
  OBVIOUS
<1>1. ASSUME NEW w \in Writers, WriterNext(w) PROVE ShownInv'
  BY <1>1, WriterShownInv
<1>2. ASSUME NEW r \in Readers, ReaderNext(r) PROVE ShownInv'
  BY <1>2, ReaderShownInv
<1>3. CASE FlowReplaced \/ UNCHANGED vars
  <2>1. UNCHANGED <<grains, readerVars>>
    BY <1>3 DEF FlowReplaced, vars, memory
  <2> QED
    BY <2>1 DEF readerVars, ShownInv, Shown, InLook, Has, Lacking, Copied, EnoughSlices, EntryOf, Slot
<1> QED
  BY <1>1, <1>2, <1>3 DEF Next

(* The phase of a reader follows its program counter, and it has an answer  *)
(* when it is idle.                                                         *)
LEMMA PhaseMoves ==
  ASSUME TypeOK, NEW r \in Readers, NEW pc, rpc' = [rpc EXCEPT ![r] = pc]
  PROVE  Phase[r] = PhaseOf(rpc[r]) /\ Phase' = [Phase EXCEPT ![r] = PhaseOf(pc)]
  BY DEF TypeOK, Phase

LEMMA StillUnanswered ==
  ASSUME TypeOK, NEW r \in Readers, NEW pc, rpc' = [rpc EXCEPT ![r] = pc],
         rpc[r] # "idle", pc # "idle",
         \A q \in Readers \ {r} : result'[q] = result[q]
  PROVE  Answer' = Answer
  BY DEF TypeOK, Answer

LEMMA LooksAre ==
  ASSUME TypeOK, NEW r \in Readers
  PROVE  Phase[r] \in {"looking", "granted"} <=> InLook(r)
  BY DEF Phase, PhaseOf, InLook, TypeOK, ReaderPCs

(* A step of a writer changes the ring for the readers and nothing else;    *)
(* wakeAll moves a reader from one kind of waiting to another.              *)
LEMMA WriterRefines ==
  ASSUME TypeOK, OrderInv, ShownInv, SingleWriter, InOrder, NEW w \in Writers, WriterNext(w)
  PROVE  Abstract!Write
<1>1. headIndex' >= headIndex
  BY WriterOrderInv
<1>2. request' = request /\ result' = result
  BY DEF WriterNext, CommitStep, openGrain, cancel, commit, StoreHead, StoreInfo,
         LoadSyncCounter, StoreSyncCounter, wakeAll, readerVars
<1>3. Phase' = Phase /\ Answer' = Answer
  <2>1. CASE wakeAll(w)
    BY <2>1 DEF wakeAll, Phase, PhaseOf, Answer, TypeOK
  <2>2. CASE rpc' = rpc
    BY <1>2, <2>2 DEF Phase, Answer
  <2> QED
    BY <2>1, <2>2 DEF WriterNext, CommitStep, openGrain, cancel, commit, StoreHead, StoreInfo,
       LoadSyncCounter, StoreSyncCounter, readerVars
<1>4. shown' = [r \in Readers |-> IF Phase[r] \in {"looking", "granted"}
                                 THEN Abstract!With(shown[r], Abstract!Entry(r)') ELSE shown[r]]
  <2>1. CASE ShownSince
    BY <1>2, <2>1, LooksAre DEF ShownSince, InLook, Abstract!With, With, Abstract!Entry, Slot
  <2>2. CASE UNCHANGED <<grains, shown>>
    <3>1. ASSUME NEW r \in Readers, InLook(r)
          PROVE  Abstract!With(shown[r], Abstract!Entry(r)') = shown[r]
      <4>1. Has(shown[r], EntryOf(r)) /\ EntryOf(r) \in GrainInfo /\ shown[r] \in Views
        BY <3>1, EntryTyped DEF ShownInv, Shown, TypeOK
      <4>2. With(shown[r], EntryOf(r)) = shown[r]
        BY <4>1, WithHas
      <4>3. Abstract!Entry(r)' = EntryOf(r)
        BY <1>2, <2>2 DEF Abstract!Entry, EntryOf, Slot
      <4> QED
        BY <4>2, <4>3 DEF Abstract!With, With
    <3>2. shown \in [Readers -> Views]
      BY DEF TypeOK
    <3> QED
      BY <2>2, <3>1, <3>2, LooksAre
  <2> QED
    BY <2>1, <2>2 DEF WriterNext, CommitStep, openGrain, cancel, commit, StoreHead, StoreInfo,
       LoadSyncCounter, StoreSyncCounter, wakeAll, readerVars, memory
<1> QED
  BY <1>1, <1>2, <1>3, <1>4 DEF Abstract!Write

(* What the two readings of the slice check have in common.                 *)
LEMMA SameSliceCheck ==
  ASSUME NEW r \in Readers
  PROVE  /\ Abstract!Entry(r) = EntryOf(r)
         /\ \A n : Abstract!IsEnough(n, r) <=> EnoughSlices(n, request[r].minValidSlices)
         /\ Abstract!Enough(r) <=> \/ EnoughSlices(EntryOf(r).validSlices, request[r].minValidSlices)
                                   \/ EntryOf(r).invalid
         /\ Abstract!Oldest = MinIndex(headIndex)
         /\ Abstract!Nothing = Nothing
         /\ Abstract!With(Nothing, Abstract!Entry(r)) = Shows(request[r].index)
  BY DEF Abstract!Entry, Abstract!Enough, Abstract!IsEnough, Abstract!Oldest, EnoughSlices,
         EntryOf, Slot, MinIndex, Abstract!Nothing, Nothing, Abstract!With, With, Shows

(* A call that returns replies to its caller and to nobody else.            *)
LEMMA FinishReplies ==
  ASSUME TypeOK, NEW r \in Readers, NEW status, NEW info, Finish(r, status, info)
  PROVE  Abstract!Reply(r, PhaseOf(rpc[r]), status) /\ Answer'[r].info = info
<1>1. result \in [Readers -> [status : Statuses, info : GrainInfo]]
  BY DEF TypeOK
<1>2. result' = [result EXCEPT ![r] = [status |-> status, info |-> info]]
  BY DEF Finish
<1>3. result'[r] = [status |-> status, info |-> info]
  BY <1>1, <1>2
<1>5. rpc' = [rpc EXCEPT ![r] = "idle"]
  BY DEF Finish, Goto
<1>4. Answer'[r] = result'[r] /\ \A q \in Readers \ {r} : Answer'[q] = Answer[q]
  BY <1>1, <1>2, <1>5 DEF Answer, TypeOK
<1>6. Phase[r] = PhaseOf(rpc[r]) /\ Phase' = [Phase EXCEPT ![r] = PhaseOf("idle")]
  BY <1>5, PhaseMoves
<1>7. PhaseOf("idle") = "idle"
  BY DEF PhaseOf
<1>8. Abstract!Move(r, PhaseOf(rpc[r]), "idle")
  BY <1>6, <1>7 DEF Abstract!Move
<1>9. Answer'[r].status = status /\ Answer'[r].info = info
  BY <1>3, <1>4
<1>10. Abstract!Forget(r)
  BY SameSliceCheck DEF Finish, Abstract!Forget
<1> QED
  BY <1>4, <1>8, <1>9, <1>10 DEF Abstract!Reply

(* A call that misses its grain, or is granted it.                          *)
LEMMA TooEarlyMisses ==
  ASSUME TypeOK, NEW r \in Readers, rpc[r] \in {"readHead", "readFlags"}, TooEarly(r),
         UNCHANGED <<headIndex, grains, request>>,
         request[r].index > headIndex \/ Abstract!SeenMissing(r)
  PROVE  Abstract!Next
<1> DEFINE pc == IF request[r].call = "getGrainNonBlocking" THEN "validate" ELSE "checkCounter"
<1>1. rpc' = [rpc EXCEPT ![r] = pc] /\ result' = result
  BY DEF TooEarly, Goto
<1>2. PhaseOf(rpc[r]) = "looking" /\ PhaseOf(pc) = "missing" /\ pc # "idle" /\ rpc[r] # "idle"
  BY DEF PhaseOf
<1> HIDE DEF pc
<1>3. Abstract!Move(r, "looking", "missing")
  BY <1>1, <1>2, PhaseMoves DEF Abstract!Move
<1>4. Answer' = Answer
  BY <1>1, <1>2, StillUnanswered
<1>5. Abstract!Forget(r)
  BY SameSliceCheck DEF TooEarly, Abstract!Forget
<1>6. Abstract!Miss(r)
  BY <1>3, <1>4, <1>5 DEF Abstract!Miss
<1> QED
  BY <1>6 DEF Abstract!Next, Abstract!Look

LEMMA GrantedFinds ==
  ASSUME TypeOK, NEW r \in Readers, rpc[r] \in {"readSlices", "readFlags"}, Granted(r),
         UNCHANGED <<headIndex, grains, request>>,
         request[r].index <= headIndex, Abstract!Enough(r)
  PROVE  Abstract!Next
<1>0. PhaseOf(rpc[r]) = "looking" /\ PhaseOf("copyInfo") = "granted"
  BY DEF PhaseOf
<1>1. CASE request[r].call = "waitForGrain" /\ Finish(r, "OK", NoGrain)
  <2>1. Abstract!Reply(r, "looking", "OK")
    BY <1>0, <1>1, FinishReplies
  <2>2. Abstract!Found(r)
    BY <1>1, <2>1 DEF Abstract!Found
  <2> QED
    BY <2>2 DEF Abstract!Next, Abstract!Look
<1>2. CASE /\ Goto(r, "copyInfo") /\ shown' = [shown EXCEPT ![r] = Shows(request[r].index)]
           /\ UNCHANGED result
  <2>1. rpc' = [rpc EXCEPT ![r] = "copyInfo"]
    BY <1>2 DEF Goto
  <2>2. Abstract!Move(r, "looking", "granted")
    BY <1>0, <2>1, PhaseMoves DEF Abstract!Move
  <2>3. Answer' = Answer
    BY <1>2, <2>1, StillUnanswered
  <2>4. Abstract!Sees(r)
    <3>1. Abstract!Entry(r)' = Abstract!Entry(r)
      BY DEF Abstract!Entry
    <3> QED
      BY <1>2, <3>1, SameSliceCheck DEF Abstract!Sees
  <2>5. Abstract!Found(r)
    BY <2>2, <2>3, <2>4 DEF Abstract!Found
  <2> QED
    BY <2>5 DEF Abstract!Next, Abstract!Look
<1> QED
  BY <1>1, <1>2 DEF Granted

(* Every step of a reader is a step of its abstract call or changes nothing *)
(* that the caller can see.                                                 *)
LEMMA ReaderRefines ==
  ASSUME TypeOK, OrderInv, ShownInv, NEW r \in Readers, ReaderNext(r)
  PROVE  Abstract!Next \/ UNCHANGED Abstract!vars
<1>0. /\ headIndex \in Nat /\ request[r].index \in Nat
      /\ rpc \in [Readers -> ReaderPCs] /\ result \in [Readers -> [status : Statuses, info : GrainInfo]]
      /\ request \in [Readers -> Requests] /\ shown \in [Readers -> Views]
  BY FlowAssumption DEF TypeOK, Indices, Requests
<1>a. ASSUME NEW pc, rpc' = [rpc EXCEPT ![r] = pc], PhaseOf(pc) = PhaseOf(rpc[r]),
             rpc[r] # "idle", pc # "idle", \A q \in Readers \ {r} : result'[q] = result[q],
             UNCHANGED <<headIndex, grains, request, shown>>
      PROVE  UNCHANGED Abstract!vars
  <2>1. Phase' = Phase
    BY <1>0, <1>a DEF Phase
  <2>2. Answer' = Answer
    BY <1>a, StillUnanswered
  <2> QED
    BY <1>a, <2>1, <2>2 DEF Abstract!vars
<1>1. ASSUME NEW req \in Requests, Begin(r, req) PROVE Abstract!Ask(r)
  <2>1. Phase[r] = "idle" /\ Phase' = [Phase EXCEPT ![r] = "looking"]
    BY <1>1, PhaseMoves DEF Begin, Goto, PhaseOf
  <2>2. Answer'[r].status = "NONE" /\ \A q \in Readers \ {r} : Answer'[q] = Answer[q]
    BY <1>0, <1>1 DEF Begin, Goto, Answer
  <2>3. Abstract!Sees(r)
    <3>1. request'[r] = req /\ grains' = grains /\ shown' = [shown EXCEPT ![r] = Shows(req.index)]
      BY <1>0, <1>1 DEF Begin, memory
    <3>2. Abstract!With(Abstract!Nothing, Abstract!Entry(r)') = Shows(req.index)
      BY <3>1 DEF Abstract!Entry, Abstract!With, Abstract!Nothing, Nothing, With, Shows, Slot
    <3> QED
      BY <3>1, <3>2 DEF Abstract!Sees
  <2> QED
    BY <1>0, <1>1, <2>1, <2>2, <2>3 DEF Begin, Abstract!Ask, Abstract!Move, memory
<1>2. CASE LoadCounter(r)
  BY <1>a, <1>2 DEF LoadCounter, Goto, PhaseOf, memory
<1>3. CASE ReadHead(r)
  <2>0. rpc[r] = "readHead" /\ UNCHANGED <<headIndex, grains, request>>
    BY <1>3 DEF ReadHead, memory
  <2>1. CASE request[r].index > headIndex /\ TooEarly(r)
    BY <2>0, <2>1, TooEarlyMisses
  <2>2. CASE request[r].index < MinIndex(headIndex) /\ Finish(r, "TOO_LATE", NoGrain)
    <3>1. PhaseOf(rpc[r]) = "looking"
      BY <2>0 DEF PhaseOf
    <3>2. Abstract!TooLate(r)
      BY <2>0, <2>2, <3>1, FinishReplies, SameSliceCheck DEF Abstract!TooLate
    <3> QED
      BY <3>2 DEF Abstract!Next, Abstract!Look
  <2>3. CASE Goto(r, "readSlices") /\ UNCHANGED <<seenCounter, uncopied, result, shown>>
    BY <1>a, <2>0, <2>3 DEF Goto, PhaseOf
  <2> QED
    BY <1>3, <2>1, <2>2, <2>3 DEF ReadHead
<1>4. CASE ReadSlices(r)
  <2>0. rpc[r] = "readSlices" /\ UNCHANGED <<headIndex, grains, request>> /\ request[r].index <= headIndex
    BY <1>0, <1>4 DEF ReadSlices, memory, OrderInv, SeenHeadIsPast, TypeOK, Indices
  <2>1. CASE EnoughSlices(EntryOf(r).validSlices, request[r].minValidSlices) /\ Granted(r)
    BY <2>0, <2>1, GrantedFinds, SameSliceCheck
  <2>2. CASE Goto(r, "readFlags") /\ UNCHANGED <<seenCounter, uncopied, result, shown>>
    BY <1>a, <2>0, <2>2 DEF Goto, PhaseOf
  <2> QED
    BY <1>4, <2>1, <2>2 DEF ReadSlices
<1>5. CASE ReadFlags(r)
  <2>0. rpc[r] = "readFlags" /\ UNCHANGED <<headIndex, grains, request>> /\ request[r].index <= headIndex
    BY <1>0, <1>5 DEF ReadFlags, memory, OrderInv, SeenHeadIsPast, TypeOK, Indices
  <2>1. CASE EntryOf(r).invalid /\ Granted(r)
    BY <2>0, <2>1, GrantedFinds, SameSliceCheck
  <2>2. CASE ~EntryOf(r).invalid /\ TooEarly(r)
    <3>1. Has(shown[r], EntryOf(r)) /\ Lacking(r) /\ EntryOf(r) \in GrainInfo
      BY <2>0, EntryTyped DEF ShownInv, Shown, InLook
    <3>2. EntryOf(r).invalid = FALSE
      BY <2>2, <3>1 DEF GrainInfo
    <3>3. Abstract!SeenMissing(r)
      BY <3>1, <3>2, SameSliceCheck DEF Has, Lacking, Abstract!SeenMissing
    <3> QED
      BY <2>0, <2>2, <3>3, TooEarlyMisses
  <2> QED
    BY <1>5, <2>1, <2>2 DEF ReadFlags
<1>6. ASSUME NEW f \in Words, CopyInfo(r, f) PROVE Abstract!Next \/ UNCHANGED Abstract!vars
  <2> DEFINE info == Overwritten(result[r].info, f, EntryOf(r))
  <2>0. /\ rpc[r] = "copyInfo" /\ UNCHANGED <<headIndex, grains, request>>
        /\ PhaseOf(rpc[r]) = "granted"
    BY <1>6 DEF CopyInfo, memory, PhaseOf
  <2>1. CASE result' = [result EXCEPT ![r].info = info] /\ UNCHANGED <<rpc, seenCounter, shown>>
    <3>1. Phase' = Phase /\ Answer' = Answer
      BY <1>0, <2>0, <2>1 DEF Phase, Answer
    <3> QED
      BY <2>0, <2>1, <3>1 DEF Abstract!vars
  <2>2. CASE uncopied[r] = {f} /\ Finish(r, "OK", info)
    <3>1. Abstract!Reply(r, "granted", "OK") /\ Answer'[r].info = info
      BY <2>0, <2>2, FinishReplies
    <3>2. Has(shown[r], EntryOf(r)) /\ Copied(r)
      BY <2>0 DEF ShownInv, Shown, InLook
    <3>3. /\ info.index = IF f = "index" THEN EntryOf(r).index ELSE result[r].info.index
          /\ info.validSlices = IF f = "validSlices" THEN EntryOf(r).validSlices
                                ELSE result[r].info.validSlices
          /\ info.invalid = IF f = "invalid" THEN EntryOf(r).invalid ELSE result[r].info.invalid
      BY DEF Overwritten
    <3> HIDE DEF info
    <3>4. Has(shown[r], info)
      BY <2>2, <3>2, <3>3 DEF Has, Copied
    <3>5. Abstract!Return(r)
      BY <2>0, <3>1, <3>4 DEF Abstract!Return, Has
    <3> QED
      BY <3>5 DEF Abstract!Next
  <2> QED
    BY <1>6, <2>1, <2>2 DEF CopyInfo
<1>7. CASE CheckCounter(r)
  <2>0. rpc[r] = "checkCounter" /\ UNCHANGED <<headIndex, grains, request, result>>
    BY <1>7 DEF CheckCounter, memory
  <2>1. CASE Goto(r, "loadCounter") /\ shown' = [shown EXCEPT ![r] = Shows(request[r].index)]
    <3>1. rpc' = [rpc EXCEPT ![r] = "loadCounter"]
      BY <2>1 DEF Goto
    <3>2. Abstract!Move(r, "missing", "looking")
      BY <2>0, <3>1, PhaseMoves DEF PhaseOf, Abstract!Move
    <3>3. Answer' = Answer
      BY <2>0, <3>1, StillUnanswered
    <3>4. Abstract!Sees(r)
      <4>1. Abstract!Entry(r)' = Abstract!Entry(r)
        BY <2>0 DEF Abstract!Entry
      <4> QED
        BY <2>1, <4>1, SameSliceCheck DEF Abstract!Sees
    <3>5. Abstract!LookAgain(r)
      BY <2>0, <3>2, <3>3, <3>4 DEF Abstract!LookAgain
    <3> QED
      BY <3>5 DEF Abstract!Next
  <2>2. CASE Goto(r, "futexWait") /\ UNCHANGED shown
    BY <1>a, <2>0, <2>2 DEF Goto, PhaseOf
  <2> QED
    BY <1>7, <2>1, <2>2 DEF CheckCounter
<1>8. CASE FutexWait(r) \/ DeadlinePassed(r) \/ Interrupted(r) \/ TimedOut(r)
  <2>1. CASE FutexWait(r)
    BY <1>a, <2>1 DEF FutexWait, Goto, PhaseOf, memory
  <2>2. CASE DeadlinePassed(r)
    BY <1>a, <2>2 DEF DeadlinePassed, Goto, PhaseOf, memory
  <2>3. CASE Interrupted(r)
    BY <1>a, <2>3 DEF Interrupted, Goto, PhaseOf, memory
  <2>4. CASE TimedOut(r)
    BY <1>a, <2>4 DEF TimedOut, Goto, PhaseOf, memory
  <2> QED
    BY <1>8, <2>1, <2>2, <2>3, <2>4
<1>9. CASE Validate(r)
  <2>1. PhaseOf(rpc[r]) = "missing"
    BY <1>9 DEF Validate, PhaseOf
  <2>2. Abstract!Reply(r, "missing", "TOO_EARLY") \/ Abstract!Reply(r, "missing", "FLOW_INVALID")
    <3>1. CASE inodeMatches
      BY <1>9, <2>1, <3>1, FinishReplies DEF Validate
    <3>2. CASE ~inodeMatches
      BY <1>9, <2>1, <3>2, FinishReplies DEF Validate
    <3> QED
      BY <3>1, <3>2
  <2>3. Abstract!GiveUp(r)
    BY <1>9, <2>2 DEF Validate, Abstract!GiveUp, memory
  <2> QED
    BY <2>3 DEF Abstract!Next
<1> QED
  BY <1>1, <1>2, <1>3, <1>4, <1>5, <1>6, <1>7, <1>8, <1>9 DEF ReaderNext, ReaderStep, Abstract!Next

(* DiscreteFlow implements GrainRead: with one writer that follows the       *)
(* protocol of flow.h, getGrain, waitForGrain and the getGrain that does    *)
(* not block grant a grain only when it is there, miss one only when this   *)
(* look has seen too few slices and no flag, and return a header whose      *)
(* words the entry has held since the grant, although head, slices, flags   *)
(* and header are read in separate steps and written in separate stores.    *)
THEOREM ReadsAreRegular == SingleWriter /\ InOrder => (Spec => Abstract!SafeSpec)
<1> SUFFICES ASSUME SingleWriter, InOrder PROVE Spec => Abstract!SafeSpec
  OBVIOUS
<1>1. Init => Abstract!Init
  BY DEF Init, Abstract!Init, Phase, PhaseOf, Answer, Nothing, Abstract!Nothing
<1>2. TypeOK /\ OrderInv /\ ShownInv /\ [Next]_vars => [Abstract!Next]_(Abstract!vars)
  <2> SUFFICES ASSUME TypeOK, OrderInv, ShownInv, [Next]_vars
               PROVE  Abstract!Next \/ UNCHANGED Abstract!vars
    OBVIOUS
  <2>1. ASSUME NEW w \in Writers, WriterNext(w) PROVE Abstract!Next
    BY <2>1, WriterRefines DEF Abstract!Next
  <2>2. ASSUME NEW r \in Readers, ReaderNext(r) PROVE Abstract!Next \/ UNCHANGED Abstract!vars
    BY <2>2, ReaderRefines
  <2>3. CASE FlowReplaced \/ UNCHANGED vars
    BY <2>3 DEF FlowReplaced, vars, memory, readerVars, Abstract!vars, Phase, Answer
  <2> QED
    BY <2>1, <2>2, <2>3 DEF Next
<1>3. Spec => []TypeOK
  BY TypeCorrect
<1>4. Spec => []OrderInv
  BY <1>3, InitOrderInv, NextOrderInv, PTL DEF Spec
<1>5. Init => ShownInv
  BY DEF Init, ShownInv, Shown, InLook
<1>6. Spec => []ShownInv
  BY <1>3, <1>5, NextShownInv, PTL DEF Spec
<1> QED
  BY <1>1, <1>2, <1>3, <1>4, <1>6, PTL DEF Spec, Abstract!SafeSpec

-----------------------------------------------------------------------------
(* The grain that is returned.  A ring entry that holds slices belongs to   *)
(* the last lap, because the head advances one grain at a time and every    *)
(* grain was opened before it became the head; an entry that a reader has   *)
(* found in its window is from then on only overwritten by later grains.    *)

Written(s) == grains[s].validSlices > 0 \/ grains[s].invalid

EntryInv ==
  /\ \A s \in Slots : Written(s) =>
       Slot(grains[s].index) = s /\ grains[s].index + GrainCount > headIndex
  /\ commits = 0 => \A s \in Slots : ~Written(s)

\* The open grain is next to the head, except for the first one that is committed.
OpenInv ==
  \A w \in Writers :
    /\ currentIndex[w] # UndefinedIndex => grains[Slot(currentIndex[w])].index = currentIndex[w]
    /\ (commits > 0 /\ wpc[w] # "store") =>
         currentIndex[w] \in {UndefinedIndex, headIndex, headIndex + 1}
    /\ wpc[w] = "store" =>
         /\ "head" \notin unstored[w] => grainInfo[w].index = headIndex
         /\ \/ grainInfo[w].index \in {headIndex, headIndex + 1}
            \/ \A s \in Slots : Written(s) => s = Slot(grainInfo[w].index)

InWindow(r) ==
  /\ request[r].index <= seenHead[r] /\ request[r].index + GrainCount > seenHead[r]
  /\ seenHead[r] <= headIndex

OwnOrLater(r, i) == i = request[r].index \/ i > seenHead[r]

HoldsOwnOrLater(r) == commits > 0 /\ OwnOrLater(r, grains[Slot(request[r].index)].index)

\* What ReturnedGrainIsRequested says of one reader.
Answered(r) ==
  (/\ rpc[r] = "idle" /\ result[r].status = "OK"
   /\ request[r].call # "waitForGrain" /\ request[r].minValidSlices > 0
   /\ result[r].info.index # request[r].index)
  => result[r].info.index > seenHead[r]

Looks(r) ==
  /\ rpc[r] \in {"readSlices", "readFlags", "copyInfo"} => InWindow(r)
  /\ (rpc[r] = "copyInfo" /\ request[r].minValidSlices > 0) =>
       /\ HoldsOwnOrLater(r)
       /\ "index" \notin uncopied[r] => OwnOrLater(r, result[r].info.index)
  /\ Answered(r)

LookInv == \A r \in Readers : Looks(r)

GrainInv == EntryInv /\ OpenInv /\ LookInv

(* Quotient and remainder of an index in the ring.                          *)
LEMMA SlotOf ==
  ASSUME NEW i \in Nat
  PROVE  /\ i \div GrainCount \in Nat /\ Slot(i) \in Nat /\ Slot(i) < GrainCount
         /\ i = (i \div GrainCount) * GrainCount + Slot(i)
BY FlowAssumption, SMT DEF Slot

(* Multiples of the length of the ring lie at least one length apart.       *)
LEMMA LapsApart ==
  ASSUME NEW p \in Nat, NEW q \in Nat, p + 1 <= q
  PROVE  /\ p * GrainCount \in Nat /\ q * GrainCount \in Nat
         /\ p * GrainCount + GrainCount <= q * GrainCount
BY FlowAssumption, SMT

(* Two grains of one entry are at least a lap apart.                        *)
LEMMA SameEntry ==
  ASSUME NEW i \in Nat, NEW j \in Nat, Slot(i) = Slot(j), i < j + GrainCount, j < i + GrainCount
  PROVE  i = j
<1> DEFINE p == i \div GrainCount
           q == j \div GrainCount
           s == Slot(i)
<1>1. /\ p \in Nat /\ s \in Nat /\ i = p * GrainCount + s
      /\ q \in Nat /\ j = q * GrainCount + s /\ GrainCount \in Nat
  BY FlowAssumption, SlotOf
<1>2. p * GrainCount \in Nat /\ q * GrainCount \in Nat
  BY <1>1
<1> HIDE DEF p, q, s
<1>3. CASE p = q
  BY <1>1, <1>3
<1>4. CASE p + 1 <= q
  BY <1>1, <1>2, <1>4, LapsApart
<1>5. CASE q + 1 <= p
  BY <1>1, <1>2, <1>5, LapsApart
<1> QED BY <1>1, <1>3, <1>4, <1>5

(* The grain one lap later uses the same entry.                             *)
LEMMA NextLap ==
  ASSUME NEW i \in Nat
  PROVE  Slot(i + GrainCount) = Slot(i)
<1> DEFINE j == i + GrainCount
           p == i \div GrainCount
           q == j \div GrainCount
           s == Slot(i)
           t == Slot(j)
<1>1. GrainCount \in Nat /\ j \in Nat
  BY FlowAssumption
<1>2. /\ p \in Nat /\ s \in Nat /\ s < GrainCount /\ i = p * GrainCount + s
      /\ q \in Nat /\ t \in Nat /\ t < GrainCount /\ j = q * GrainCount + t
  BY <1>1, SlotOf
<1>3. p * GrainCount \in Nat /\ q * GrainCount \in Nat /\ (p + 1) * GrainCount = p * GrainCount + GrainCount
  BY <1>1, <1>2
<1> SUFFICES t = s
  OBVIOUS
<1>4. j = (p + 1) * GrainCount + s
  BY <1>1, <1>2, <1>3
<1> HIDE DEF p, q, s, t, j
<1>5. CASE q = p + 1
  BY <1>1, <1>2, <1>3, <1>4, <1>5
<1>6. CASE q + 1 <= p + 1
  <2>1. q * GrainCount + GrainCount <= (p + 1) * GrainCount
    BY <1>2, <1>6, LapsApart
  <2> QED BY <1>1, <1>2, <1>3, <1>4, <2>1
<1>7. CASE (p + 1) + 1 <= q
  <2>1. (p + 1) * GrainCount + GrainCount <= q * GrainCount
    BY <1>2, <1>7, LapsApart
  <2> QED BY <1>1, <1>2, <1>3, <1>4, <2>1
<1> QED BY <1>2, <1>5, <1>6, <1>7

(* What the types say of the values that the proofs below compare.          *)
LEMMA GrainTypes ==
  ASSUME TypeOK
  PROVE  /\ headIndex \in Nat /\ commits \in Nat /\ GrainCount \in Nat /\ GrainCount > 0
         /\ \A s \in Slots : grains[s].index \in Nat
         /\ \A w \in Writers : currentIndex[w] \in Int /\ grainInfo[w].index \in Nat
         /\ \A w \in Writers : currentIndex[w] # UndefinedIndex => currentIndex[w] \in Nat
         /\ \A r \in Readers : seenHead[r] \in Nat /\ request[r].index \in Nat
BY FlowAssumption DEF TypeOK, Indices, GrainInfo, Requests, UndefinedIndex

(* Opening a grain changes the index of its entry.                          *)
LEMMA OpenEntry ==
  ASSUME TypeOK, NEW w \in Writers, NEW i \in Indices, openGrain(w, i)
  PROVE  /\ Slot(i) \in Slots /\ grains'[Slot(i)].index = i /\ i \in Nat
         /\ \A s \in Slots \ {Slot(i)} : grains'[s] = grains[s]
         /\ \A s \in Slots : Written(s)' <=> Written(s)
         /\ currentIndex'[w] = i
         /\ UNCHANGED <<headIndex, wpc, grainInfo, unstored, commits>>
<1>1. i \in Nat /\ Slot(i) \in Slots /\ grains \in [Slots -> GrainInfo]
  BY FlowAssumption, SlotInRing DEF Indices, TypeOK
<1>2. grains' = [grains EXCEPT ![Slot(i)] = [grains[Slot(i)] EXCEPT !.index = i]]
  BY <1>1 DEF openGrain
<1>3. /\ grains'[Slot(i)].index = i
      /\ grains'[Slot(i)].validSlices = grains[Slot(i)].validSlices
      /\ grains'[Slot(i)].invalid = grains[Slot(i)].invalid
      /\ \A s \in Slots \ {Slot(i)} : grains'[s] = grains[s]
  BY <1>1, <1>2 DEF GrainInfo
<1>4. \A s \in Slots : Written(s)' <=> Written(s)
  BY <1>3 DEF Written
<1> QED BY <1>1, <1>3, <1>4 DEF openGrain, TypeOK

(* Storing a word of a header changes nothing of the index of an open entry *)
(* that the writer has already given its own index.                         *)
LEMMA StoredEntry ==
  ASSUME TypeOK, NEW w \in Writers, NEW f \in Words, StoreInfo(w, f)
  PROVE  /\ Slot(grainInfo[w].index) \in Slots
         /\ \A s \in Slots \ {Slot(grainInfo[w].index)} : grains'[s] = grains[s]
         /\ grains'[Slot(grainInfo[w].index)].index
              \in {grainInfo[w].index, grains[Slot(grainInfo[w].index)].index}
<1> DEFINE s == Slot(grainInfo[w].index)
<1>1. s \in Slots /\ grains \in [Slots -> GrainInfo]
  BY FlowAssumption, SlotInRing DEF TypeOK, GrainInfo, Indices
<1>2. grains' = [grains EXCEPT ![s] = Overwritten(grains[s], f, grainInfo[w])]
  BY <1>1 DEF StoreInfo
<1>3. /\ grains'[s] = Overwritten(grains[s], f, grainInfo[w])
      /\ \A q \in Slots \ {s} : grains'[q] = grains[q]
  BY <1>1, <1>2
<1>4. grains'[s].index \in {grainInfo[w].index, grains[s].index}
  BY <1>3 DEF Overwritten
<1> QED BY <1>1, <1>3, <1>4

(* An entry that a writer gives to the grain `i' next to the head.          *)
LEMMA EntryTaken ==
  ASSUME TypeOK, NEW r \in Readers, InWindow(r), NEW i \in Nat, i >= headIndex,
         Slot(i) = Slot(request[r].index)
  PROVE  i = request[r].index \/ i > seenHead[r]
<1>1. /\ headIndex \in Nat /\ GrainCount \in Nat /\ GrainCount > 0
      /\ seenHead[r] \in Nat /\ request[r].index \in Nat
  BY GrainTypes
<1>2. SUFFICES ASSUME i <= seenHead[r] PROVE i = request[r].index
  BY <1>1
<1>3. i < request[r].index + GrainCount /\ request[r].index < i + GrainCount
  BY <1>1, <1>2 DEF InWindow
<1> QED BY <1>1, <1>3, SameEntry

(* A written entry of the window is the grain that was asked for, or a later one. *)
LEMMA EntryFound ==
  ASSUME TypeOK, EntryInv, NEW r \in Readers, InWindow(r), Written(Slot(request[r].index))
  PROVE  HoldsOwnOrLater(r)
<1> DEFINE s == Slot(request[r].index)
           j == grains[s].index
<1>1. /\ headIndex \in Nat /\ GrainCount \in Nat /\ GrainCount > 0 /\ commits \in Nat
      /\ seenHead[r] \in Nat /\ request[r].index \in Nat
  BY GrainTypes
<1>2. s \in Slots
  BY <1>1, SlotInRing
<1>3. j \in Nat /\ Slot(j) = s /\ j + GrainCount > headIndex /\ commits > 0
  BY <1>1, <1>2, GrainTypes DEF EntryInv
<1>4. j = request[r].index \/ j > seenHead[r]
  <2>1. SUFFICES ASSUME j <= seenHead[r] PROVE j = request[r].index
    BY <1>1, <1>3
  <2>2. Slot(j) = Slot(request[r].index)
    BY <1>3
  <2>3. j < request[r].index + GrainCount /\ request[r].index < j + GrainCount
    BY <1>1, <1>3, <2>1 DEF InWindow
  <2> HIDE DEF j
  <2> QED BY <1>1, <1>3, <2>2, <2>3, SameEntry
<1> QED BY <1>3, <1>4 DEF HoldsOwnOrLater, OwnOrLater

(* The ring entries and the open grain after a step of the writer.          *)
LEMMA WriterEntryInv ==
  ASSUME TypeOK, OrderInv, EntryInv, OpenInv, SingleWriter, InOrder,
         NEW w \in Writers, WriterNext(w)
  PROVE  EntryInv' /\ OpenInv'
<1> USE DEF EntryInv, OpenInv
<1>0. /\ headIndex \in Nat /\ commits \in Nat /\ GrainCount \in Nat /\ GrainCount > 0
      /\ \A s \in Slots : grains[s].index \in Nat
      /\ currentIndex[w] \in Int /\ grainInfo[w].index \in Nat
      /\ currentIndex[w] # UndefinedIndex => currentIndex[w] \in Nat /\ currentIndex[w] >= headIndex
      /\ Writers = {w}
  BY GrainTypes DEF SingleWriter, OrderInv, OpenIsNotBehind
<1>1. ASSUME NEW i \in Indices, openGrain(w, i) PROVE EntryInv' /\ OpenInv'
  <2>1. /\ Slot(i) \in Slots /\ grains'[Slot(i)].index = i /\ i \in Nat
        /\ \A s \in Slots \ {Slot(i)} : grains'[s] = grains[s]
        /\ \A s \in Slots : Written(s)' <=> Written(s)
        /\ currentIndex'[w] = i
        /\ UNCHANGED <<headIndex, wpc, grainInfo, unstored, commits>>
    BY <1>1, OpenEntry
  <2>2. wpc[w] = "idle" /\ (commits = 0 \/ i \in {headIndex, headIndex + 1})
    BY <1>1 DEF openGrain, FollowsProtocol
  <2>3. EntryInv'
    BY <1>0, <2>1, <2>2
  <2>4. OpenInv'
    BY <1>0, <2>1, <2>2
  <2> QED BY <2>3, <2>4
<1>2. CASE cancel(w)
  BY <1>0, <1>2 DEF cancel, TypeOK, memory, Written
<1>3. ASSUME NEW info \in GrainInfo, commit(w, info) PROVE EntryInv' /\ OpenInv'
  <2>1. /\ UNCHANGED <<headIndex, grains, currentIndex>> /\ commits' = commits + 1
        /\ wpc[w] = "idle" /\ wpc'[w] = "store" /\ unstored'[w] = {"head"} \cup Words
        /\ grainInfo'[w] = info /\ info.index = currentIndex[w] /\ info.index \in Nat
    BY <1>0, <1>3, FlowAssumption DEF commit, memory, TypeOK, GrainInfo, Indices
  <2>2. currentIndex[w] # UndefinedIndex
    BY <2>1 DEF UndefinedIndex
  <2>3. EntryInv'
    BY <1>0, <2>1 DEF Written
  <2>4. info.index \in {headIndex, headIndex + 1} \/ \A s \in Slots : ~Written(s)
    BY <1>0, <2>1, <2>2
  <2>5. OpenInv'
    BY <1>0, <2>1, <2>2, <2>4 DEF Written
  <2> QED BY <2>3, <2>5
<1>4. CASE StoreHead(w)
  <2> DEFINE k == grainInfo[w].index
  <2>1. /\ headIndex' = k /\ UNCHANGED <<grains, currentIndex, grainInfo, commits>>
        /\ wpc[w] = "store" /\ wpc'[w] \in {"store", "load"} /\ unstored'[w] = unstored[w] \ {"head"}
    BY <1>4 DEF StoreHead, TypeOK, AfterStore
  <2>2. currentIndex[w] = k /\ currentIndex[w] # UndefinedIndex /\ k \in Nat
    BY <1>0, <2>1 DEF OrderInv, CommitIsOfOpenGrain, UndefinedIndex
  <2>3. grains[Slot(k)].index = k /\ Slot(k) \in Slots /\ k >= headIndex
    BY <1>0, <2>2, SlotInRing
  <2>4. ASSUME NEW s \in Slots, Written(s) PROVE Slot(grains[s].index) = s /\ grains[s].index + GrainCount > k
    <3>1. CASE s = Slot(k)
      BY <1>0, <2>2, <2>3, <3>1
    <3>2. CASE s # Slot(k)
      <4>1. k \in {headIndex, headIndex + 1}
        BY <2>1, <2>4, <3>2
      <4>2. /\ grains[s].index \in Nat /\ Slot(grains[s].index) = s
            /\ grains[s].index + GrainCount > headIndex
        BY <1>0, <2>4
      <4>3. grains[s].index + GrainCount # k
        BY <3>2, <4>2, NextLap
      <4> QED BY <1>0, <4>1, <4>2, <4>3
    <3> QED BY <3>1, <3>2
  <2>5. EntryInv'
    BY <2>1, <2>4 DEF Written
  <2>6. OpenInv'
    BY <1>0, <2>1, <2>2
  <2> QED BY <2>5, <2>6
<1>5. ASSUME NEW f \in Words, StoreInfo(w, f) PROVE EntryInv' /\ OpenInv'
  <2> DEFINE k == grainInfo[w].index
  <2>1. /\ UNCHANGED <<headIndex, currentIndex, grainInfo, commits>>
        /\ wpc[w] = "store" /\ wpc'[w] \in {"store", "load"} /\ unstored'[w] = unstored[w] \ {f}
        /\ wpc'[w] = "load" => unstored[w] \ {f} = {}
        /\ f # "head"
    BY <1>5 DEF StoreInfo, TypeOK, AfterStore, Words
  <2>2. currentIndex[w] = k /\ currentIndex[w] # UndefinedIndex /\ k \in Nat
    BY <1>0, <2>1 DEF OrderInv, CommitIsOfOpenGrain, UndefinedIndex
  <2>3. Slot(k) \in Slots /\ k >= headIndex /\ commits > 0
    BY <1>0, <2>1, <2>2, SlotInRing DEF OrderInv, NothingBeforeFirstCommit
  <2>4. grains'[Slot(k)].index = k /\ \A s \in Slots \ {Slot(k)} : grains'[s] = grains[s]
    <3>1. grains[Slot(k)].index = k
      BY <2>2
    <3> QED BY <1>5, <3>1, StoredEntry
  <2>5. EntryInv'
    <3>1. \A s \in Slots \ {Slot(k)} : Written(s)' <=> Written(s)
      BY <2>4 DEF Written
    <3> QED BY <1>0, <2>1, <2>2, <2>3, <2>4, <3>1
  <2>6. OpenInv'
    <3>1. "head" \notin unstored'[w] => k = headIndex
      BY <2>1
    <3>2. wpc'[w] = "load" => k = headIndex
      BY <2>1
    <3>3. \/ k \in {headIndex, headIndex + 1}
          \/ \A s \in Slots : Written(s)' => s = Slot(k)
      BY <2>1, <2>4 DEF Written
    <3> QED BY <1>0, <2>1, <2>2, <2>4, <3>1, <3>2, <3>3
  <2> QED BY <2>5, <2>6
<1>6. CASE LoadSyncCounter(w)
  <2>1. /\ UNCHANGED <<headIndex, grains, grainInfo, unstored, commits>>
        /\ currentIndex'[w] \in {UndefinedIndex, currentIndex[w]}
        /\ wpc[w] = "load" /\ wpc'[w] = "increment"
    BY <1>6 DEF LoadSyncCounter, TypeOK, memory
  <2> QED BY <1>0, <2>1 DEF Written
<1>7. CASE StoreSyncCounter(w)
  <2>1. /\ UNCHANGED <<headIndex, grains, currentIndex, grainInfo, unstored, commits>>
        /\ wpc[w] = "increment" /\ wpc'[w] = "wake"
    BY <1>7 DEF StoreSyncCounter, TypeOK
  <2> QED BY <1>0, <2>1 DEF Written
<1>8. CASE wakeAll(w)
  <2>1. /\ UNCHANGED <<headIndex, grains, currentIndex, unstored, commits>>
        /\ wpc[w] = "wake" /\ wpc'[w] = "idle"
    BY <1>8 DEF wakeAll, TypeOK, memory
  <2> QED BY <1>0, <2>1 DEF Written
<1> QED
  BY <1>1, <1>2, <1>3, <1>4, <1>5, <1>6, <1>7, <1>8 DEF WriterNext, CommitStep

(* What a reader has found in the ring is only replaced by later grains.    *)
LEMMA WriterLookInv ==
  ASSUME TypeOK, OrderInv, GrainInv, SingleWriter, InOrder, NEW w \in Writers, WriterNext(w)
  PROVE  LookInv'
<1>1. /\ headIndex \in Nat /\ headIndex' \in Nat /\ commits \in Nat
      /\ headIndex' >= headIndex
      /\ \A q \in Readers : seenHead[q] \in Nat /\ request[q].index \in Nat
  <2>1. TypeOK'
    BY WriterTypeOK
  <2> QED BY <2>1, GrainTypes, WriterOrderInv, FlowAssumption DEF TypeOK, Indices
<1>2. /\ UNCHANGED <<request, seenHead, uncopied, result>> /\ commits' \in {commits, commits + 1}
      /\ \A q \in Readers :
           rpc'[q] \in {"idle", "readSlices", "readFlags", "copyInfo"} => rpc'[q] = rpc[q]
  BY DEF WriterNext, CommitStep, openGrain, cancel, commit, StoreHead, StoreInfo, LoadSyncCounter,
         StoreSyncCounter, wakeAll, memory, readerVars
<1>3. ASSUME NEW r \in Readers, rpc[r] = "copyInfo", request[r].minValidSlices > 0
      PROVE  HoldsOwnOrLater(r)'
  <2> DEFINE i == request[r].index
  <2>1. InWindow(r) /\ HoldsOwnOrLater(r) /\ i \in Nat /\ Slot(i) \in Slots
    BY <1>1, <1>3, SlotInRing DEF GrainInv, LookInv, Looks
  <2>2. CASE grains'[Slot(i)].index = grains[Slot(i)].index
    BY <1>1, <1>2, <2>1, <2>2 DEF HoldsOwnOrLater, OwnOrLater
  <2>3. ASSUME NEW k \in Indices, openGrain(w, k), Slot(k) = Slot(i) PROVE HoldsOwnOrLater(r)'
    <3>1. k \in Nat /\ grains'[Slot(i)].index = k
      BY <2>3, OpenEntry
    <3>2. k \in {headIndex, headIndex + 1}
      BY <1>1, <2>1, <2>3 DEF openGrain, FollowsProtocol, HoldsOwnOrLater
    <3>3. k >= headIndex
      BY <1>1, <3>2
    <3>4. k = i \/ k > seenHead[r]
      BY <2>1, <2>3, <3>1, <3>3, EntryTaken
    <3> QED BY <1>1, <1>2, <2>1, <3>1, <3>4 DEF HoldsOwnOrLater, OwnOrLater
  <2>4. ASSUME NEW f \in Words, StoreInfo(w, f) PROVE HoldsOwnOrLater(r)'
    <3> DEFINE k == grainInfo[w].index
    <3>1. k \in Nat /\ currentIndex[w] = k /\ currentIndex[w] # UndefinedIndex
      BY <2>4, GrainTypes DEF StoreInfo, OrderInv, CommitIsOfOpenGrain, UndefinedIndex
    <3>2. grains[Slot(k)].index = k
      BY <3>1 DEF GrainInv, OpenInv
    <3>3. \A s \in Slots : grains'[s].index = grains[s].index
      BY <2>4, <3>2, StoredEntry
    <3> QED BY <2>1, <2>2, <3>3
  <2>5. ASSUME NEW k \in Indices, openGrain(w, k), Slot(k) # Slot(i)
        PROVE  grains'[Slot(i)].index = grains[Slot(i)].index
    BY <2>1, <2>5, OpenEntry
  <2>6. (\A k \in Indices : ~openGrain(w, k)) /\ (\A f \in Words : ~StoreInfo(w, f)) => grains' = grains
    BY DEF WriterNext, CommitStep, cancel, commit, StoreHead, LoadSyncCounter,
           StoreSyncCounter, wakeAll, memory
  <2> QED BY <2>2, <2>3, <2>4, <2>5, <2>6
<1>4. ASSUME NEW r \in Readers PROVE Looks(r)'
  <2>1. Looks(r)
    BY DEF GrainInv, LookInv
  <2>2. (rpc[r] \in {"readSlices", "readFlags", "copyInfo"} => InWindow(r))'
    BY <1>1, <1>2, <2>1 DEF Looks, InWindow
  <2>3. Answered(r)'
    BY <1>2, <2>1 DEF Looks, Answered
  <2>4. OwnOrLater(r, result[r].info.index) => OwnOrLater(r, result[r].info.index)'
    BY <1>2 DEF OwnOrLater
  <2> QED BY <1>2, <1>3, <2>1, <2>2, <2>3, <2>4 DEF Looks
<1> QED BY <1>4 DEF LookInv

(* A reader that finds enough slices in its window has found its grain.     *)
LEMMA ReaderGrainInv ==
  ASSUME TypeOK, GrainInv, NEW r \in Readers, ReaderNext(r)
  PROVE  GrainInv'
<1>0. /\ headIndex \in Nat /\ GrainCount \in Nat /\ GrainCount > 0
      /\ seenHead[r] \in Nat /\ request[r].index \in Nat
      /\ rpc \in [Readers -> ReaderPCs] /\ seenHead \in [Readers -> Indices]
      /\ request \in [Readers -> Requests]
      /\ uncopied \in [Readers -> SUBSET Words]
      /\ result \in [Readers -> [status : Statuses, info : GrainInfo]]
  BY GrainTypes DEF TypeOK
<1> DEFINE Rest ==
      /\ UNCHANGED <<headIndex, grains, writerVars, commits>>
      /\ \A q \in Readers \ {r} : /\ rpc'[q] = rpc[q] /\ request'[q] = request[q]
                                  /\ seenHead'[q] = seenHead[q] /\ result'[q] = result[q]
                                  /\ uncopied'[q] = uncopied[q]
<1> SUFFICES Rest /\ Looks(r)'
  <2>1. SUFFICES ASSUME Rest, Looks(r)' PROVE GrainInv'
    OBVIOUS
  <2>2. ASSUME NEW q \in Readers \ {r} PROVE Looks(q)'
    <3>1. Looks(q)
      BY DEF GrainInv, LookInv
    <3>2. /\ rpc'[q] = rpc[q] /\ request'[q] = request[q]
          /\ seenHead'[q] = seenHead[q] /\ result'[q] = result[q]
          /\ uncopied'[q] = uncopied[q]
          /\ UNCHANGED <<headIndex, grains, commits>>
      BY <2>1
    <3> QED BY <3>1, <3>2 DEF Looks, InWindow, HoldsOwnOrLater, OwnOrLater, Answered
  <2>3. EntryInv' /\ OpenInv'
    BY <2>1 DEF GrainInv, EntryInv, OpenInv, Written, writerVars
  <2> QED BY <2>1, <2>2, <2>3 DEF GrainInv, LookInv
<1>1. ASSUME NEW req \in Requests, Begin(r, req) PROVE Rest /\ Looks(r)'
  BY <1>0, <1>1 DEF Begin, Goto, memory, writerVars, Looks, Answered
<1>2. CASE LoadCounter(r)
  BY <1>0, <1>2 DEF LoadCounter, Goto, memory, Looks, Answered
<1>3. CASE ReadHead(r)
  <2>1. Rest
    BY <1>0, <1>3 DEF ReadHead, TooEarly, Finish, Goto, memory
  <2>2. /\ rpc'[r] \notin {"readFlags", "copyInfo"}
        /\ rpc'[r] = "idle" => result'[r].status = "TOO_LATE"
        /\ rpc'[r] = "readSlices" => request'[r] = request[r] /\ seenHead'[r] = headIndex
             /\ request[r].index <= headIndex /\ request[r].index >= MinIndex(headIndex)
    BY <1>0, <1>3 DEF ReadHead, TooEarly, Finish, Goto, memory
  <2>3. (rpc[r] \in {"readSlices", "readFlags", "copyInfo"} => InWindow(r))'
    BY <1>0, <2>1, <2>2 DEF InWindow, MinIndex
  <2>4. Answered(r)'
    BY <2>2 DEF Answered
  <2> QED BY <2>1, <2>2, <2>3, <2>4 DEF Looks
<1>4. ASSUME rpc[r] \in {"readSlices", "readFlags"}, Granted(r),
             Written(Slot(request[r].index)) \/ ~(request[r].minValidSlices > 0),
             UNCHANGED <<memory, writerVars, request, seenHead, commits>>
      PROVE  Rest /\ Looks(r)'
  <2>1. Rest /\ UNCHANGED <<request, seenHead>>
    BY <1>0, <1>4 DEF Granted, Finish, Goto, memory
  <2>2. InWindow(r)
    BY <1>4 DEF GrainInv, LookInv, Looks
  <2>3. /\ rpc'[r] \in {"idle", "copyInfo"}
        /\ rpc'[r] = "idle" => request[r].call = "waitForGrain"
        /\ rpc'[r] = "copyInfo" => "index" \in uncopied'[r]
    BY <1>0, <1>4 DEF Granted, Finish, Goto, Words
  <2>4. request[r].minValidSlices > 0 => HoldsOwnOrLater(r)
    BY <1>4, <2>2, EntryFound DEF GrainInv
  <2>5. InWindow(r)' /\ (HoldsOwnOrLater(r) => HoldsOwnOrLater(r)')
    BY <2>1, <2>2 DEF InWindow, HoldsOwnOrLater, OwnOrLater
  <2>6. Answered(r)'
    BY <2>1, <2>3 DEF Answered
  <2> QED BY <2>1, <2>3, <2>4, <2>5, <2>6 DEF Looks
<1>10. CASE ReadSlices(r)
  <2>0. UNCHANGED <<memory, writerVars, request, seenHead, commits>> /\ rpc[r] = "readSlices"
    BY <1>10 DEF ReadSlices
  <2>1. CASE EnoughSlices(EntryOf(r).validSlices, request[r].minValidSlices)
    <3>1. request[r].minValidSlices \in Nat /\ TotalSlices \in Nat /\ TotalSlices > 0
      <4>1. request[r].minValidSlices \in MinSlices
        BY <1>0 DEF Requests
      <4>2. MinSlices \subseteq 0 .. TotalSlices /\ TotalSlices \in Nat /\ TotalSlices > 0
        BY FlowAssumption
      <4>3. request[r].minValidSlices \in 0 .. TotalSlices
        BY <4>1, <4>2
      <4> QED BY <4>2, <4>3
    <3>2. EntryOf(r).validSlices \in Nat
      BY EntryTyped, FlowAssumption DEF GrainInfo, Slices
    <3>3. Written(Slot(request[r].index)) \/ ~(request[r].minValidSlices > 0)
      BY <2>1, <3>1, <3>2 DEF EnoughSlices, EntryOf, Written
    <3>4. Granted(r)
      BY <1>10, <2>1 DEF ReadSlices
    <3> QED BY <1>4, <2>0, <3>3, <3>4
  <2>2. CASE ~EnoughSlices(EntryOf(r).validSlices, request[r].minValidSlices)
    <3>1. rpc'[r] = "readFlags" /\ Rest /\ UNCHANGED <<request, seenHead>>
      BY <1>0, <1>10, <2>2 DEF ReadSlices, Goto, memory
    <3>2. InWindow(r)
      BY <2>0 DEF GrainInv, LookInv, Looks
    <3> QED BY <3>1, <3>2 DEF Looks, Answered, InWindow
  <2> QED BY <2>1, <2>2
<1>11. CASE ReadFlags(r)
  <2>0. UNCHANGED <<memory, writerVars, request, seenHead, commits>> /\ rpc[r] = "readFlags"
    BY <1>11 DEF ReadFlags
  <2>1. CASE EntryOf(r).invalid
    <3>1. Granted(r) /\ Written(Slot(request[r].index))
      BY <1>11, <2>1 DEF ReadFlags, EntryOf, Written
    <3> QED BY <1>4, <2>0, <3>1
  <2>2. CASE ~EntryOf(r).invalid
    <3>1. rpc'[r] \in {"validate", "checkCounter"} /\ Rest
      BY <1>0, <1>11, <2>2 DEF ReadFlags, TooEarly, Goto, memory
    <3> QED BY <3>1 DEF Looks, Answered
  <2> QED BY <2>1, <2>2
<1>5. ASSUME NEW f \in Words, CopyInfo(r, f) PROVE Rest /\ Looks(r)'
  <2> DEFINE info == Overwritten(result[r].info, f, EntryOf(r))
  <2>1. Rest /\ UNCHANGED <<request, seenHead>>
    BY <1>0, <1>5 DEF CopyInfo, Finish, Goto, memory
  <2>2. /\ rpc[r] = "copyInfo" /\ result'[r].info = info /\ uncopied'[r] = uncopied[r] \ {f}
        /\ \/ rpc'[r] = "idle" /\ uncopied[r] = {f}
           \/ rpc'[r] = "copyInfo" /\ uncopied[r] # {f}
    BY <1>0, <1>5 DEF CopyInfo, Finish, Goto
  <2>3. /\ InWindow(r)
        /\ request[r].minValidSlices > 0 => HoldsOwnOrLater(r)
        /\ (request[r].minValidSlices > 0 /\ "index" \notin uncopied[r]) =>
             OwnOrLater(r, result[r].info.index)
    BY <2>2 DEF GrainInv, LookInv, Looks
  <2>4. info.index = IF f = "index" THEN EntryOf(r).index ELSE result[r].info.index
    BY DEF Overwritten
  <2>5. (request[r].minValidSlices > 0 /\ "index" \notin uncopied'[r]) => OwnOrLater(r, info.index)
    BY <2>2, <2>3, <2>4 DEF HoldsOwnOrLater, EntryOf
  <2> HIDE DEF info
  <2>6. InWindow(r)' /\ (HoldsOwnOrLater(r) => HoldsOwnOrLater(r)')
    BY <2>1, <2>3 DEF InWindow, HoldsOwnOrLater, OwnOrLater
  <2>7. OwnOrLater(r, info.index) => OwnOrLater(r, result[r].info.index)'
    BY <2>1, <2>2 DEF OwnOrLater
  <2>8. Answered(r)'
    <3>1. rpc'[r] = "idle" => "index" \notin uncopied'[r]
      BY <2>2
    <3> QED BY <2>1, <2>2, <2>5, <3>1 DEF Answered, OwnOrLater
  <2> QED BY <2>1, <2>2, <2>3, <2>5, <2>6, <2>7, <2>8 DEF Looks
<1>6. CASE CheckCounter(r)
  BY <1>0, <1>6 DEF CheckCounter, Goto, memory, Looks, Answered
<1>7. CASE FutexWait(r)
  BY <1>0, <1>7 DEF FutexWait, Goto, memory, Looks, Answered
<1>8. CASE Validate(r)
  <2>1. Rest /\ rpc'[r] = "idle" /\ result'[r].status \in {"TOO_EARLY", "FLOW_INVALID"}
    BY <1>0, <1>8 DEF Validate, Finish, Goto, memory
  <2> QED BY <2>1 DEF Looks, Answered
<1>9. CASE DeadlinePassed(r) \/ Interrupted(r) \/ TimedOut(r)
  BY <1>0, <1>9 DEF DeadlinePassed, Interrupted, TimedOut, Goto, memory, Looks, Answered
<1> QED
  BY <1>1, <1>2, <1>3, <1>5, <1>6, <1>7, <1>8, <1>9, <1>10, <1>11 DEF ReaderNext, ReaderStep

(* The grain that getGrain returns is the one that was asked for, or one    *)
(* that the writer has put in its place since: for rings of every length    *)
(* the window arithmetic of getGrainImpl keeps the grains of earlier laps   *)
(* away, though the header's index is never looked at and the header may be  *)
(* overwritten while it is copied word by word.                             *)
THEOREM ReturnedGrainsAreRequested ==
  SingleWriter /\ InOrder => (Spec => []ReturnedGrainIsRequested)
<1> SUFFICES ASSUME SingleWriter, InOrder PROVE Spec => []ReturnedGrainIsRequested
  OBVIOUS
<1> DEFINE Inv == TypeOK /\ OrderInv /\ GrainInv
<1>1. Init => Inv
  <2>1. Init => GrainInv
    BY FlowAssumption DEF Init, GrainInv, EntryInv, OpenInv, LookInv, Looks, Answered, Written, NoGrain
  <2> QED BY <2>1, InitTypeOK, InitOrderInv
<1>2. Inv /\ [Next]_vars => Inv'
  <2> SUFFICES ASSUME TypeOK, OrderInv, GrainInv, [Next]_vars PROVE GrainInv'
    BY NextTypeOK, NextOrderInv
  <2>1. ASSUME NEW w \in Writers, WriterNext(w) PROVE GrainInv'
    BY <2>1, WriterEntryInv, WriterLookInv DEF GrainInv
  <2>2. ASSUME NEW r \in Readers, ReaderNext(r) PROVE GrainInv'
    BY <2>2, ReaderGrainInv
  <2>3. CASE FlowReplaced \/ UNCHANGED vars
    BY <2>3 DEF FlowReplaced, vars, memory, writerVars, readerVars, GrainInv, EntryInv,
       OpenInv, LookInv, Looks, InWindow, HoldsOwnOrLater, OwnOrLater, Answered, Written
  <2> QED BY <2>1, <2>2, <2>3 DEF Next
<1>3. Inv => ReturnedGrainIsRequested
  BY DEF GrainInv, LookInv, Looks, Answered, ReturnedGrainIsRequested
<1> HIDE DEF Inv
<1> QED BY <1>1, <1>2, <1>3, PTL DEF Spec
=============================================================================
