---------------------------- MODULE FlowSyncGroup ----------------------------
(***************************************************************************)
(* FlowSynchronizationGroup: a client waits until every flow of a group    *)
(* has the data of one point in time.  The group is a std::forward_list of *)
(* readers, which waitForDataAt walks with an iterator while it reorders   *)
(* the list, so that the flow with the largest delay is waited for first.  *)
(*                                                                         *)
(* The list is the sequence of its readers; an iterator is the reader it   *)
(* points to, or End.  A node keeps its identity when it is moved, as the  *)
(* nodes of a forward_list do.  The blocking wait for one flow is what     *)
(* DiscreteFlow and ContinuousFlow model in detail: it succeeds once the   *)
(* data is there, or fails at the deadline.                                *)
(***************************************************************************)
EXTENDS Integers, FiniteSets, Sequences, SequencesExt

CONSTANTS
  Readers,      \* flow readers, each of a flow of its own
  Discrete,     \* the ones that read grains, the others read samples
  Period,       \* reader -> duration of a grain or sample of its flow
  TotalSlices,  \* slices of a complete grain
  MaxTime,      \* bound: the largest point in time
  End           \* the end iterator of the list

ASSUME GroupAssumption ==
  /\ Discrete \subseteq Readers
  /\ Period \in [Readers -> Nat \ {0}]
  /\ TotalSlices \in Nat \ {0}
  /\ MaxTime \in Nat
  /\ End \notin Readers

VARIABLES
  readers,       \* _readers
  minValidSlices, maxObservedSourceDelay,   \* reader -> fields of its entry
  members,       \* history: readers added and not removed
  head, slices,  \* reader -> headIndex of its flow, valid slices of that grain
  now,           \* the TAI clock
  pc,            \* where the client is in waitForDataAt
  originTime,    \* argument of waitForDataAt
  it, current,   \* the iterators of its loop
  status         \* what waitForDataAt returned

groupVars == <<readers, minValidSlices, maxObservedSourceDelay, members>>
flowVars == <<head, slices>>
callVars == <<pc, originTime, it, current, status>>
vars == <<groupVars, flowVars, now, callVars>>

Times == 0 .. MaxTime

Init ==
  /\ readers = <<>>
  /\ minValidSlices = [r \in Readers |-> 0]
  /\ maxObservedSourceDelay = [r \in Readers |-> 0]
  /\ members = {}
  /\ head = [r \in Readers |-> 0]
  /\ slices = [r \in Readers |-> 0]
  /\ now = 0
  /\ pc = "idle" /\ originTime = 0 /\ it = End /\ current = End /\ status = "NONE"

-----------------------------------------------------------------------------
(* Time and flows *)

\* The index that belongs to a time stamp: rounded to the nearest one.
timestampToIndex(r, t) == (2 * t + Period[r]) \div (2 * Period[r])

indexToTimestamp(r, i) == i * Period[r]

Tick ==
  /\ now < MaxTime
  /\ now' = now + 1
  /\ UNCHANGED <<groupVars, flowVars, callVars>>

(* The writer of a flow commits its next grain, complete or not, or its     *)
(* next sample; its clock may run one tick ahead of the client's.           *)
Produce(r, n) ==
  /\ head[r] < MaxTime
  /\ indexToTimestamp(r, head[r] + 1) <= now + 1
  /\ r \notin Discrete => n = TotalSlices
  /\ head' = [head EXCEPT ![r] = @ + 1]
  /\ slices' = [slices EXCEPT ![r] = n]
  /\ UNCHANGED <<groupVars, now, callVars>>

\* The writer of a partial grain commits more of its slices.
ProduceSlices(r, n) ==
  /\ r \in Discrete
  /\ n > slices[r]
  /\ slices' = [slices EXCEPT ![r] = n]
  /\ UNCHANGED <<groupVars, head, now, callVars>>

\* The data of index i: the flow is past it, or at it with enough slices.
Available(r, i) ==
  \/ head[r] > i
  \/ head[r] = i /\ (r \in Discrete => slices[r] >= minValidSlices[r])

-----------------------------------------------------------------------------
(* The list *)

\* Faulty variant: the list is not searched for the reader.
AddAgain(r, n) ==
  /\ pc = "idle"
  /\ minValidSlices' = [minValidSlices EXCEPT ![r] = IF r \in Discrete THEN n ELSE 0]
  /\ readers' = Append(readers, r)
  /\ members' = members \cup {r}
  /\ status' = "NONE"
  /\ UNCHANGED <<maxObservedSourceDelay, flowVars, now, pc, originTime, it, current>>

(* A reader that is already in the list only has its slices updated (there  *)
(* is nothing to update for a continuous one); a new one goes to the end.   *)
addReader(r, n) ==
  /\ pc = "idle"
  /\ minValidSlices' = [minValidSlices EXCEPT ![r] = IF r \in Discrete THEN n ELSE 0]
  /\ IF Contains(readers, r)
     THEN UNCHANGED <<readers, maxObservedSourceDelay>>
     ELSE /\ readers' = Append(readers, r)
          /\ maxObservedSourceDelay' = [maxObservedSourceDelay EXCEPT ![r] = 0]
  /\ members' = members \cup {r}
  /\ status' = "NONE"
  /\ UNCHANGED <<flowVars, now, pc, originTime, it, current>>

removeReader(r) ==
  /\ pc = "idle"
  /\ readers' = RemoveFirst(readers, r)
  /\ members' = members \ {r}
  /\ status' = "NONE"
  /\ UNCHANGED <<minValidSlices, maxObservedSourceDelay, flowVars, now,
                 pc, originTime, it, current>>

\* ++iterator
NextOf(list, r) ==
  LET rest == SelectInSeq(list, LAMBDA e : e = r) + 1
  IN  IF rest > Len(list) THEN End ELSE list[rest]

(* _readers.splice_after(_readers.before_begin(), _readers, r) moves the    *)
(* node AFTER r to the front.  There is none after the last node, which the *)
(* standard leaves undefined: libstdc++ then links the head of the list to  *)
(* nothing and the group is empty.                                          *)
SpliceToFront(list, r) ==
  IF NextOf(list, r) = End THEN <<>>
  ELSE <<NextOf(list, r)>> \o RemoveFirst(list, NextOf(list, r))

-----------------------------------------------------------------------------
(* waitForDataAt *)

Return(s) ==
  /\ pc' = "idle" /\ status' = s
  /\ it' = End /\ current' = End

waitForDataAt(t) ==
  /\ pc = "idle"
  /\ pc' = "loop" /\ originTime' = t /\ status' = "NONE"
  /\ it' = IF readers = <<>> THEN End ELSE Head(readers)
  /\ current' = End
  /\ UNCHANGED <<groupVars, flowVars, now>>

LoopEnds ==
  /\ pc = "loop" /\ it = End
  /\ Return("OK")
  /\ UNCHANGED <<groupVars, flowVars, now, originTime>>

\* Faulty variant: the iterator stays where it is when there is nothing to wait for.
VisitInPlace ==
  LET missing == timestampToIndex(it, originTime) > head[it]
  IN /\ pc = "loop" /\ it # End
     /\ current' = it
     /\ it' = IF missing THEN NextOf(readers, it) ELSE it
     /\ pc' = IF missing THEN "blocked" ELSE "loop"
     /\ UNCHANGED <<groupVars, flowVars, now, originTime, status>>

\* One flow: wait for it only if its head is behind the expected index.
Visit ==
  /\ pc = "loop" /\ it # End
  /\ current' = it
  /\ it' = NextOf(readers, it)
  /\ pc' = IF timestampToIndex(it, originTime) > head[it] THEN "blocked" ELSE "loop"
  /\ UNCHANGED <<groupVars, flowVars, now, originTime, status>>

\* Faulty variant: the iterator is advanced after the list was reordered.
AdvanceAfterSplice ==
  LET expectedIndex == timestampToIndex(current, originTime)
      sourceDelay == now - indexToTimestamp(current, expectedIndex)
      delays == [maxObservedSourceDelay EXCEPT ![current] = sourceDelay]
  IN /\ pc = "blocked"
     /\ Available(current, expectedIndex)
     /\ IF sourceDelay > 0 /\ sourceDelay > maxObservedSourceDelay[current]
        THEN /\ maxObservedSourceDelay' = delays
             /\ readers' = IF delays[current] > delays[Head(readers)]
                           THEN SpliceToFront(readers, current) ELSE readers
        ELSE UNCHANGED <<maxObservedSourceDelay, readers>>
     /\ it' = IF Contains(readers', current) THEN NextOf(readers', current) ELSE End
     /\ pc' = "loop"
     /\ UNCHANGED <<minValidSlices, members, flowVars, now, originTime, current, status>>

(* The wait succeeded.  A new maximum of the source delay of this flow that *)
(* exceeds the one of the first flow reorders the list.                     *)
WaitSucceeds ==
  LET expectedIndex == timestampToIndex(current, originTime)
      sourceDelay == now - indexToTimestamp(current, expectedIndex)
      delays == [maxObservedSourceDelay EXCEPT ![current] = sourceDelay]
  IN /\ pc = "blocked"
     /\ Available(current, expectedIndex)
     /\ IF sourceDelay > 0 /\ sourceDelay > maxObservedSourceDelay[current]
        THEN /\ maxObservedSourceDelay' = delays
             /\ readers' = IF delays[current] > delays[Head(readers)]
                           THEN SpliceToFront(readers, current) ELSE readers
        ELSE UNCHANGED <<maxObservedSourceDelay, readers>>
     /\ pc' = "loop"
     /\ UNCHANGED <<minValidSlices, members, flowVars, now, originTime, it, current, status>>

(* The deadline passed, the flow is no longer valid, or the ring has moved  *)
(* on; data may have arrived since the deadline was found to have passed.   *)
WaitFails ==
  /\ pc = "blocked"
  /\ Return("ERROR")
  /\ UNCHANGED <<groupVars, flowVars, now, originTime>>

-----------------------------------------------------------------------------
CallStep == LoopEnds \/ Visit \/ WaitSucceeds \/ WaitFails

Next ==
  \/ Tick
  \/ \E r \in Readers, n \in 1 .. TotalSlices :
       Produce(r, n) \/ ProduceSlices(r, n) \/ addReader(r, n)
  \/ \E r \in Readers : removeReader(r)
  \/ \E t \in Times : waitForDataAt(t)
  \/ CallStep

Spec == Init /\ [][Next]_vars

(* The client's thread runs, and the deadline of a wait passes.             *)
FairSpec == Spec /\ WF_vars(CallStep)

-----------------------------------------------------------------------------
(* Properties *)

\* The data of the requested time has arrived at the flow of r.
Arrived(r) == head[r] >= timestampToIndex(r, originTime)

(* When waitForDataAt returns MXL_STATUS_OK, every flow that is still in    *)
(* the list has reached the requested time: reordering the list under the   *)
(* iterator may visit a flow twice but never skips one.                     *)
ListedFlowsHaveArrived ==
  status = "OK" => \A r \in ToSet(readers) : Arrived(r)

(* The list never holds a reader twice nor one that was removed: an entry   *)
(* of a released reader would be a dangling pointer.                        *)
ListHoldsMembersOnce ==
  /\ ToSet(readers) \subseteq members
  /\ \A i, j \in 1 .. Len(readers) : readers[i] = readers[j] => i = j

(* waitForDataAt returns: moving nodes to the front, which sends the        *)
(* iterator back, cannot make it walk in circles.                           *)
WaitReturns == pc # "idle" ~> pc = "idle"

(* flow.h on mxlFlowSynchronizationGroupWaitForDataAt: it waits "for the    *)
(* data corresponding to the specified timestamp to become available        *)
(* accross all flows currently added to the group".                         *)
OkMeansAllFlowsArrived == status = "OK" => \A r \in members : Arrived(r)
=============================================================================
