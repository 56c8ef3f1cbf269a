------------------------- MODULE FlowLifecycleProofs -------------------------
(***************************************************************************)
(* Proofs about the life of a flow, for any number of instances,           *)
(* collectors, generations and crashes.                                    *)
(*                                                                         *)
(* What holds of readers and creators rests on what a call may still       *)
(* remember of the domain while it is under way: SharedInv until something *)
(* is removed, GenerationInv always.  The latter says that a generation    *)
(* that was published once never gets the flow's name again: every         *)
(* unpublished one is the temporary directory of exactly one call.         *)
(*                                                                         *)
(* That released flows are deleted rests on the locks: LockInv says which  *)
(* file holds which lock at every step of a call, and DeletionInv that     *)
(* while the flow has its name some instance will still remove it.         *)
(***************************************************************************)
EXTENDS FlowLifecycle, TLAPS

(* --- Types --------------------------------------------------------------- *)

DomainOK ==
  /\ path \in GenOrNone /\ files \in [Gens -> SUBSET Files] /\ temps \subseteq Gens
  /\ format \in [Gens -> {"discrete", "continuous"}] /\ created \in 0 .. MaxGen

LocksOK == locks \in [FDs -> [gen : GenOrNone, mode : {"none", "SH", "EX"}]]

CallsOK ==
  /\ pc \in [Actors -> {"idle", "publish", "open", "lock", "payload", "attach", "unlock",
                        "lockExclusive", "remove", "unlinking", "erase", "probe", "close"}]
  /\ call \in [Actors -> {"none", "writer", "reader", "gc", "isActive"}]
  /\ temp \in [Actors -> GenOrNone]
  /\ target \in [Actors -> GenOrNone]
  /\ payload \in [Actors -> GenOrNone]

HandlesOK == writer \in [Instances -> Handles] /\ reader \in [Instances -> Handles]

CountsOK ==
  /\ crashes \in 0 .. MaxCrashes
  /\ disturbed \in BOOLEAN /\ removed \in BOOLEAN

\* A call that will add a reference was admitted below the bound, and the mutex
\* of the instance keeps the count until then.
RoomForReference ==
  \A p \in Instances :
    (call[p] = "writer" /\ pc[p] \in {"publish", "open", "lock", "payload", "attach"})
      => writer[p].refs < MaxRefs

Parts == DomainOK /\ LocksOK /\ CallsOK /\ HandlesOK /\ CountsOK /\ RoomForReference

\* A lock is taken or given back.
LEMMA LockTypes ==
  ASSUME LocksOK, NEW d \in FDs, NEW g \in GenOrNone, NEW m \in {"none", "SH", "EX"},
         locks' = [locks EXCEPT ![d] = [gen |-> g, mode |-> m]]
  PROVE  LocksOK'
BY DEF LocksOK

\* Giving it back is taking none.
LEMMA UnlockTypes ==
  ASSUME LocksOK, NEW d \in FDs, locks' = [locks EXCEPT ![d] = Unlocked]
  PROVE  LocksOK'
BY LockTypes DEF Unlocked, GenOrNone

\* A call ends.
LEMMA EndCallTypes ==
  ASSUME CallsOK, NEW a \in Actors, EndCall(a)
  PROVE  CallsOK' /\ pc' = [pc EXCEPT ![a] = "idle"] /\ call' = [call EXCEPT ![a] = "none"]
BY DEF CallsOK, EndCall, Goto, GenOrNone, None

\* A call moves on, or another local changes.
LEMMA MoveTypes ==
  ASSUME CallsOK, NEW a \in Actors, UNCHANGED <<call, temp>>,
         NEW g \in GenOrNone, NEW h \in GenOrNone,
         NEW where \in {"idle", "publish", "open", "lock", "payload", "attach", "unlock",
                        "lockExclusive", "remove", "unlinking", "erase", "probe", "close"},
         Goto(a, where),
         target' = target \/ target' = [target EXCEPT ![a] = g],
         payload' = payload \/ payload' = [payload EXCEPT ![a] = h]
  PROVE  CallsOK'
BY DEF CallsOK, Goto

\* The count of a handle changes, or the handle is made or given up.
LEMMA RefsTypes ==
  ASSUME NEW handles \in [Instances -> Handles], NEW p \in Instances, NEW n \in 0 .. MaxRefs
  PROVE  /\ [handles EXCEPT ![p].refs = n] \in [Instances -> Handles]
         /\ [handles EXCEPT ![p].refs = n][p].refs = n
         /\ Detached \in Handles
<1>1. handles[p] \in Handles
  OBVIOUS
<1>2. [handles[p] EXCEPT !.refs = n] \in Handles
  BY <1>1 DEF Handles
<1>3. Detached \in Handles
  BY LifecycleAssumption DEF Handles, Detached, GenOrNone
<1>4. [handles EXCEPT ![p].refs = n][p].refs = n
  BY <1>1 DEF Handles
<1> QED BY <1>2, <1>3, <1>4

\* An exception leaves the call.
LEMMA ThrowTypes ==
  ASSUME Parts, NEW p \in Instances, Throw(p)
  PROVE  Parts'
<1>1. DomainOK'
  BY DEF Parts, DomainOK, Throw
<1>2. LocksOK'
  BY UnlockTypes DEF Parts, Throw, FDs, Actors
<1>3. CallsOK' /\ pc' = [pc EXCEPT ![p] = "idle"]
  BY EndCallTypes DEF Parts, Throw, Actors
<1>4. HandlesOK' /\ CountsOK'
  BY DEF Parts, Throw, HandlesOK, CountsOK
<1>5. RoomForReference'
  BY <1>3 DEF Parts, Throw, CallsOK, RoomForReference, EndCall, Actors
<1> QED BY <1>1, <1>2, <1>3, <1>4, <1>5 DEF Parts

\* Steps that have no alternatives keep types and room.
LEMMA PlainTypeStep ==
  ASSUME Parts,
         \/ \E p \in Instances :
              \/ \E f \in Formats : createFlowWriter(p, f)
              \/ AttachReader(p) \/ Unlock(p) \/ EraseWriter(p) \/ Crash(p)
         \/ \E a \in Actors : RemovalStep(a)
         \/ \E c \in Collectors, why \in {"gc", "isActive"} : OpenProbe(c, why)
         \/ UNCHANGED vars
  PROVE  Parts'
<1> USE LifecycleAssumption DEF Parts, DomainOK, LocksOK, CallsOK, HandlesOK, CountsOK,
    RoomForReference, GenOrNone, Gens, Handles, Files, FDs, Actors, None, Unlocked,
    Goto, domainVars, callVars, history
<1>1. ASSUME NEW p \in Instances, NEW f \in Formats, createFlowWriter(p, f) PROVE Parts'
  BY <1>1 DEF createFlowWriter, Locked
<1>2. ASSUME NEW p \in Instances, AttachReader(p) PROVE Parts'
  BY <1>2 DEF AttachReader, EndCall
<1>3. ASSUME NEW p \in Instances, Unlock(p) PROVE Parts'
  BY <1>3 DEF Unlock
<1>4. ASSUME NEW p \in Instances, EraseWriter(p) PROVE Parts'
  BY <1>4 DEF EraseWriter, EndCall, Detached
<1>5. ASSUME NEW p \in Instances, Crash(p) PROVE Parts'
  BY <1>5 DEF Crash, EndCall, Detached
<1>6. ASSUME NEW a \in Actors, BeginRemoval(a) PROVE Parts'
  BY <1>6 DEF BeginRemoval, AfterRemoval
<1>7. ASSUME NEW a \in Actors, NEW file \in Files, Unlink(a, file) PROVE Parts'
  BY <1>7 DEF Unlink
<1>8. ASSUME NEW a \in Actors, RemoveDirectory(a) PROVE Parts'
  BY <1>8 DEF RemoveDirectory, AfterRemoval
<1>9. ASSUME NEW c \in Collectors, NEW why \in {"gc", "isActive"}, OpenProbe(c, why) PROVE Parts'
  BY <1>9 DEF OpenProbe, CanOpen
<1>10. CASE UNCHANGED vars
  BY <1>10 DEF vars
<1> HIDE DEF Parts, DomainOK, LocksOK, CallsOK, HandlesOK, CountsOK, RoomForReference,
    FDs, Actors
<1> QED BY <1>1, <1>2, <1>3, <1>4, <1>5, <1>6, <1>7, <1>8, <1>9, <1>10 DEF RemovalStep

\* So do those that create and open.
LEMMA OpenTypeStep ==
  ASSUME Parts, NEW p \in Instances,
         publishFlowDirectory(p) \/ openFlow(p) \/ LockShared(p) \/ OpenPayload(p)
  PROVE  Parts'
<1>0. /\ DomainOK /\ LocksOK /\ CallsOK /\ HandlesOK /\ CountsOK /\ RoomForReference
      /\ p \in Actors /\ <<p, "call">> \in FDs /\ path \in GenOrNone
      /\ temp[p] \in GenOrNone /\ target[p] \in GenOrNone
  BY DEF Parts, DomainOK, CallsOK, FDs, Actors
<1>1. CASE publishFlowDirectory(p)
  <2>1. DomainOK' /\ HandlesOK' /\ CountsOK'
    BY <1>0, <1>1 DEF publishFlowDirectory, DomainOK, HandlesOK, CountsOK, history
  <2>2. LocksOK'
    BY <1>0, <1>1, UnlockTypes DEF publishFlowDirectory, LocksOK
  <2>3. CASE path = None
    <3>1. CallsOK'
      BY <1>0, <1>1, <2>3, MoveTypes DEF publishFlowDirectory
    <3>2. RoomForReference'
      <4>1. /\ UNCHANGED <<call, writer>> /\ pc[p] = "publish"
            /\ pc' = [pc EXCEPT ![p] = "attach"]
        BY <1>1, <2>3 DEF publishFlowDirectory, Goto
      <4> QED BY <1>0, <4>1 DEF RoomForReference, CallsOK
    <3> QED BY <2>1, <2>2, <3>1, <3>2 DEF Parts
  <2>4. CASE path # None
    <3>1. CallsOK'
      BY <1>0, <1>1, <2>4, MoveTypes DEF publishFlowDirectory
    <3>2. RoomForReference'
      <4>1. /\ UNCHANGED <<call, writer>> /\ pc[p] = "publish"
            /\ pc' = [pc EXCEPT ![p] = "open"]
        BY <1>1, <2>4 DEF publishFlowDirectory, Goto
      <4> QED BY <1>0, <4>1 DEF RoomForReference, CallsOK
    <3> QED BY <2>1, <2>2, <3>1, <3>2 DEF Parts
  <2> QED BY <2>3, <2>4
<1>2. CASE openFlow(p) /\ ~Throw(p)
  <2>1. UNCHANGED <<domainVars, locks, call, temp, payload, writer, reader, history>>
    BY <1>2 DEF openFlow
  <2>2. /\ target' = [target EXCEPT ![p] = path] /\ pc[p] = "open"
        /\ Goto(p, IF call[p] = "writer" THEN "lock" ELSE "payload")
    BY <1>2 DEF openFlow
  <2>3. DomainOK' /\ LocksOK' /\ HandlesOK' /\ CountsOK'
    BY <1>0, <2>1 DEF DomainOK, LocksOK, HandlesOK, CountsOK, domainVars, history
  <2>4. CallsOK'
    BY <1>0, <2>1, <2>2, MoveTypes
  <2>5. RoomForReference'
    BY <1>0, <2>1, <2>2 DEF RoomForReference, Goto, CallsOK
  <2> QED BY <2>3, <2>4, <2>5 DEF Parts
<1>3. CASE LockShared(p) /\ ~Throw(p)
  <2>1. UNCHANGED <<domainVars, call, temp, target, payload, writer, reader, history>>
    BY <1>3 DEF LockShared
  <2>2. /\ locks' = [locks EXCEPT ![<<p, "call">>] = [gen |-> target[p], mode |-> "SH"]]
        /\ Goto(p, "payload") /\ pc[p] = "lock"
    BY <1>3 DEF LockShared, Locked
  <2>3. DomainOK' /\ HandlesOK' /\ CountsOK'
    BY <1>0, <2>1 DEF DomainOK, HandlesOK, CountsOK, domainVars, history
  <2>4. LocksOK'
    BY <1>0, <2>2, LockTypes
  <2>5. CallsOK'
    BY <1>0, <2>1, <2>2, MoveTypes
  <2>6. RoomForReference'
    BY <1>0, <2>1, <2>2 DEF RoomForReference, Goto, CallsOK
  <2> QED BY <2>3, <2>4, <2>5, <2>6 DEF Parts
<1>4. CASE OpenPayload(p) /\ ~Throw(p)
  <2>1. UNCHANGED <<domainVars, locks, call, temp, target, writer, reader, history>>
    BY <1>4 DEF OpenPayload
  <2>2. /\ payload' = [payload EXCEPT ![p] = path]
        /\ Goto(p, "attach") /\ pc[p] = "payload"
    BY <1>4 DEF OpenPayload
  <2>3. DomainOK' /\ LocksOK' /\ HandlesOK' /\ CountsOK'
    BY <1>0, <2>1 DEF DomainOK, LocksOK, HandlesOK, CountsOK, domainVars, history
  <2>4. CallsOK'
    BY <1>0, <2>1, <2>2, MoveTypes
  <2>5. RoomForReference'
    BY <1>0, <2>1, <2>2 DEF RoomForReference, Goto, CallsOK
  <2> QED BY <2>3, <2>4, <2>5 DEF Parts
<1> QED BY <1>1, <1>2, <1>3, <1>4, ThrowTypes

\* And those that count references.
LEMMA HandleTypeStep ==
  ASSUME Parts, NEW p \in Instances,
         \/ AttachWriter(p) \/ getFlowReader(p) \/ releaseReader(p)
         \/ releaseWriter(p) \/ DestroyInstance(p)
  PROVE  Parts'
<1>0. /\ DomainOK /\ LocksOK /\ CallsOK /\ HandlesOK /\ CountsOK /\ RoomForReference
      /\ p \in Actors /\ <<p, "call">> \in FDs /\ <<p, "writer">> \in FDs
      /\ writer[p] \in Handles /\ reader[p] \in Handles
      /\ target[p] \in GenOrNone /\ payload[p] \in GenOrNone
      /\ writer \in [Instances -> Handles] /\ reader \in [Instances -> Handles]
  BY DEF Parts, CallsOK, HandlesOK, FDs, Actors
<1>1. MaxRefs \in Nat /\ MaxRefs > 0 /\ writer[p].refs \in 0 .. MaxRefs
      /\ reader[p].refs \in 0 .. MaxRefs
  BY <1>0, LifecycleAssumption DEF Handles
<1>2. CASE AttachWriter(p)
  <2>1. EndCall(p) /\ pc[p] = "attach" /\ call[p] = "writer"
        /\ UNCHANGED <<path, files, format, created, reader, history>>
    BY <1>2 DEF AttachWriter
  <2>2. DomainOK' /\ CountsOK'
    <3>1. temps' \subseteq temps
      BY <1>2 DEF AttachWriter
    <3> QED BY <1>0, <2>1, <3>1 DEF DomainOK, CountsOK, history
  <2>3. CallsOK' /\ pc' = [pc EXCEPT ![p] = "idle"] /\ call' = [call EXCEPT ![p] = "none"]
    BY <1>0, <2>1, EndCallTypes
  <2>4. writer[p].refs < MaxRefs
    BY <1>0, <2>1 DEF RoomForReference
  <2>5. CASE writer[p].refs > 0
    <3>1. /\ writer' = [writer EXCEPT ![p].refs = writer[p].refs + 1]
          /\ locks' = [locks EXCEPT ![<<p, "call">>] = Unlocked]
      BY <1>2, <2>5 DEF AttachWriter
    <3>2. writer[p].refs + 1 \in 0 .. MaxRefs
      BY <1>1, <2>4
    <3>3. writer' \in [Instances -> Handles]
      BY <1>0, <3>1, <3>2, RefsTypes
    <3>4. HandlesOK' /\ LocksOK'
      BY <1>0, <2>1, <3>1, <3>3, UnlockTypes DEF HandlesOK
    <3>5. RoomForReference'
      BY <1>0, <2>3, <3>1 DEF RoomForReference, CallsOK
    <3> QED BY <2>2, <2>3, <3>4, <3>5 DEF Parts
  <2>6. CASE ~(writer[p].refs > 0)
    <3>1. /\ writer' = [writer EXCEPT ![p] =
                [gen |-> target[p], payload |-> payload[p], refs |-> 1]]
          /\ locks' = [locks EXCEPT ![<<p, "writer">>] = locks[<<p, "call">>],
                                    ![<<p, "call">>] = Unlocked]
      BY <1>2, <2>6 DEF AttachWriter
    <3>2. [gen |-> target[p], payload |-> payload[p], refs |-> 1] \in Handles
      BY <1>0, <1>1 DEF Handles
    <3>3. HandlesOK'
      BY <1>0, <2>1, <3>1, <3>2 DEF HandlesOK
    <3>4. LocksOK'
      <4> DEFINE l == [locks EXCEPT ![<<p, "writer">>] = locks[<<p, "call">>]]
      <4>1. l \in [FDs -> [gen : GenOrNone, mode : {"none", "SH", "EX"}]]
        BY <1>0 DEF LocksOK
      <4>2. Unlocked \in [gen : GenOrNone, mode : {"none", "SH", "EX"}]
        BY DEF Unlocked, GenOrNone
      <4>3. locks' = [l EXCEPT ![<<p, "call">>] = Unlocked]
        BY <3>1
      <4> HIDE DEF l
      <4> QED BY <1>0, <4>1, <4>2, <4>3 DEF LocksOK
    <3>5. RoomForReference'
      BY <1>0, <2>3, <3>1 DEF RoomForReference, CallsOK
    <3> QED BY <2>2, <2>3, <3>3, <3>4, <3>5 DEF Parts
  <2> QED BY <2>5, <2>6
<1>3. CASE getFlowReader(p)
  <2>1. UNCHANGED <<domainVars, locks, temp, target, payload, writer, history>> /\ pc[p] = "idle"
    BY <1>3 DEF getFlowReader
  <2>2. DomainOK' /\ LocksOK' /\ CountsOK'
    BY <1>0, <2>1 DEF DomainOK, LocksOK, CountsOK, domainVars, history
  <2>3. CASE reader[p].refs = 0
    <3>1. /\ pc' = [pc EXCEPT ![p] = "open"] /\ call' = [call EXCEPT ![p] = "reader"]
          /\ UNCHANGED reader
      BY <1>1, <1>3, <2>3 DEF getFlowReader, Goto
    <3>2. CallsOK' /\ HandlesOK'
      BY <1>0, <2>1, <3>1 DEF CallsOK, HandlesOK
    <3>3. RoomForReference'
      BY <1>0, <2>1, <3>1 DEF RoomForReference, CallsOK
    <3> QED BY <2>2, <3>2, <3>3 DEF Parts
  <2>4. CASE reader[p].refs # 0
    <3>1. /\ reader' = [reader EXCEPT ![p].refs = reader[p].refs + 1] /\ UNCHANGED <<pc, call>>
          /\ reader[p].refs + 1 \in 0 .. MaxRefs
      BY <1>1, <1>3, <2>4 DEF getFlowReader
    <3>2. HandlesOK'
      BY <1>0, <2>1, <3>1, RefsTypes DEF HandlesOK
    <3>3. CallsOK' /\ RoomForReference'
      BY <1>0, <2>1, <3>1 DEF CallsOK, RoomForReference
    <3> QED BY <2>2, <3>2, <3>3 DEF Parts
  <2> QED BY <2>3, <2>4
<1>4. CASE releaseReader(p)
  <2>1. UNCHANGED <<domainVars, locks, callVars, writer, history>> /\ reader[p].refs > 0
    BY <1>4 DEF releaseReader
  <2>2. DomainOK' /\ LocksOK' /\ CountsOK' /\ CallsOK' /\ RoomForReference'
    BY <1>0, <2>1 DEF DomainOK, LocksOK, CountsOK, CallsOK, RoomForReference,
                      domainVars, callVars, history
  <2>3. reader[p].refs - 1 \in 0 .. MaxRefs
    BY <1>1, <2>1
  <2>4. \/ reader' = [reader EXCEPT ![p] = Detached]
        \/ reader' = [reader EXCEPT ![p].refs = reader[p].refs - 1]
    BY <1>4 DEF releaseReader
  <2>5. HandlesOK'
    <3>1. /\ [reader EXCEPT ![p].refs = reader[p].refs - 1] \in [Instances -> Handles]
          /\ Detached \in Handles
      BY <1>0, <2>3, RefsTypes
    <3>2. [reader EXCEPT ![p] = Detached] \in [Instances -> Handles]
      BY <1>0, <3>1
    <3> QED BY <1>0, <2>1, <2>4, <3>1, <3>2 DEF HandlesOK
  <2> QED BY <2>2, <2>5 DEF Parts
<1>5. CASE releaseWriter(p)
  <2>1. /\ UNCHANGED <<domainVars, locks, call, temp, target, payload, reader, history>>
        /\ writer' = [writer EXCEPT ![p].refs = writer[p].refs - 1]
        /\ writer[p].refs > 0 /\ pc[p] = "idle"
        /\ (pc' = pc \/ pc' = [pc EXCEPT ![p] = "unlock"])
    BY <1>5 DEF releaseWriter, Goto
  <2>2. writer[p].refs - 1 \in 0 .. MaxRefs
    BY <1>1, <2>1
  <2>3. DomainOK' /\ LocksOK' /\ CountsOK' /\ CallsOK'
    BY <1>0, <2>1 DEF DomainOK, LocksOK, CountsOK, CallsOK, domainVars, history
  <2>4. HandlesOK'
    BY <1>0, <2>1, <2>2, RefsTypes DEF HandlesOK
  <2>5. RoomForReference'
    <3>1. pc'[p] \in {"idle", "unlock"} /\ \A q \in Instances \ {p} : pc'[q] = pc[q]
      BY <1>0, <2>1 DEF CallsOK, Actors
    <3>2. \A q \in Instances \ {p} : writer'[q] = writer[q]
      BY <1>0, <2>1
    <3> QED BY <1>0, <2>1, <3>1, <3>2 DEF RoomForReference
  <2> QED BY <2>3, <2>4, <2>5 DEF Parts
<1>6. CASE DestroyInstance(p)
  <2>1. /\ UNCHANGED <<domainVars, locks, call, temp, target, payload, history>>
        /\ writer' = [writer EXCEPT ![p].refs = 0]
        /\ reader' = [reader EXCEPT ![p] = Detached]
        /\ pc[p] = "idle" /\ (pc' = pc \/ pc' = [pc EXCEPT ![p] = "unlock"])
    BY <1>6 DEF DestroyInstance, Goto
  <2>2. 0 \in 0 .. MaxRefs
    BY <1>1
  <2>3. DomainOK' /\ LocksOK' /\ CountsOK' /\ CallsOK'
    BY <1>0, <2>1 DEF DomainOK, LocksOK, CountsOK, CallsOK, domainVars, history
  <2>4. HandlesOK'
    BY <1>0, <2>1, <2>2, RefsTypes DEF HandlesOK
  <2>5. RoomForReference'
    <3>1. pc'[p] \in {"idle", "unlock"} /\ \A q \in Instances \ {p} : pc'[q] = pc[q]
      BY <1>0, <2>1 DEF CallsOK, Actors
    <3>2. \A q \in Instances \ {p} : writer'[q] = writer[q]
      BY <1>0, <2>1
    <3> QED BY <1>0, <2>1, <3>1, <3>2 DEF RoomForReference
  <2> QED BY <2>3, <2>4, <2>5 DEF Parts
<1> QED BY <1>2, <1>3, <1>4, <1>5, <1>6

\* And those that try for an exclusive lock.
LEMMA ExclusiveTypeStep ==
  ASSUME Parts,
         \/ \E p \in Instances : LockExclusive(p)
         \/ \E c \in Collectors : Probe(c) \/ CloseProbe(c)
  PROVE  Parts'
<1>0. DomainOK /\ LocksOK /\ CallsOK /\ HandlesOK /\ CountsOK /\ RoomForReference
  BY DEF Parts
<1>1. ASSUME NEW p \in Instances, LockExclusive(p) PROVE Parts'
  <2>1. /\ UNCHANGED <<domainVars, call, temp, target, payload, writer, reader, history>>
        /\ \E where \in {"remove", "erase"} : Goto(p, where)
        /\ \/ locks' = [locks EXCEPT ![<<p, "writer">>] = [gen |-> writer[p].gen, mode |-> "EX"]]
           \/ UNCHANGED locks
    BY <1>1 DEF LockExclusive, Locked
  <2>2. p \in Actors /\ <<p, "writer">> \in FDs /\ writer[p].gen \in GenOrNone
    BY <1>0 DEF FDs, Actors, HandlesOK, Handles
  <2>3. LocksOK'
    BY <1>0, <2>1, <2>2, LockTypes DEF LocksOK
  <2>4. DomainOK' /\ CountsOK' /\ CallsOK' /\ HandlesOK' /\ RoomForReference'
    BY <1>0, <2>1, <2>2 DEF DomainOK, CountsOK, CallsOK, HandlesOK, RoomForReference,
                            Goto, domainVars, history
  <2> QED BY <2>3, <2>4 DEF Parts
<1>2. ASSUME NEW c \in Collectors, Probe(c) \/ CloseProbe(c) PROVE Parts'
  <2>1. UNCHANGED <<domainVars, writer, reader, history>>
    BY <1>2 DEF Probe, CloseProbe
  <2>2. c \in Actors /\ <<c, "call">> \in FDs /\ target[c] \in GenOrNone /\ c \notin Instances
    BY <1>0, LifecycleAssumption DEF FDs, Actors, CallsOK
  <2>3. \/ locks' = [locks EXCEPT ![<<c, "call">>] = [gen |-> target[c], mode |-> "EX"]]
        \/ locks' = [locks EXCEPT ![<<c, "call">>] = Unlocked]
        \/ UNCHANGED locks
    BY <1>2 DEF Probe, CloseProbe, Locked
  <2>4. LocksOK'
    BY <1>0, <2>2, <2>3, LockTypes, UnlockTypes DEF LocksOK
  <2>5. \/ EndCall(c)
        \/ UNCHANGED <<call, temp, target, payload>> /\ (Goto(c, "close") \/ Goto(c, "remove"))
    BY <1>2 DEF Probe, CloseProbe
  <2>6. CallsOK'
    BY <1>0, <2>2, <2>5, EndCallTypes, MoveTypes
  <2>7. \A p \in Instances : pc'[p] = pc[p] /\ call'[p] = call[p]
    <3>1. CASE EndCall(c)
      BY <1>0, <2>2, <3>1 DEF EndCall, Goto, CallsOK, Actors
    <3>2. CASE UNCHANGED call /\ (Goto(c, "close") \/ Goto(c, "remove"))
      BY <1>0, <2>2, <3>2 DEF Goto, CallsOK, Actors
    <3> QED BY <2>5, <3>1, <3>2
  <2>8. DomainOK' /\ CountsOK' /\ HandlesOK' /\ RoomForReference'
    BY <1>0, <2>1, <2>7 DEF DomainOK, CountsOK, HandlesOK, RoomForReference, domainVars, history
  <2> QED BY <2>4, <2>6, <2>8 DEF Parts
<1> QED BY <1>1, <1>2

\* All of that in the initial state.
LEMMA InitParts == Init => Parts
<1>1. Init => Parts
  <2>1. Detached \in Handles
    BY LifecycleAssumption DEF Handles, Detached, GenOrNone
  <2>2. Init => DomainOK /\ LocksOK
    BY LifecycleAssumption DEF Init, DomainOK, LocksOK, GenOrNone, Gens, Unlocked, None
  <2>3. Init => CallsOK /\ HandlesOK
    BY <2>1, LifecycleAssumption DEF Init, CallsOK, HandlesOK, GenOrNone, None
  <2>4. Init => CountsOK
    <3>1. Init => crashes = 0 /\ disturbed \in BOOLEAN /\ removed \in BOOLEAN
      BY Zenon DEF Init
    <3> QED BY <3>1, LifecycleAssumption DEF CountsOK
  <2>5. Init => RoomForReference
    BY DEF Init, RoomForReference, Actors
  <2> QED BY <2>2, <2>3, <2>4, <2>5 DEF Parts
<1> QED BY <1>1

\* And in every later one.
LEMMA TypeStep ==
  ASSUME Parts, [Next]_vars
  PROVE  Parts'
BY PlainTypeStep, OpenTypeStep, HandleTypeStep, ExclusiveTypeStep
DEF Next, InstanceStep, CollectorStep, Actors

\* Everything has its type; above all, reference counts neither fall below zero
\* nor grow past what their calls were admitted for (Instance::releaseReader,
\* releaseWriter).
THEOREM LifecycleTypes == Spec => []TypeOK
<1>1. Parts => TypeOK
  BY DEF Parts, DomainOK, LocksOK, CallsOK, HandlesOK, CountsOK, TypeOK
<1>2. Parts /\ [Next]_vars => Parts'
  BY TypeStep
<1> QED BY <1>1, <1>2, InitParts, PTL DEF Spec

(* --- One flow, one generation -------------------------------------------- *)

(* What the steps are applied to; locks and files do not matter here.       *)
CallTypes ==
  /\ pc \in [Actors -> {"idle", "publish", "open", "lock", "payload", "attach", "unlock",
                        "lockExclusive", "remove", "unlinking", "erase", "probe", "close"}]
  /\ temp \in [Actors -> Nat] /\ target \in [Actors -> Nat] /\ payload \in [Actors -> Nat]

HandleTypes ==
  /\ path \in Nat /\ created \in Nat
  /\ writer \in [Instances -> [gen : Nat, payload : Nat, refs : Nat]]
  /\ reader \in [Instances -> [gen : Nat, payload : Nat, refs : Nat]]

\* They follow from the types.
LEMMA PartsAreTypes == Parts => CallTypes /\ HandleTypes
<1>1. GenOrNone \subseteq Nat /\ 0 .. MaxGen \subseteq Nat
  BY LifecycleAssumption DEF GenOrNone, Gens, None
<1>2. Handles \subseteq [gen : Nat, payload : Nat, refs : Nat]
  <2>1. 0 .. MaxRefs \subseteq Nat
    OBVIOUS
  <2> QED BY <1>1, <2>1 DEF Handles
<1> QED BY <1>1, <1>2 DEF Parts, CallsOK, HandlesOK, DomainOK, CallTypes, HandleTypes

Publishing(p) == pc[p] = "publish"

\* The generation exists and is not one that a call is about to publish.
Known(g) == g \in 1 .. created /\ \A q \in Instances : Publishing(q) => temp[q] # g

OnlyPublished(gen, pay) == path # None /\ gen = path /\ pay = path

SharedInv ==
  ~removed =>
    /\ \A a \in Actors : pc[a] # "unlinking"
    /\ \A p \in Instances :
         /\ writer[p].refs > 0 => OnlyPublished(writer[p].gen, writer[p].payload)
         /\ pc[p] \in {"lock", "payload"} => OnlyPublished(target[p], path)
         /\ pc[p] = "attach" => OnlyPublished(target[p], payload[p])

TempInv ==
  \A p \in Instances : Publishing(p) =>
    /\ temp[p] \in 1 .. created
    /\ \A q \in Instances : Publishing(q) /\ temp[q] = temp[p] => q = p

KnownInv ==
  /\ path # None => Known(path)
  /\ \A p \in Instances :
       /\ pc[p] \in {"lock", "payload", "attach"} => Known(target[p])
       /\ reader[p].refs > 0 => Known(reader[p].gen)

PayloadInv ==
  \A p \in Instances :
    /\ pc[p] = "attach" => payload[p] = target[p] \/ path # target[p]
    /\ reader[p].refs > 0 => reader[p].payload = reader[p].gen \/ path # reader[p].gen

GenerationInv == TempInv /\ KnownInv /\ PayloadInv

IInv == Parts /\ SharedInv /\ GenerationInv

\* Until something is removed, what calls and writers hold is the published flow.
LEMMA SharedStep ==
  ASSUME CallTypes, HandleTypes, TempInv, SharedInv, [Next]_vars
  PROVE  SharedInv'
<1> USE LifecycleAssumption DEF CallTypes, HandleTypes, SharedInv, OnlyPublished,
    Actors, None, Detached, Goto
<1>1. ASSUME NEW p \in Instances, NEW f \in Formats, createFlowWriter(p, f) PROVE SharedInv'
  BY <1>1 DEF createFlowWriter, Locked, domainVars, callVars, history
<1>2. ASSUME NEW p \in Instances, publishFlowDirectory(p) PROVE SharedInv'
  <2>1. CASE path = None
    <3>1. temp[p] # None
      BY <1>2 DEF publishFlowDirectory, TempInv, Publishing
    <3> QED BY <1>2, <2>1, <3>1 DEF publishFlowDirectory, history
  <2>2. CASE path # None
    BY <1>2, <2>2 DEF publishFlowDirectory, history
  <2> QED BY <2>1, <2>2
<1>3. ASSUME NEW p \in Instances, openFlow(p) PROVE SharedInv'
  BY <1>3 DEF openFlow, Throw, EndCall, CanOpen, domainVars, callVars, history
<1>4. ASSUME NEW p \in Instances, LockShared(p) PROVE SharedInv'
  BY <1>4 DEF LockShared, Throw, EndCall, Locked, domainVars, callVars, history
<1>5. ASSUME NEW p \in Instances, OpenPayload(p) PROVE SharedInv'
  BY <1>5 DEF OpenPayload, Throw, EndCall, domainVars, callVars, history
<1>6. ASSUME NEW p \in Instances, AttachWriter(p) PROVE SharedInv'
  BY <1>6 DEF AttachWriter, EndCall, domainVars, callVars, history
<1>7. ASSUME NEW p \in Instances, getFlowReader(p) PROVE SharedInv'
  BY <1>7 DEF getFlowReader, domainVars, callVars, history
<1>8. ASSUME NEW p \in Instances, AttachReader(p) PROVE SharedInv'
  BY <1>8 DEF AttachReader, EndCall, domainVars, callVars, history
<1>9. ASSUME NEW p \in Instances, releaseReader(p) PROVE SharedInv'
  BY <1>9 DEF releaseReader, domainVars, callVars, history
<1>10. ASSUME NEW p \in Instances, releaseWriter(p) PROVE SharedInv'
  BY <1>10 DEF releaseWriter, domainVars, callVars, history
<1>11. ASSUME NEW p \in Instances, DestroyInstance(p) PROVE SharedInv'
  BY <1>11 DEF DestroyInstance, domainVars, callVars, history
<1>12. ASSUME NEW p \in Instances, Unlock(p) PROVE SharedInv'
  BY <1>12 DEF Unlock, domainVars, callVars, history
<1>13. ASSUME NEW p \in Instances, LockExclusive(p) PROVE SharedInv'
  BY <1>13 DEF LockExclusive, Locked, domainVars, callVars, history
<1>14. ASSUME NEW p \in Instances, EraseWriter(p) PROVE SharedInv'
  BY <1>14 DEF EraseWriter, EndCall, domainVars, callVars, history
<1>15. ASSUME NEW p \in Instances, Crash(p) PROVE SharedInv'
  BY <1>15 DEF Crash, EndCall, domainVars, callVars, history
<1>16. ASSUME NEW a \in Actors, BeginRemoval(a) PROVE SharedInv'
  BY <1>16 DEF BeginRemoval, AfterRemoval, domainVars, callVars, history
<1>17. ASSUME NEW a \in Actors, NEW f \in Files, Unlink(a, f) PROVE SharedInv'
  BY <1>17 DEF Unlink, domainVars, callVars, history
<1>18. ASSUME NEW a \in Actors, RemoveDirectory(a) PROVE SharedInv'
  BY <1>18 DEF RemoveDirectory, AfterRemoval, domainVars, callVars, history
<1>19. ASSUME NEW c \in Collectors, NEW why \in {"gc", "isActive"}, OpenProbe(c, why)
    PROVE SharedInv'
  BY <1>19 DEF OpenProbe, CanOpen, domainVars, callVars, history
<1>20. ASSUME NEW c \in Collectors, Probe(c) PROVE SharedInv'
  BY <1>20 DEF Probe, Locked, EndCall, domainVars, callVars, history
<1>21. ASSUME NEW c \in Collectors, CloseProbe(c) PROVE SharedInv'
  BY <1>21 DEF CloseProbe, EndCall, domainVars, callVars, history
<1>22. CASE UNCHANGED vars
  BY <1>22 DEF vars, domainVars, callVars, domainVars, callVars, history
<1> QED
    BY <1>1, <1>2, <1>3, <1>4, <1>5, <1>6, <1>7, <1>8, <1>9, <1>10, <1>11, <1>12, <1>13,
      <1>14, <1>15, <1>16, <1>17, <1>18, <1>19, <1>20, <1>21, <1>22
  DEF Next, InstanceStep, CollectorStep, RemovalStep, Actors

\* Every call that is about to publish has a temporary directory of its own.
LEMMA TempStep ==
  ASSUME CallTypes, HandleTypes, TempInv, [Next]_vars
  PROVE  TempInv'
<1> USE LifecycleAssumption DEF CallTypes, HandleTypes, TempInv, Publishing, Actors,
    None, Goto
<1>1. ASSUME NEW p \in Instances, NEW f \in Formats, createFlowWriter(p, f) PROVE TempInv'
  BY <1>1 DEF createFlowWriter, Locked, domainVars, callVars, history
<1>2. ASSUME NEW p \in Instances, publishFlowDirectory(p) PROVE TempInv'
  BY <1>2 DEF publishFlowDirectory, domainVars, callVars, history
<1>3. ASSUME NEW p \in Instances, openFlow(p) PROVE TempInv'
  BY <1>3 DEF openFlow, Throw, EndCall, CanOpen, domainVars, callVars, history
<1>4. ASSUME NEW p \in Instances, LockShared(p) PROVE TempInv'
  BY <1>4 DEF LockShared, Throw, EndCall, Locked, domainVars, callVars, history
<1>5. ASSUME NEW p \in Instances, OpenPayload(p) PROVE TempInv'
  BY <1>5 DEF OpenPayload, Throw, EndCall, domainVars, callVars, history
<1>6. ASSUME NEW p \in Instances, AttachWriter(p) PROVE TempInv'
  BY <1>6 DEF AttachWriter, EndCall, domainVars, callVars, history
<1>7. ASSUME NEW p \in Instances, getFlowReader(p) PROVE TempInv'
  BY <1>7 DEF getFlowReader, domainVars, callVars, history
<1>8. ASSUME NEW p \in Instances, AttachReader(p) PROVE TempInv'
  BY <1>8 DEF AttachReader, EndCall, domainVars, callVars, history
<1>9. ASSUME NEW p \in Instances, releaseReader(p) PROVE TempInv'
  BY <1>9 DEF releaseReader, domainVars, callVars, history
<1>10. ASSUME NEW p \in Instances, releaseWriter(p) PROVE TempInv'
  BY <1>10 DEF releaseWriter, domainVars, callVars, history
<1>11. ASSUME NEW p \in Instances, DestroyInstance(p) PROVE TempInv'
  BY <1>11 DEF DestroyInstance, domainVars
<1>12. ASSUME NEW p \in Instances, Unlock(p) PROVE TempInv'
  BY <1>12 DEF Unlock, domainVars, callVars, history
<1>13. ASSUME NEW p \in Instances, LockExclusive(p) PROVE TempInv'
  BY <1>13 DEF LockExclusive, Locked, domainVars, callVars, history
<1>14. ASSUME NEW p \in Instances, EraseWriter(p) PROVE TempInv'
  BY <1>14 DEF EraseWriter, EndCall, domainVars, callVars, history
<1>15. ASSUME NEW p \in Instances, Crash(p) PROVE TempInv'
  BY <1>15 DEF Crash, EndCall, domainVars, callVars, history
<1>16. ASSUME NEW a \in Actors, BeginRemoval(a) PROVE TempInv'
  BY <1>16 DEF BeginRemoval, AfterRemoval, domainVars, callVars, history
<1>17. ASSUME NEW a \in Actors, NEW f \in Files, Unlink(a, f) PROVE TempInv'
  BY <1>17 DEF Unlink, domainVars, callVars, history
<1>18. ASSUME NEW a \in Actors, RemoveDirectory(a) PROVE TempInv'
  BY <1>18 DEF RemoveDirectory, AfterRemoval, domainVars, callVars, history
<1>19. ASSUME NEW c \in Collectors, NEW why \in {"gc", "isActive"}, OpenProbe(c, why)
    PROVE TempInv'
  BY <1>19 DEF OpenProbe, CanOpen, domainVars, callVars, history
<1>20. ASSUME NEW c \in Collectors, Probe(c) PROVE TempInv'
  BY <1>20 DEF Probe, Locked, EndCall, domainVars, callVars, history
<1>21. ASSUME NEW c \in Collectors, CloseProbe(c) PROVE TempInv'
  BY <1>21 DEF CloseProbe, EndCall, domainVars, callVars, history
<1>22. CASE UNCHANGED vars
  BY <1>22 DEF vars, domainVars, callVars, domainVars, callVars, history
<1> QED
    BY <1>1, <1>2, <1>3, <1>4, <1>5, <1>6, <1>7, <1>8, <1>9, <1>10, <1>11, <1>12, <1>13,
      <1>14, <1>15, <1>16, <1>17, <1>18, <1>19, <1>20, <1>21, <1>22
  DEF Next, InstanceStep, CollectorStep, RemovalStep, Actors

\* Whatever was opened by name is never again about to be published.
LEMMA KnownStep ==
  ASSUME CallTypes, HandleTypes, TempInv, KnownInv, [Next]_vars
  PROVE  KnownInv'
<1> USE LifecycleAssumption DEF CallTypes, HandleTypes, TempInv, KnownInv, Known,
    Publishing, Actors, None, Detached, Goto
<1>1. ASSUME NEW p \in Instances, NEW f \in Formats, createFlowWriter(p, f) PROVE KnownInv'
  BY <1>1 DEF createFlowWriter, Locked, domainVars, callVars, history
<1>2. ASSUME NEW p \in Instances, publishFlowDirectory(p) PROVE KnownInv'
  <2>1. CASE path = None
    <3>1. Known(temp[p])'
      BY <1>2, <2>1 DEF publishFlowDirectory, history
    <3> QED BY <1>2, <2>1, <3>1 DEF publishFlowDirectory, history
  <2>2. CASE path # None
    BY <1>2, <2>2 DEF publishFlowDirectory, history
  <2> QED BY <2>1, <2>2
<1>3. ASSUME NEW p \in Instances, openFlow(p) PROVE KnownInv'
  <2>1. CASE Throw(p)
    BY <2>1 DEF Throw, EndCall
  <2>2. CASE CanOpen("data") /\ UNCHANGED <<domainVars, temp, reader>>
    BY <1>3, <2>2 DEF openFlow, CanOpen, domainVars, Throw, EndCall
  <2> QED BY <1>3, <2>1, <2>2 DEF openFlow
<1>4. ASSUME NEW p \in Instances, LockShared(p) PROVE KnownInv'
  BY <1>4 DEF LockShared, Throw, EndCall, Locked, domainVars, callVars, history
<1>5. ASSUME NEW p \in Instances, OpenPayload(p) PROVE KnownInv'
  BY <1>5 DEF OpenPayload, Throw, EndCall, domainVars, callVars, history
<1>6. ASSUME NEW p \in Instances, AttachWriter(p) PROVE KnownInv'
  BY <1>6 DEF AttachWriter, EndCall, domainVars, callVars, history
<1>7. ASSUME NEW p \in Instances, getFlowReader(p) PROVE KnownInv'
  BY <1>7 DEF getFlowReader, domainVars, callVars, history
<1>8. ASSUME NEW p \in Instances, AttachReader(p) PROVE KnownInv'
  BY <1>8 DEF AttachReader, EndCall, domainVars, callVars, history
<1>9. ASSUME NEW p \in Instances, releaseReader(p) PROVE KnownInv'
  BY <1>9 DEF releaseReader, domainVars, callVars, history
<1>10. ASSUME NEW p \in Instances, releaseWriter(p) PROVE KnownInv'
  BY <1>10 DEF releaseWriter, domainVars, callVars, history
<1>11. ASSUME NEW p \in Instances, DestroyInstance(p) PROVE KnownInv'
  BY <1>11 DEF DestroyInstance, domainVars, callVars, history
<1>12. ASSUME NEW p \in Instances, Unlock(p) PROVE KnownInv'
  BY <1>12 DEF Unlock, domainVars, callVars, history
<1>13. ASSUME NEW p \in Instances, LockExclusive(p) PROVE KnownInv'
  BY <1>13 DEF LockExclusive, Locked, domainVars, callVars, history
<1>14. ASSUME NEW p \in Instances, EraseWriter(p) PROVE KnownInv'
  BY <1>14 DEF EraseWriter, EndCall, domainVars, callVars, history
<1>15. ASSUME NEW p \in Instances, Crash(p) PROVE KnownInv'
  BY <1>15 DEF Crash, EndCall, domainVars, callVars, history
<1>16. ASSUME NEW a \in Actors, BeginRemoval(a) PROVE KnownInv'
  BY <1>16 DEF BeginRemoval, AfterRemoval, domainVars, callVars, history
<1>17. ASSUME NEW a \in Actors, NEW f \in Files, Unlink(a, f) PROVE KnownInv'
  BY <1>17 DEF Unlink, domainVars, callVars, history
<1>18. ASSUME NEW a \in Actors, RemoveDirectory(a) PROVE KnownInv'
  BY <1>18 DEF RemoveDirectory, AfterRemoval, domainVars, callVars, history
<1>19. ASSUME NEW c \in Collectors, NEW why \in {"gc", "isActive"}, OpenProbe(c, why)
    PROVE KnownInv'
  BY <1>19 DEF OpenProbe, CanOpen, domainVars, callVars, history
<1>20. ASSUME NEW c \in Collectors, Probe(c) PROVE KnownInv'
  BY <1>20 DEF Probe, Locked, EndCall, domainVars, callVars, history
<1>21. ASSUME NEW c \in Collectors, CloseProbe(c) PROVE KnownInv'
  BY <1>21 DEF CloseProbe, EndCall, domainVars, callVars, history
<1>22. CASE UNCHANGED vars
  BY <1>22 DEF vars, domainVars, callVars, domainVars, callVars, history
<1> QED
    BY <1>1, <1>2, <1>3, <1>4, <1>5, <1>6, <1>7, <1>8, <1>9, <1>10, <1>11, <1>12, <1>13,
      <1>14, <1>15, <1>16, <1>17, <1>18, <1>19, <1>20, <1>21, <1>22
  DEF Next, InstanceStep, CollectorStep, RemovalStep, Actors

\* A handle on two generations has lost the name of the first for good.
LEMMA PayloadStep ==
  ASSUME CallTypes, HandleTypes, GenerationInv, [Next]_vars
  PROVE  PayloadInv'
<1> USE LifecycleAssumption DEF CallTypes, HandleTypes, GenerationInv, TempInv,
    KnownInv, PayloadInv, Known, Publishing, Actors, None, Detached, Goto
<1>1. ASSUME NEW p \in Instances, NEW f \in Formats, createFlowWriter(p, f) PROVE
    PayloadInv'
  BY <1>1 DEF createFlowWriter, Locked, domainVars, callVars, history
<1>2. ASSUME NEW p \in Instances, publishFlowDirectory(p) PROVE PayloadInv'
  BY <1>2 DEF publishFlowDirectory, domainVars, callVars, history
<1>3. ASSUME NEW p \in Instances, openFlow(p) PROVE PayloadInv'
  BY <1>3 DEF openFlow, Throw, EndCall, CanOpen, domainVars, callVars, history
<1>4. ASSUME NEW p \in Instances, LockShared(p) PROVE PayloadInv'
  BY <1>4 DEF LockShared, Throw, EndCall, Locked, domainVars, callVars, history
<1>5. ASSUME NEW p \in Instances, OpenPayload(p) PROVE PayloadInv'
  BY <1>5 DEF OpenPayload, Throw, EndCall, domainVars, callVars, history
<1>6. ASSUME NEW p \in Instances, AttachWriter(p) PROVE PayloadInv'
  BY <1>6 DEF AttachWriter, EndCall, domainVars, callVars, history
<1>7. ASSUME NEW p \in Instances, getFlowReader(p) PROVE PayloadInv'
  BY <1>7 DEF getFlowReader, domainVars, callVars, history
<1>8. ASSUME NEW p \in Instances, AttachReader(p) PROVE PayloadInv'
  BY <1>8 DEF AttachReader, EndCall, domainVars, callVars, history
<1>9. ASSUME NEW p \in Instances, releaseReader(p) PROVE PayloadInv'
  BY <1>9 DEF releaseReader, domainVars, callVars, history
<1>10. ASSUME NEW p \in Instances, releaseWriter(p) PROVE PayloadInv'
  BY <1>10 DEF releaseWriter, domainVars, callVars, history
<1>11. ASSUME NEW p \in Instances, DestroyInstance(p) PROVE PayloadInv'
  BY <1>11 DEF DestroyInstance, domainVars, callVars, history
<1>12. ASSUME NEW p \in Instances, Unlock(p) PROVE PayloadInv'
  BY <1>12 DEF Unlock, domainVars, callVars, history
<1>13. ASSUME NEW p \in Instances, LockExclusive(p) PROVE PayloadInv'
  BY <1>13 DEF LockExclusive, Locked, domainVars, callVars, history
<1>14. ASSUME NEW p \in Instances, EraseWriter(p) PROVE PayloadInv'
  BY <1>14 DEF EraseWriter, EndCall, domainVars, callVars, history
<1>15. ASSUME NEW p \in Instances, Crash(p) PROVE PayloadInv'
  BY <1>15 DEF Crash, EndCall, domainVars, callVars, history
<1>16. ASSUME NEW a \in Actors, BeginRemoval(a) PROVE PayloadInv'
  BY <1>16 DEF BeginRemoval, AfterRemoval, domainVars, callVars, history
<1>17. ASSUME NEW a \in Actors, NEW f \in Files, Unlink(a, f) PROVE PayloadInv'
  BY <1>17 DEF Unlink, domainVars, callVars, history
<1>18. ASSUME NEW a \in Actors, RemoveDirectory(a) PROVE PayloadInv'
  BY <1>18 DEF RemoveDirectory, AfterRemoval, domainVars, callVars, history
<1>19. ASSUME NEW c \in Collectors, NEW why \in {"gc", "isActive"}, OpenProbe(c, why)
    PROVE PayloadInv'
  BY <1>19 DEF OpenProbe, CanOpen, domainVars, callVars, history
<1>20. ASSUME NEW c \in Collectors, Probe(c) PROVE PayloadInv'
  BY <1>20 DEF Probe, Locked, EndCall, domainVars, callVars, history
<1>21. ASSUME NEW c \in Collectors, CloseProbe(c) PROVE PayloadInv'
  BY <1>21 DEF CloseProbe, EndCall, domainVars, callVars, history
<1>22. CASE UNCHANGED vars
  BY <1>22 DEF vars, domainVars, callVars, domainVars, callVars, history
<1> QED
    BY <1>1, <1>2, <1>3, <1>4, <1>5, <1>6, <1>7, <1>8, <1>9, <1>10, <1>11, <1>12, <1>13,
      <1>14, <1>15, <1>16, <1>17, <1>18, <1>19, <1>20, <1>21, <1>22
  DEF Next, InstanceStep, CollectorStep, RemovalStep, Actors

\* All parts together are inductive.
LEMMA IInvHolds == Spec => []IInv
<1>1. Init => IInv
  BY LifecycleAssumption, InitParts
  DEF Init, IInv, SharedInv, GenerationInv, TempInv, KnownInv, PayloadInv, Publishing,
      Actors, None, Detached
<1>2. IInv /\ [Next]_vars => IInv'
  BY TypeStep, PartsAreTypes, SharedStep, TempStep, KnownStep, PayloadStep
  DEF IInv, GenerationInv
<1> QED BY <1>1, <1>2, PTL DEF Spec

(* --- The last writer deletes the flow ------------------------------------ *)

Closing == {"unlock", "lockExclusive", "remove", "unlinking", "erase"}

\* The instance has an entry in _writers, in use or about to be erased.
HasWriter(p) == writer[p].refs > 0 \/ pc[p] \in Closing

Attaching(p) == call[p] = "writer" /\ pc[p] \in {"payload", "attach"}

Held(gen, mode) == [gen |-> gen, mode |-> mode]

\* The lock on the file of the writer, from attaching to erasing it.
WriterLock(p) ==
  LET lock == locks[<<p, "writer">>]
  IN  /\ writer[p].refs > 0 \/ pc[p] = "unlock" => lock = Held(writer[p].gen, "SH")
      /\ pc[p] \in {"remove", "unlinking"} => lock = Held(writer[p].gen, "EX")
      /\ pc[p] = "erase" => lock \in {Unlocked, Held(writer[p].gen, "EX")}
      /\ pc[p] = "lockExclusive" \/ ~HasWriter(p) => lock = Unlocked

\* The lock on the file that a call has opened.
CallLock(p) ==
  locks[<<p, "call">>] = IF Publishing(p) THEN Held(temp[p], "SH")
                         ELSE IF Attaching(p) THEN Held(target[p], "SH")
                         ELSE Unlocked

\* What flock(2) guarantees.
Exclusive ==
  \A d, e \in FDs :
    (locks[d].mode = "EX" /\ locks[e].mode # "none" /\ locks[e].gen = locks[d].gen) => d = e

Undisturbed(p) ==
  /\ WriterLock(p) /\ CallLock(p)
  /\ pc[p] \in Closing => writer[p].refs = 0
  /\ pc[p] \in {"publish", "lock"} => call[p] = "writer"
  /\ HasWriter(p) => Known(writer[p].gen)

CollectorsRest == \A c \in Collectors :
  /\ pc[c] = "idle"
  /\ locks[<<c, "call">>] = Unlocked /\ locks[<<c, "writer">>] = Unlocked

\* As long as no call failed, crashed or probed a lock.
LockInv ==
  ~disturbed => /\ CollectorsRest
                /\ \A p \in Instances : Undisturbed(p)
                /\ Exclusive

(* An instance that will still remove what has the flow's name: it has a    *)
(* writer or is about to, it tries for the exclusive lock while nobody has  *)
(* that, or it is removing.                                                 *)
WillDelete(p) ==
  \/ writer[p].refs > 0 \/ Attaching(p) \/ pc[p] \in {"unlock", "remove"}
  \/ pc[p] = "unlinking" /\ target[p] = path
  \/ pc[p] = "lockExclusive" /\ \A d \in FDs : locks[d] # Held(writer[p].gen, "EX")

DeletionInv == (~disturbed /\ path # None) => \E p \in Instances : WillDelete(p)

\* A step of one instance.
OnlyStepOf(p) ==
  /\ \A q \in Actors \ {p} : /\ pc'[q] = pc[q] /\ call'[q] = call[q]
                             /\ temp'[q] = temp[q] /\ target'[q] = target[q]
  /\ \A q \in Instances \ {p} : writer'[q] = writer[q]
  /\ \A d \in FDs : d[1] # p => locks'[d] = locks[d]

\* A lock that flock(2) grants excludes and is excluded as it should be.
LEMMA GrantKeeps ==
  ASSUME LocksOK, Exclusive, NEW d \in FDs, NEW g, NEW m, Grants(d, g, m),
         locks' = [locks EXCEPT ![d] = Held(g, m)]
  PROVE  Exclusive'
<1>1. SUFFICES ASSUME NEW x \in FDs, NEW y \in FDs, x # y,
                      locks'[x].mode = "EX", locks'[y].mode # "none",
                      locks'[y].gen = locks'[x].gen
               PROVE  FALSE
  BY DEF Exclusive
<1>2. locks'[d] = Held(g, m) /\ \A e \in FDs \ {d} : locks'[e] = locks[e]
  BY DEF LocksOK
<1>3. CASE x = d
  <2>1. locks[y].gen = g /\ m = "EX"
    BY <1>1, <1>2, <1>3 DEF Held
  <2> QED BY <1>1, <1>3, <2>1 DEF Grants
<1>4. CASE y = d
  <2>1. locks[x].gen = g /\ locks[x].mode = "EX"
    BY <1>1, <1>2, <1>4 DEF Held
  <2> QED BY <1>1, <1>4, <2>1 DEF Grants
<1>5. CASE x # d /\ y # d
  BY <1>1, <1>2, <1>5 DEF Exclusive
<1> QED BY <1>3, <1>4, <1>5

\* Giving a lock back disturbs nobody.
LEMMA DropKeeps ==
  ASSUME LocksOK, Exclusive, NEW d \in FDs, locks' = [locks EXCEPT ![d] = Unlocked]
  PROVE  Exclusive'
<1>1. locks'[d] = Unlocked /\ \A e \in FDs \ {d} : locks'[e] = locks[e]
  BY DEF LocksOK
<1> QED BY <1>1 DEF Exclusive, Unlocked

\* What a step of one instance has to establish.
LEMMA OneInstanceStep ==
  ASSUME ~disturbed, LockInv, NEW p \in Instances, OnlyStepOf(p),
         created' = created \/ created' = created + 1, created \in Nat,
         Publishing(p)' => \/ Publishing(p) /\ temp'[p] = temp[p]
                           \/ temp'[p] \notin 1 .. created,
         HasWriter(p)' => Known(writer'[p].gen),
         WriterLock(p)', CallLock(p)', Exclusive',
         (pc[p] \in Closing => writer[p].refs = 0)',
         (pc[p] \in {"publish", "lock"} => call[p] = "writer")'
  PROVE  LockInv'
<1>1. \A g : Known(g) => Known(g)'
  BY DEF Known, OnlyStepOf, Publishing, Actors
<1>2. Undisturbed(p)'
  <2>1. (HasWriter(p) => Known(writer[p].gen))'
    BY <1>1 DEF HasWriter
  <2> QED BY <2>1 DEF Undisturbed
<1>3. ASSUME NEW q \in Instances \ {p} PROVE Undisturbed(q)'
  <2>1. Undisturbed(q)
    BY DEF LockInv
  <2>2. /\ pc'[q] = pc[q] /\ call'[q] = call[q] /\ temp'[q] = temp[q] /\ target'[q] = target[q]
        /\ writer'[q] = writer[q]
        /\ locks'[<<q, "call">>] = locks[<<q, "call">>]
        /\ locks'[<<q, "writer">>] = locks[<<q, "writer">>]
    BY DEF OnlyStepOf, Actors, FDs
  <2>3. WriterLock(q)' /\ CallLock(q)'
    BY <2>1, <2>2 DEF Undisturbed, WriterLock, CallLock, HasWriter, Publishing, Attaching
  <2>4. (HasWriter(q) => Known(writer[q].gen))'
    BY <1>1, <2>1, <2>2 DEF Undisturbed, HasWriter
  <2> QED BY <2>1, <2>2, <2>3, <2>4 DEF Undisturbed
<1>4. CollectorsRest'
  BY LifecycleAssumption DEF LockInv, CollectorsRest, OnlyStepOf, Actors, FDs
<1> QED BY <1>2, <1>3, <1>4 DEF LockInv

\* While the flow keeps its name, the instance keeps its promise to delete it,
\* and no exclusive lock is taken, the promise stays with somebody.
LEMMA PromiseKept ==
  ASSUME ~disturbed, DeletionInv, NEW p \in Instances, OnlyStepOf(p), path' = path,
         \A d \in FDs : locks'[d].mode = "EX" => locks'[d] = locks[d],
         WillDelete(p) => WillDelete(p)'
  PROVE  DeletionInv'
<1>1. ASSUME NEW q \in Instances \ {p}, WillDelete(q) PROVE WillDelete(q)'
  <2>1. /\ pc'[q] = pc[q] /\ call'[q] = call[q] /\ target'[q] = target[q]
        /\ writer'[q] = writer[q]
    BY DEF OnlyStepOf, Actors
  <2>2. \A d \in FDs : locks'[d] = Held(writer[q].gen, "EX") => locks[d] = Held(writer[q].gen, "EX")
    BY DEF Held
  <2> QED BY <1>1, <2>1, <2>2 DEF WillDelete, Attaching
<1> QED BY <1>1 DEF DeletionInv

\* No lock is held on a generation that is yet to be created.
LEMMA LockedIsCreated ==
  ASSUME Parts, ~disturbed, LockInv, TempInv, KnownInv, NEW d \in FDs
  PROVE  locks[d].gen # created + 1
<1>1. created \in Nat
  BY PartsAreTypes DEF HandleTypes
<1>2. PICK q \in Actors, k \in {"call", "writer"} : d = <<q, k>>
  BY DEF FDs
<1>3. CASE q \in Collectors
  <2>1. locks[<<q, "call">>] = Unlocked /\ locks[<<q, "writer">>] = Unlocked
    BY <1>3 DEF LockInv, CollectorsRest
  <2>2. locks[d] = Unlocked
    BY <1>2, <2>1
  <2> QED BY <1>1, <2>2 DEF Unlocked, None
<1>4. CASE q \in Instances /\ k = "writer"
  <2>1. Undisturbed(q) /\ d = <<q, "writer">>
    BY <1>2, <1>4 DEF LockInv
  <2>2. CASE HasWriter(q)
    <3>1. writer[q].gen \in 1 .. created
      BY <2>1, <2>2 DEF Undisturbed, Known
    <3>2. locks[d].gen \in {writer[q].gen, None}
      BY <2>1, <2>2 DEF Undisturbed, WriterLock, HasWriter, Closing, Held, Unlocked
    <3> QED BY <1>1, <3>1, <3>2 DEF None
  <2>3. CASE ~HasWriter(q)
    BY <1>1, <2>1, <2>3 DEF Undisturbed, WriterLock, Unlocked, None
  <2> QED BY <2>2, <2>3
<1>5. CASE q \in Instances /\ k = "call"
  <2>1. CallLock(q) /\ d = <<q, "call">>
    BY <1>2, <1>5 DEF LockInv, Undisturbed
  <2>2. Publishing(q) => temp[q] \in 1 .. created
    BY <1>5 DEF TempInv
  <2>3. Attaching(q) => target[q] \in 1 .. created
    BY <1>5 DEF KnownInv, Known, Attaching
  <2>4. locks[d].gen \in {temp[q], target[q], None} /\ (locks[d].gen = None
          \/ (Publishing(q) /\ locks[d].gen = temp[q])
          \/ (Attaching(q) /\ locks[d].gen = target[q]))
    BY <2>1 DEF CallLock, Held, Unlocked
  <2> QED BY <1>1, <2>2, <2>3, <2>4 DEF None
<1> QED BY <1>2, <1>3, <1>4, <1>5 DEF Actors

\* All that is known while nothing has failed.
Calm == IInv /\ LockInv /\ DeletionInv /\ ~disturbed

\* A step that changes neither locks nor writers: opening, attaching, releasing a reader.
LEMMA QuietStep ==
  ASSUME Calm, NEW p \in Instances, OnlyStepOf(p), UNCHANGED <<locks, writer, path, created>>,
         pc[p] \notin Closing \cup {"publish"}, pc'[p] \notin Closing \cup {"publish"},
         Attaching(p)' <=> Attaching(p), Attaching(p) => target'[p] = target[p],
         pc'[p] = "lock" => call'[p] = "writer"
  PROVE  LockInv' /\ DeletionInv'
<1>1. created \in Nat /\ Undisturbed(p) /\ Exclusive
  BY PartsAreTypes DEF Calm, IInv, HandleTypes, LockInv
<1>2. HasWriter(p)' <=> HasWriter(p)
  BY DEF HasWriter
<1>3. WriterLock(p)'
  BY <1>1, <1>2 DEF Undisturbed, WriterLock, Closing
<1>4. CallLock(p)'
  BY <1>1 DEF Undisturbed, CallLock, Publishing
<1>5. Exclusive'
  BY <1>1 DEF Exclusive
<1>6. HasWriter(p)' => Known(writer'[p].gen)
  BY <1>1, <1>2 DEF Undisturbed
<1>7. LockInv'
  BY <1>1, <1>3, <1>4, <1>5, <1>6, OneInstanceStep DEF Calm, Publishing
<1>8. WillDelete(p) => WillDelete(p)'
  BY DEF WillDelete, Closing
<1> QED BY <1>7, <1>8, PromiseKept DEF Calm

\* The quiet steps.
LEMMA QuietSteps ==
  ASSUME Calm, NEW p \in Instances, ~disturbed',
         \/ openFlow(p) \/ OpenPayload(p) \/ getFlowReader(p)
         \/ AttachReader(p) \/ releaseReader(p)
  PROVE  LockInv' /\ DeletionInv'
<1>1. CallsOK /\ p \in Actors
  BY DEF Calm, IInv, Parts, Actors
<1>2. CASE openFlow(p)
  BY <1>1, <1>2, QuietStep
  DEF openFlow, Throw, domainVars, history, CallsOK, OnlyStepOf, Attaching, Closing, Goto
<1>3. CASE OpenPayload(p)
  BY <1>1, <1>3, QuietStep
  DEF OpenPayload, Throw, domainVars, history, CallsOK, OnlyStepOf, Attaching, Closing, Goto
<1>4. CASE getFlowReader(p)
  BY <1>1, <1>4, QuietStep
  DEF getFlowReader, domainVars, history, CallsOK, OnlyStepOf, Attaching, Closing, Goto
<1>5. CASE AttachReader(p)
  BY <1>1, <1>5, QuietStep
  DEF AttachReader, EndCall, domainVars, history, CallsOK, OnlyStepOf, Attaching, Closing, Goto
<1>6. CASE releaseReader(p)
  BY <1>1, <1>6, QuietStep
  DEF releaseReader, domainVars, callVars, history, CallsOK, OnlyStepOf, Attaching, Closing, Goto
<1> QED BY <1>2, <1>3, <1>4, <1>5, <1>6

\* The removal keeps the exclusive lock, and ends when the name is gone.
LEMMA RemovalKeeps ==
  ASSUME Calm, NEW p \in Instances, RemovalStep(p)
  PROVE  LockInv' /\ DeletionInv'
<1>1. CallsOK /\ p \in Actors /\ AfterRemoval(p) = "erase" /\ created \in Nat
  BY PartsAreTypes DEF Calm, IInv, Parts, Actors, AfterRemoval, HandleTypes
<1>2. Undisturbed(p) /\ Exclusive
  BY DEF Calm, LockInv
<1>3. /\ OnlyStepOf(p) /\ UNCHANGED <<locks, writer, created>>
      /\ pc[p] \in {"remove", "unlinking"} /\ pc'[p] \in {"unlinking", "erase"}
  BY <1>1 DEF RemovalStep, BeginRemoval, Unlink, RemoveDirectory, domainVars, callVars, history,
              CallsOK, OnlyStepOf, Goto
<1>4. WriterLock(p)' /\ HasWriter(p) /\ writer[p].refs = 0
  BY <1>2, <1>3 DEF Undisturbed, WriterLock, HasWriter, Closing
<1>5. CallLock(p)'
  BY <1>2, <1>3 DEF Undisturbed, CallLock, Publishing, Attaching
<1>6. LockInv'
  <2>1. Exclusive'
    BY <1>2, <1>3 DEF Exclusive
  <2>2. HasWriter(p)' => Known(writer'[p].gen)
    BY <1>2, <1>3, <1>4 DEF Undisturbed
  <2> QED BY <1>1, <1>3, <1>4, <1>5, <2>1, <2>2, OneInstanceStep DEF Calm, Publishing
<1>7. path' # None => path' = path
  BY DEF RemovalStep, BeginRemoval, Unlink, RemoveDirectory, domainVars
<1>8. path' # None /\ WillDelete(p) => WillDelete(p)'
  <2>1. CASE BeginRemoval(p)
    BY <1>1, <2>1 DEF BeginRemoval, WillDelete, CallsOK, Goto, domainVars
  <2>2. CASE \E f \in Files : Unlink(p, f)
    BY <1>1, <2>2 DEF Unlink, WillDelete, Attaching, callVars
  <2>3. CASE RemoveDirectory(p)
    BY <1>1, <1>4, <2>3 DEF RemoveDirectory, WillDelete, Attaching
  <2> QED BY <2>1, <2>2, <2>3 DEF RemovalStep
<1>9. DeletionInv'
  BY <1>3, <1>7, <1>8, PromiseKept DEF Calm, DeletionInv
<1> QED BY <1>6, <1>9

\* A reference goes; the last one starts the deletion.
LEMMA ReleaseKeeps ==
  ASSUME Calm, NEW p \in Instances, releaseWriter(p) \/ DestroyInstance(p)
  PROVE  LockInv' /\ DeletionInv'
<1>1. CallsOK /\ p \in Actors /\ created \in Nat /\ HandleTypes
  BY PartsAreTypes DEF Calm, IInv, Parts, Actors, HandleTypes
<1>2. Undisturbed(p) /\ Exclusive
  BY DEF Calm, LockInv
<1>3. /\ OnlyStepOf(p) /\ UNCHANGED <<locks, created, path, call, temp, target>>
      /\ pc[p] = "idle"
  BY <1>1 DEF releaseWriter, DestroyInstance, domainVars, CallsOK, OnlyStepOf, Goto, HandleTypes
<1>4. /\ writer'[p].gen = writer[p].gen
      /\ \/ pc'[p] = "idle" /\ (writer'[p].refs > 0 <=> writer[p].refs > 0)
         \/ pc'[p] = "unlock" /\ writer[p].refs > 0 /\ writer'[p].refs = 0
  BY <1>1 DEF releaseWriter, DestroyInstance, CallsOK, Goto, HandleTypes
<1>5. HasWriter(p)' <=> HasWriter(p)
  BY <1>3, <1>4 DEF HasWriter, Closing
<1>6. WriterLock(p)'
  BY <1>2, <1>3, <1>4, <1>5 DEF Undisturbed, WriterLock, HasWriter, Closing
<1>7. CallLock(p)'
  BY <1>2, <1>3, <1>4 DEF Undisturbed, CallLock, Publishing, Attaching
<1>8. LockInv'
  <2>1. Exclusive'
    BY <1>2, <1>3 DEF Exclusive
  <2>2. HasWriter(p)' => Known(writer'[p].gen)
    BY <1>2, <1>4, <1>5 DEF Undisturbed
  <2>3. (pc[p] \in Closing => writer[p].refs = 0)'
    BY <1>4 DEF Closing
  <2> QED BY <1>1, <1>3, <1>4, <1>6, <1>7, <2>1, <2>2, <2>3, OneInstanceStep DEF Calm, Publishing
<1>9. WillDelete(p) => WillDelete(p)'
  BY <1>3, <1>4 DEF WillDelete, Attaching
<1> QED BY <1>3, <1>8, <1>9, PromiseKept DEF Calm

\* A new generation is locked under its temporary name, where nobody else can be.
LEMMA CreateKeeps ==
  ASSUME Calm, NEW p \in Instances, NEW f \in Formats, createFlowWriter(p, f)
  PROVE  LockInv' /\ DeletionInv'
<1>1. CallsOK /\ LocksOK /\ p \in Actors /\ created \in Nat /\ <<p, "call">> \in FDs
  BY PartsAreTypes DEF Calm, IInv, Parts, Actors, HandleTypes, FDs
<1>2. Undisturbed(p) /\ Exclusive
  BY DEF Calm, LockInv
<1>3. /\ locks' = [locks EXCEPT ![<<p, "call">>] = Held(created + 1, "SH")]
      /\ OnlyStepOf(p) /\ UNCHANGED <<path, writer>> /\ created' = created + 1
      /\ pc[p] = "idle" /\ pc'[p] = "publish" /\ call'[p] = "writer"
      /\ temp'[p] = created + 1
      /\ locks'[<<p, "call">>] = Held(created + 1, "SH")
      /\ \A d \in FDs \ {<<p, "call">>} : locks'[d] = locks[d]
  BY <1>1 DEF createFlowWriter, history, CallsOK, LocksOK, OnlyStepOf, Goto, Locked, Held
<1>4. locks'[<<p, "writer">>] = locks[<<p, "writer">>]
  BY <1>1, <1>3 DEF FDs
<1>5. Exclusive'
  <2>1. \A e \in FDs : locks[e].gen # created + 1
    BY LockedIsCreated DEF Calm, IInv, GenerationInv
  <2>2. Grants(<<p, "call">>, created + 1, "SH")
    BY <2>1 DEF Grants
  <2> QED BY <1>1, <1>2, <1>3, <2>2, GrantKeeps
<1>6. HasWriter(p)' <=> HasWriter(p)
  BY <1>3 DEF HasWriter, Closing
<1>7. LockInv'
  <2>1. WriterLock(p)'
    BY <1>2, <1>3, <1>4, <1>6 DEF Undisturbed, WriterLock
  <2>2. CallLock(p)'
    BY <1>3 DEF CallLock, Publishing
  <2>3. HasWriter(p)' => Known(writer'[p].gen)
    BY <1>2, <1>3, <1>6 DEF Undisturbed
  <2>4. temp'[p] \notin 1 .. created
    BY <1>1, <1>3
  <2>5. (pc[p] \in Closing => writer[p].refs = 0)'
    BY <1>3 DEF Closing
  <2> QED BY <1>1, <1>3, <1>5, <2>1, <2>2, <2>3, <2>4, <2>5, OneInstanceStep DEF Calm
<1>8. \A d \in FDs : locks'[d].mode = "EX" => locks'[d] = locks[d]
  BY <1>3 DEF Held
<1>9. WillDelete(p) => WillDelete(p)'
  BY <1>3 DEF WillDelete, Attaching
<1> QED BY <1>3, <1>7, <1>8, <1>9, PromiseKept DEF Calm

\* Who publishes has the lock already; who comes second gives up the one he had.
LEMMA PublishKeeps ==
  ASSUME Calm, NEW p \in Instances, publishFlowDirectory(p)
  PROVE  LockInv' /\ DeletionInv'
<1>1. CallsOK /\ LocksOK /\ p \in Actors /\ created \in Nat /\ <<p, "call">> \in FDs
  BY PartsAreTypes DEF Calm, IInv, Parts, Actors, HandleTypes, FDs
<1>2. Undisturbed(p) /\ Exclusive /\ call[p] = "writer" /\ pc[p] = "publish"
  BY DEF Calm, LockInv, Undisturbed, publishFlowDirectory
<1>3. OnlyStepOf(p) /\ UNCHANGED <<writer, created, call>> /\ pc'[p] \in {"attach", "open"}
  BY <1>1 DEF publishFlowDirectory, CallsOK, LocksOK, OnlyStepOf, Goto
<1>4. HasWriter(p)' <=> HasWriter(p)
  BY <1>2, <1>3 DEF HasWriter, Closing
<1>5. locks'[<<p, "writer">>] = locks[<<p, "writer">>]
  BY <1>1 DEF publishFlowDirectory, LocksOK, FDs
<1>6. CallLock(p)' /\ Exclusive' /\ \A d \in FDs : locks'[d].mode = "EX" => locks'[d] = locks[d]
  <2>1. CASE path = None
    <3>1. locks' = locks /\ target'[p] = temp[p] /\ pc'[p] = "attach"
      BY <1>1, <2>1 DEF publishFlowDirectory, CallsOK, Goto
    <3> QED BY <1>2, <1>3, <3>1 DEF Undisturbed, CallLock, Publishing, Attaching, Exclusive
  <2>2. CASE path # None
    <3>1. /\ locks' = [locks EXCEPT ![<<p, "call">>] = Unlocked] /\ pc'[p] = "open"
          /\ locks'[<<p, "call">>] = Unlocked
      BY <1>1, <2>2 DEF publishFlowDirectory, CallsOK, LocksOK, Goto
    <3>2. Exclusive'
      BY <1>1, <1>2, <3>1, DropKeeps
    <3>3. CallLock(p)'
      BY <3>1 DEF CallLock, Publishing, Attaching
    <3>4. \A d \in FDs : locks'[d].mode = "EX" => locks'[d] = locks[d]
      BY <1>1, <3>1 DEF LocksOK, Unlocked
    <3> QED BY <3>2, <3>3, <3>4
  <2> QED BY <2>1, <2>2
<1>7. LockInv'
  <2>1. WriterLock(p)'
    BY <1>2, <1>3, <1>4, <1>5 DEF Undisturbed, WriterLock
  <2>2. HasWriter(p)' => Known(writer'[p].gen)
    BY <1>2, <1>3, <1>4 DEF Undisturbed
  <2>3. (pc[p] \in Closing => writer[p].refs = 0)'
    BY <1>3 DEF Closing
  <2> QED BY <1>1, <1>3, <1>6, <2>1, <2>2, <2>3, OneInstanceStep DEF Calm, Publishing
<1>8. CASE path = None
  <2>1. WillDelete(p)'
    BY <1>1, <1>2, <1>8 DEF publishFlowDirectory, WillDelete, Attaching, CallsOK, Goto
  <2> QED BY <1>7, <2>1 DEF DeletionInv
<1>9. CASE path # None
  <2>1. path' = path
    BY <1>9 DEF publishFlowDirectory
  <2>2. WillDelete(p) => WillDelete(p)'
    BY <1>2, <1>3 DEF WillDelete, Attaching
  <2> QED BY <1>3, <1>6, <1>7, <2>1, <2>2, PromiseKept DEF Calm
<1> QED BY <1>8, <1>9

\* The writer that opened an existing flow joins those that share the lock.
LEMMA LockSharedKeeps ==
  ASSUME Calm, NEW p \in Instances, LockShared(p), ~disturbed'
  PROVE  LockInv' /\ DeletionInv'
<1>1. CallsOK /\ LocksOK /\ p \in Actors /\ created \in Nat /\ <<p, "call">> \in FDs
  BY PartsAreTypes DEF Calm, IInv, Parts, Actors, HandleTypes, FDs
<1>2. Undisturbed(p) /\ Exclusive /\ call[p] = "writer" /\ pc[p] = "lock"
  BY DEF Calm, LockInv, Undisturbed, LockShared
<1>3. /\ Grants(<<p, "call">>, target[p], "SH")
      /\ locks' = [locks EXCEPT ![<<p, "call">>] = Held(target[p], "SH")]
      /\ UNCHANGED <<path, created, call, target, temp, writer>>
      /\ pc' = [pc EXCEPT ![p] = "payload"]
  BY DEF LockShared, Throw, domainVars, Goto, Locked, Held
<1>4. /\ OnlyStepOf(p) /\ pc'[p] = "payload"
      /\ locks'[<<p, "call">>] = Held(target[p], "SH")
      /\ \A d \in FDs \ {<<p, "call">>} : locks'[d] = locks[d]
  BY <1>1, <1>3 DEF CallsOK, LocksOK, OnlyStepOf
<1>5. locks'[<<p, "writer">>] = locks[<<p, "writer">>]
  BY <1>1, <1>4 DEF FDs
<1>6. HasWriter(p)' <=> HasWriter(p)
  BY <1>2, <1>3, <1>4 DEF HasWriter, Closing
<1>7. LockInv'
  <2>1. WriterLock(p)'
    BY <1>2, <1>3, <1>4, <1>5, <1>6 DEF Undisturbed, WriterLock
  <2>2. CallLock(p)'
    BY <1>2, <1>3, <1>4 DEF CallLock, Publishing, Attaching
  <2>3. HasWriter(p)' => Known(writer'[p].gen)
    BY <1>2, <1>3, <1>6 DEF Undisturbed
  <2>4. Exclusive'
    BY <1>1, <1>2, <1>3, GrantKeeps
  <2>5. (pc[p] \in Closing => writer[p].refs = 0)'
    BY <1>4 DEF Closing
  <2> QED BY <1>1, <1>3, <1>4, <2>1, <2>2, <2>3, <2>4, <2>5, OneInstanceStep DEF Calm, Publishing
<1>8. \A d \in FDs : locks'[d].mode = "EX" => locks'[d] = locks[d]
  BY <1>4 DEF Held
<1>9. WillDelete(p)'
  BY <1>2, <1>3, <1>4 DEF WillDelete, Attaching
<1> QED BY <1>3, <1>4, <1>7, <1>8, <1>9, PromiseKept DEF Calm

\* The lock passes from the call to the writer, or is closed if there is one already.
LEMMA AttachKeeps ==
  ASSUME Calm, NEW p \in Instances, AttachWriter(p)
  PROVE  LockInv' /\ DeletionInv'
<1>1. /\ CallsOK /\ LocksOK /\ p \in Actors /\ created \in Nat /\ HandleTypes
      /\ <<p, "call">> \in FDs /\ <<p, "writer">> \in FDs
  BY PartsAreTypes DEF Calm, IInv, Parts, Actors, HandleTypes, FDs
<1>2. Undisturbed(p) /\ Exclusive /\ call[p] = "writer" /\ pc[p] = "attach"
  BY DEF Calm, LockInv, Undisturbed, AttachWriter
<1>3. locks[<<p, "call">>] = Held(target[p], "SH") /\ Known(target[p])
  BY <1>2 DEF Undisturbed, CallLock, Publishing, Attaching, Calm, IInv, GenerationInv, KnownInv
<1>4. OnlyStepOf(p) /\ UNCHANGED <<path, created>> /\ pc'[p] = "idle" /\ call'[p] = "none"
  BY <1>1 DEF AttachWriter, EndCall, CallsOK, LocksOK, OnlyStepOf, Goto, HandleTypes
<1>5. CallLock(p)' /\ WriterLock(p)' /\ Exclusive' /\ writer'[p].refs > 0 /\ Known(writer'[p].gen)
  <2>1. CASE writer[p].refs > 0
    <3>1. /\ locks' = [locks EXCEPT ![<<p, "call">>] = Unlocked]
          /\ locks'[<<p, "call">>] = Unlocked
          /\ locks'[<<p, "writer">>] = locks[<<p, "writer">>]
          /\ writer'[p].gen = writer[p].gen /\ writer'[p].refs > 0
      BY <1>1, <2>1 DEF AttachWriter, LocksOK, HandleTypes
    <3>2. Exclusive'
      BY <1>1, <1>2, <3>1, DropKeeps
    <3>3. WriterLock(p)' /\ CallLock(p)'
      BY <1>2, <1>4, <2>1, <3>1
      DEF Undisturbed, WriterLock, CallLock, Publishing, Attaching, HasWriter, Closing
    <3> QED BY <1>2, <2>1, <3>1, <3>2, <3>3 DEF Undisturbed, HasWriter
  <2>2. CASE ~(writer[p].refs > 0)
    <3>1. /\ locks'[<<p, "call">>] = Unlocked
          /\ locks'[<<p, "writer">>] = Held(target[p], "SH")
          /\ \A d \in FDs \ {<<p, "call">>, <<p, "writer">>} : locks'[d] = locks[d]
          /\ writer'[p].gen = target[p] /\ writer'[p].refs = 1
      BY <1>1, <1>3, <2>2 DEF AttachWriter, LocksOK, HandleTypes
    <3>2. WriterLock(p)' /\ CallLock(p)'
      BY <1>4, <3>1 DEF WriterLock, CallLock, Publishing, Attaching, HasWriter, Closing
    <3>3. Exclusive'
      <4>1. SUFFICES ASSUME NEW x \in FDs, NEW y \in FDs, x # y,
                            locks'[x].mode = "EX", locks'[y].mode # "none",
                            locks'[y].gen = locks'[x].gen
                     PROVE  FALSE
        BY DEF Exclusive
      <4>2. x \notin {<<p, "call">>, <<p, "writer">>} /\ locks'[x] = locks[x]
        BY <3>1, <4>1 DEF Held, Unlocked
      <4>3. CASE y = <<p, "writer">>
        BY <1>1, <1>2, <1>3, <3>1, <4>1, <4>2, <4>3 DEF Exclusive, Held
      <4>4. CASE y # <<p, "writer">>
        BY <1>2, <3>1, <4>1, <4>2, <4>4 DEF Exclusive, Unlocked
      <4> QED BY <4>3, <4>4
    <3> QED BY <1>3, <3>1, <3>2, <3>3
  <2> QED BY <2>1, <2>2
<1>6. LockInv'
  BY <1>1, <1>4, <1>5, OneInstanceStep DEF Calm, Publishing, Closing
<1>7. WillDelete(p)'
  BY <1>5 DEF WillDelete
<1> QED BY <1>6, <1>7 DEF DeletionInv

\* Between the two steps of the conversion nobody else has the exclusive lock.
LEMMA UnlockKeeps ==
  ASSUME Calm, NEW p \in Instances, Unlock(p)
  PROVE  LockInv' /\ DeletionInv'
<1>1. /\ CallsOK /\ LocksOK /\ p \in Actors /\ created \in Nat
      /\ <<p, "call">> \in FDs /\ <<p, "writer">> \in FDs
  BY PartsAreTypes DEF Calm, IInv, Parts, Actors, HandleTypes, FDs
<1>2. Undisturbed(p) /\ Exclusive /\ pc[p] = "unlock"
  BY DEF Calm, LockInv, Unlock
<1>3. /\ locks' = [locks EXCEPT ![<<p, "writer">>] = Unlocked]
      /\ locks'[<<p, "writer">>] = Unlocked
      /\ \A d \in FDs \ {<<p, "writer">>} : locks'[d] = locks[d]
      /\ OnlyStepOf(p) /\ UNCHANGED <<path, created, call, temp, target, writer>>
      /\ pc'[p] = "lockExclusive"
  BY <1>1 DEF Unlock, domainVars, CallsOK, LocksOK, OnlyStepOf, Goto
<1>4. locks'[<<p, "call">>] = locks[<<p, "call">>]
  BY <1>1, <1>3
<1>5. LockInv'
  <2>1. WriterLock(p)'
    <3>1. writer'[p].refs = 0
      BY <1>2, <1>3 DEF Undisturbed, Closing
    <3> QED BY <1>3, <3>1 DEF WriterLock
  <2>2. CallLock(p)'
    BY <1>2, <1>3, <1>4 DEF Undisturbed, CallLock, Publishing, Attaching
  <2>3. Exclusive'
    BY <1>1, <1>2, <1>3, DropKeeps
  <2>4. writer'[p].refs = 0 /\ Known(writer'[p].gen)
    BY <1>2, <1>3 DEF Undisturbed, HasWriter, Closing
  <2> QED BY <1>1, <1>3, <2>1, <2>2, <2>3, <2>4, OneInstanceStep DEF Calm, Publishing
<1>6. WillDelete(p)'
  <2>1. locks[<<p, "writer">>] = Held(writer[p].gen, "SH")
    BY <1>2 DEF Undisturbed, WriterLock
  <2>2. \A d \in FDs : locks[d] # Held(writer[p].gen, "EX")
    BY <1>1, <1>2, <2>1 DEF Exclusive, Held
  <2>3. \A d \in FDs : locks'[d] # Held(writer[p].gen, "EX")
    BY <1>3, <2>2 DEF Held, Unlocked
  <2> QED BY <1>3, <2>3 DEF WillDelete
<1> QED BY <1>5, <1>6 DEF DeletionInv

\* A refused exclusive lock: somebody else removes the flow or will.
LEMMA RefusedByAnother ==
  ASSUME Calm, NEW p \in Instances, pc[p] = "lockExclusive", WillDelete(p),
         ~Grants(<<p, "writer">>, writer[p].gen, "EX")
  PROVE  \E q \in Instances \ {p} : WillDelete(q)
<1>1. LocksOK /\ Undisturbed(p) /\ Known(writer[p].gen) /\ created \in Nat
  BY PartsAreTypes DEF Calm, IInv, Parts, LockInv, Undisturbed, HasWriter, Closing, HandleTypes
<1>2. writer[p].refs = 0 /\ \A d \in FDs : locks[d] # Held(writer[p].gen, "EX")
  BY <1>1 DEF WillDelete, Attaching, Undisturbed, Closing
<1>3. PICK e \in FDs \ {<<p, "writer">>} : locks[e].gen = writer[p].gen
  BY DEF Grants
<1>4. locks[e].mode # "EX"
  BY <1>1, <1>2, <1>3 DEF LocksOK, Held
<1>5. writer[p].gen # None /\ locks[e] # Unlocked
  BY <1>1, <1>3 DEF Known, None, Unlocked
<1>6. PICK q \in Actors, k \in {"call", "writer"} : e = <<q, k>>
  BY DEF FDs
<1>7. q \in Instances
  BY <1>5, <1>6 DEF Calm, LockInv, CollectorsRest, Actors
<1>8. Undisturbed(q)
  BY <1>7 DEF Calm, LockInv
<1>9. CASE k = "writer"
  <2>1. q # p
    BY <1>3, <1>6, <1>9
  <2>2. writer[q].refs > 0 \/ pc[q] = "unlock"
    BY <1>4, <1>5, <1>6, <1>8, <1>9 DEF Undisturbed, WriterLock, HasWriter, Closing, Held
  <2> QED BY <1>7, <2>1, <2>2 DEF WillDelete
<1>10. CASE k = "call"
  <2>1. ~Publishing(q)
    BY <1>1, <1>3, <1>6, <1>7, <1>8, <1>10 DEF Undisturbed, CallLock, Held, Known
  <2>2. Attaching(q)
    BY <1>5, <1>6, <1>8, <1>10, <2>1 DEF Undisturbed, CallLock
  <2> QED BY <1>7, <2>2 DEF WillDelete, Attaching
<1> QED BY <1>6, <1>9, <1>10

\* Who gets the exclusive lock removes the flow; who does not leaves it to another.
LEMMA LockExclusiveKeeps ==
  ASSUME Calm, NEW p \in Instances, LockExclusive(p)
  PROVE  LockInv' /\ DeletionInv'
<1> DEFINE granted == Grants(<<p, "writer">>, writer[p].gen, "EX")
<1>1. /\ CallsOK /\ LocksOK /\ p \in Actors /\ created \in Nat
      /\ <<p, "call">> \in FDs /\ <<p, "writer">> \in FDs
  BY PartsAreTypes DEF Calm, IInv, Parts, Actors, HandleTypes, FDs
<1>2. Undisturbed(p) /\ Exclusive /\ pc[p] = "lockExclusive"
  BY DEF Calm, LockInv, LockExclusive
<1>3. /\ UNCHANGED <<path, created, call, temp, target, writer>>
      /\ pc' = [pc EXCEPT ![p] = IF granted THEN "remove" ELSE "erase"]
      /\ granted => locks' = [locks EXCEPT ![<<p, "writer">>] = Held(writer[p].gen, "EX")]
      /\ ~granted => locks' = locks
  BY DEF LockExclusive, domainVars, Goto, Locked, Held
<1>4. /\ OnlyStepOf(p) /\ pc'[p] = IF granted THEN "remove" ELSE "erase"
      /\ locks'[<<p, "writer">>] = IF granted THEN Held(writer[p].gen, "EX")
                                   ELSE locks[<<p, "writer">>]
      /\ locks'[<<p, "call">>] = locks[<<p, "call">>]
  BY <1>1, <1>3 DEF CallsOK, LocksOK, OnlyStepOf
<1>5. LockInv'
  <2>1. WriterLock(p)' /\ HasWriter(p) /\ writer[p].refs = 0
    BY <1>2, <1>3, <1>4 DEF Undisturbed, WriterLock, HasWriter, Closing
  <2>2. CallLock(p)'
    BY <1>2, <1>3, <1>4 DEF Undisturbed, CallLock, Publishing, Attaching
  <2>3. Exclusive'
    <3>1. CASE granted
      BY <1>1, <1>2, <1>3, <3>1, GrantKeeps
    <3>2. CASE ~granted
      BY <1>2, <1>3, <3>2 DEF Exclusive
    <3> QED BY <3>1, <3>2
  <2>4. Known(writer'[p].gen)
    BY <1>2, <1>3, <2>1 DEF Undisturbed
  <2> QED BY <1>1, <1>3, <1>4, <2>1, <2>2, <2>3, <2>4, OneInstanceStep DEF Calm, Publishing
<1>6. CASE granted
  BY <1>4, <1>5, <1>6 DEF DeletionInv, WillDelete
<1>7. CASE ~granted /\ WillDelete(p)
  <2>1. PICK q \in Instances \ {p} : WillDelete(q)
    BY <1>2, <1>7, RefusedByAnother
  <2>2. WillDelete(q)'
    <3>1. q \in Actors /\ pc'[q] = pc[q]
      BY <1>4 DEF OnlyStepOf, Actors
    <3> QED BY <1>3, <1>7, <2>1, <3>1 DEF WillDelete, Attaching
  <2> QED BY <1>5, <2>2 DEF DeletionInv
<1>8. CASE ~granted /\ ~WillDelete(p)
  BY <1>3, <1>4, <1>5, <1>8, PromiseKept DEF Calm
<1> QED BY <1>6, <1>7, <1>8

\* The writer is erased after it has removed the flow or left that to another.
LEMMA EraseKeeps ==
  ASSUME Calm, NEW p \in Instances, EraseWriter(p)
  PROVE  LockInv' /\ DeletionInv'
<1>1. /\ CallsOK /\ LocksOK /\ p \in Actors /\ created \in Nat /\ HandleTypes
      /\ <<p, "call">> \in FDs /\ <<p, "writer">> \in FDs
  BY PartsAreTypes DEF Calm, IInv, Parts, Actors, HandleTypes, FDs
<1>2. Undisturbed(p) /\ Exclusive /\ pc[p] = "erase"
  BY DEF Calm, LockInv, EraseWriter
<1>3. /\ locks' = [locks EXCEPT ![<<p, "writer">>] = Unlocked]
      /\ locks'[<<p, "writer">>] = Unlocked
      /\ \A d \in FDs \ {<<p, "writer">>} : locks'[d] = locks[d]
      /\ OnlyStepOf(p) /\ UNCHANGED <<path, created>>
      /\ pc'[p] = "idle" /\ writer'[p].refs = 0
  BY <1>1 DEF EraseWriter, EndCall, domainVars, CallsOK, LocksOK, OnlyStepOf, Goto, HandleTypes,
              Detached
<1>4. LockInv'
  <2>1. WriterLock(p)' /\ ~HasWriter(p)'
    BY <1>3 DEF WriterLock, HasWriter, Closing
  <2>2. CallLock(p)'
    BY <1>1, <1>2, <1>3 DEF Undisturbed, CallLock, Publishing, Attaching
  <2>3. Exclusive'
    BY <1>1, <1>2, <1>3, DropKeeps
  <2> QED BY <1>1, <1>3, <2>1, <2>2, <2>3, OneInstanceStep DEF Calm, Publishing, Closing
<1>5. \A d \in FDs : locks'[d].mode = "EX" => locks'[d] = locks[d]
  BY <1>3 DEF Unlocked
<1>6. ~WillDelete(p)
  BY <1>2 DEF WillDelete, Attaching, Undisturbed, Closing
<1> QED BY <1>3, <1>4, <1>5, <1>6, PromiseKept DEF Calm

\* Every step keeps both parts, or disturbs.
LEMMA DeletionStep ==
  ASSUME IInv, LockInv, DeletionInv, [Next]_vars
  PROVE  LockInv' /\ DeletionInv'
<1>1. CASE disturbed \/ disturbed'
  <2>1. disturbed' = disturbed \/ disturbed' = TRUE
    <3>1. ASSUME NEW p \in Instances, InstanceStep(p) PROVE disturbed' = disturbed \/ disturbed' = TRUE
      BY <3>1 DEF InstanceStep, RemovalStep, history, publishFlowDirectory, openFlow, LockShared,
         OpenPayload, AttachWriter, AttachReader, Unlock, LockExclusive, EraseWriter, BeginRemoval,
         Unlink, RemoveDirectory, Throw
    <3>2. ASSUME NEW c \in Collectors, CollectorStep(c) PROVE disturbed' = disturbed
      BY <3>2 DEF CollectorStep, RemovalStep, history, Probe, CloseProbe, BeginRemoval, Unlink,
         RemoveDirectory
    <3> QED BY <3>1, <3>2
        DEF Next, vars, history, createFlowWriter, getFlowReader, releaseReader, releaseWriter,
            DestroyInstance, Crash, OpenProbe
  <2>2. disturbed'
    BY <1>1, <2>1
  <2> QED BY <2>2 DEF LockInv, DeletionInv
<1>2. CASE ~disturbed /\ ~disturbed'
  <2>1. Calm
    BY <1>2 DEF Calm
  <2>2. CASE UNCHANGED vars
    BY <2>1, <2>2 DEF Calm, vars, domainVars, callVars, history, LockInv, DeletionInv, CollectorsRest,
       Undisturbed, Exclusive, WriterLock, CallLock, WillDelete, HasWriter, Attaching, Publishing, Known
  <2>3. ASSUME NEW c \in Collectors PROVE ~OpenProbe(c, "gc") /\ ~OpenProbe(c, "isActive") /\ ~CollectorStep(c)
    BY <1>2, <2>1 DEF Calm, LockInv, CollectorsRest, OpenProbe, CollectorStep, Probe, CloseProbe,
                      RemovalStep, BeginRemoval, Unlink, RemoveDirectory
  <2>4. ASSUME NEW p \in Instances PROVE ~Crash(p)
    BY <1>2 DEF Crash
  <2>5. ASSUME NEW p \in Instances, InstanceStep(p) PROVE LockInv' /\ DeletionInv'
    BY <1>2, <2>1, <2>5, PublishKeeps, QuietSteps, LockSharedKeeps, AttachKeeps, UnlockKeeps,
       LockExclusiveKeeps, RemovalKeeps, EraseKeeps DEF InstanceStep
  <2> QED BY <1>2, <2>1, <2>2, <2>3, <2>4, <2>5, CreateKeeps, QuietSteps, ReleaseKeeps DEF Next
<1> QED BY <1>1, <1>2

\* When all writers have been released without a failure, a crash or a probe in
\* between, the flow is gone, whatever the number of instances and generations
\* and however their releases overlap (Instance::releaseWriter, makeExclusive).
THEOREM ReleasedFlowsAreDeleted == Spec => []ReleasedFlowIsDeleted
<1>1. Init => LockInv /\ DeletionInv
  <2>1. SUFFICES ASSUME Init PROVE LockInv
    BY DEF Init, DeletionInv
  <2>2. CollectorsRest /\ Exclusive
    BY <2>1 DEF Init, CollectorsRest, Exclusive, Actors, FDs, Unlocked
  <2>3. ASSUME NEW p \in Instances PROVE Undisturbed(p)
    <3>1. /\ pc[p] = "idle" /\ call[p] = "none" /\ writer[p].refs = 0
          /\ locks[<<p, "call">>] = Unlocked /\ locks[<<p, "writer">>] = Unlocked
      BY <2>1 DEF Init, Actors, FDs, Detached
    <3> QED BY <3>1 DEF Undisturbed, WriterLock, CallLock, HasWriter, Attaching, Publishing, Closing
  <2> QED BY <2>2, <2>3 DEF LockInv
<1>2. IInv /\ (LockInv /\ DeletionInv) /\ [Next]_vars => (LockInv /\ DeletionInv)'
  BY DeletionStep
<1>3. DeletionInv => ReleasedFlowIsDeleted
  BY DEF DeletionInv, ReleasedFlowIsDeleted, NoWriters, WillDelete, Attaching
<1> QED BY <1>1, <1>2, <1>3, IInvHolds, PTL DEF Spec

\* Until something is removed, every writer of every instance writes the one
\* published flow, however the createFlowWriter calls overlap, fail or crash
\* (FlowManager::createOrOpen*, publishFlowDirectory).
THEOREM CreatorsShare == Spec => []CreatorsShareTheFlow
<1>1. IInv => CreatorsShareTheFlow
  BY DEF IInv, SharedInv, OnlyPublished, CreatorsShareTheFlow
<1> QED BY <1>1, IInvHolds, PTL

\* A reader whose data and payload are of two generations, because the flow was
\* replaced while it was opened, is never called valid (isFlowValidImpl).
THEOREM ValidReadersAreConsistent == Spec => []ValidReaderMapsOneGeneration
<1>1. IInv => ValidReaderMapsOneGeneration
  BY DEF IInv, GenerationInv, PayloadInv, ValidReaderMapsOneGeneration, FlowValid
<1> QED BY <1>1, IInvHolds, PTL
=============================================================================
