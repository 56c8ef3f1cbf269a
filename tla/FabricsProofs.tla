---------------------------- MODULE FabricsProofs ----------------------------
(* Proofs about both halves of the fabrics library.  FabricsRC, for any number  *)
(* of targets, endpoints, transfers and faults: after MXL_STATUS_OK no more is  *)
(* outstanding than groups of samples that were posted in part, and a target    *)
(* never has two connections.  FabricsRDM, for any layout of the flows and any  *)
(* number of writes: after MXL_STATUS_OK everything that was posted has been    *)
(* executed, unless a group was posted in part, and what the target commits is  *)
(* the grain or the batch of samples that was transferred.                      *)
EXTENDS FabricsRC, FabricsRDM, FiniteSetTheorems, TLAPS

LinkStates == {"none", "request", "queued", "accepted", "up", "refused"}
Endpoints == [to : Targets, st : EpStates, elapsed : BOOLEAN, pending : Int, flush : Int,
              uncounted : Nat]
RCTargets == [st : TargetStates, peer : Nat, req : SUBSET Nat, ev : Seq(EventKinds), comp : Nat]
Completions == [id : Nat, ok : BOOLEAN]

RCTypes ==
    /\ ep \in Seq(Endpoints)
    /\ link \in Seq(LinkStates) /\ Len(link) = Len(ep)
    /\ wire \in Seq(Nat) /\ Len(wire) = Len(ep)
    /\ cq \in Seq(Completions)
    /\ target \in [Targets -> RCTargets]

\* The states in which the pending count of an endpoint means something.
Open == {"Idle", "Connecting", "Connected"}

\* The completions of an endpoint that wait in a queue.
Queued(q, i) == {k \in 1..Len(q) : q[k].id = i}

\* The writes that are in the fabric or completed and not yet seen never exceed
\* the pending count by more than the writes that were not counted: without
\* those no completion makes it wrap around or reach zero early.
PendingCoversWrites ==
    /\ \A k \in 1..Len(cq) : cq[k].id \in Ids
    /\ \A i \in Ids : ep[i].st \in Open =>
           wire[i] + Cardinality(Queued(cq, i)) <= ep[i].pending + ep[i].uncounted

\* A result survives only between two calls, and OK only while nothing is left.
OkMeansIdle ==
    progress = "OK" => pc = "app" /\ \A i \in Ids : ~endpointHasPendingWork(ep[i])

\* The target of a connection knows its peer and has not been told to leave it.
ConnectionsAreKnown ==
    \A i \in Ids : link[i] \in {"accepted", "up"} =>
        LET tg == target[ep[i].to]
        IN  /\ tg.st # "WaitForConnectionRequest" /\ tg.peer = i
            /\ \A k \in 1..Len(tg.ev) : tg.ev[k] # "shutdown"

\* A request waits at the target it was sent to.
RequestsAreRouted == \A t \in Targets : \A i \in target[t].req : i \in Ids /\ ep[i].to = t

RCInv == RCTypes /\ PendingCoversWrites /\ OkMeansIdle /\ ConnectionsAreKnown /\ RequestsAreRouted

-----------------------------------------------------------------------------
(* --- Sequences by index --------------------------------------------------- *)

\* A function on 1..n is the sequence of its values.
LEMMA SequenceOf ==
  ASSUME NEW S, NEW n \in Nat, NEW f \in [1..n -> S]
  PROVE  f \in Seq(S) /\ Len(f) = n
  OBVIOUS

\* A sequence is a function on its indices.
LEMMA SequenceIsFunction ==
  ASSUME NEW S, NEW s \in Seq(S)
  PROVE  Len(s) \in Nat /\ s \in [1..Len(s) -> S]
  OBVIOUS

\* What appending, replacing and dropping an element leaves.
LEMMA EntryAppended ==
  ASSUME NEW S, NEW s \in Seq(S), NEW x \in S
  PROVE  /\ Append(s, x) \in Seq(S) /\ Len(Append(s, x)) = Len(s) + 1
         /\ \A k \in 1..Len(s) : Append(s, x)[k] = s[k]
         /\ Append(s, x)[Len(s) + 1] = x
  OBVIOUS

LEMMA EntryReplaced ==
  ASSUME NEW S, NEW s \in Seq(S), NEW i \in 1..Len(s), NEW x \in S
  PROVE  [s EXCEPT ![i] = x] \in Seq(S) /\ Len([s EXCEPT ![i] = x]) = Len(s)
  OBVIOUS

LEMMA EntryTaken ==
  ASSUME NEW S, NEW s \in Seq(S), s # <<>>
  PROVE  /\ Head(s) \in S /\ Head(s) = s[1] /\ Len(s) >= 1
         /\ Tail(s) \in Seq(S) /\ Len(Tail(s)) = Len(s) - 1
         /\ \A k \in 1..Len(s) - 1 : Tail(s)[k] = s[k + 1]
  OBVIOUS

-----------------------------------------------------------------------------
(* --- Completions that wait in a queue ------------------------------------- *)

\* The completions of an endpoint are finitely many.
LEMMA QueuedIsFinite ==
  ASSUME NEW q \in Seq(Completions), NEW i
  PROVE  IsFiniteSet(Queued(q, i)) /\ Cardinality(Queued(q, i)) \in Nat
<1>1. Len(q) \in Nat
  OBVIOUS
<1>2. IsFiniteSet(1..Len(q))
  BY <1>1, FS_Interval
<1>3. Queued(q, i) \in SUBSET (1..Len(q))
  BY DEF Queued
<1>4. IsFiniteSet(Queued(q, i))
  BY <1>2, <1>3, FS_Subset
<1> QED
  BY <1>4, FS_CardinalityType

\* A completion that arrives counts for its endpoint and for no other.
LEMMA QueuedAppend ==
  ASSUME NEW q \in Seq(Completions), NEW c \in Completions, NEW i
  PROVE  Cardinality(Queued(Append(q, c), i)) =
             Cardinality(Queued(q, i)) + (IF c.id = i THEN 1 ELSE 0)
<1>0. Len(q) \in Nat /\ Len(q) + 1 \notin Queued(q, i)
  BY DEF Queued
<1>1. Queued(Append(q, c), i) = IF c.id = i THEN Queued(q, i) \cup {Len(q) + 1} ELSE Queued(q, i)
  BY EntryAppended DEF Queued
<1>2. CASE c.id = i
  BY <1>0, <1>1, <1>2, QueuedIsFinite, FS_AddElement
<1>3. CASE c.id # i
  BY <1>1, <1>3, QueuedIsFinite
<1> QED
  BY <1>2, <1>3

\* A completion that is taken counts no longer.
LEMMA QueuedTail ==
  ASSUME NEW q \in Seq(Completions), q # <<>>, NEW i
  PROVE  Cardinality(Queued(q, i)) =
             Cardinality(Queued(Tail(q), i)) + (IF Head(q).id = i THEN 1 ELSE 0)
<1> DEFINE S == Queued(Tail(q), i)
           T == Queued(q, i) \ {1}
           f == [k \in S |-> k + 1]
<1>0. /\ Tail(q) \in Seq(Completions) /\ Len(q) \in Nat /\ Len(q) >= 1
      /\ Len(Tail(q)) = Len(q) - 1 /\ Head(q) = q[1]
      /\ \A k \in 1..Len(q) - 1 : Tail(q)[k] = q[k + 1]
  BY EntryTaken
<1>1. /\ \A k \in S : k \in Nat /\ k + 1 \in T
      /\ \A m \in T : m \in Nat /\ m - 1 \in S
  BY <1>0 DEF Queued
<1>2. f \in Bijection(S, T)
  <2>1. f \in [S -> T]
    BY <1>1
  <2>2. \A a, b \in S : f[a] = f[b] => a = b
    BY <1>1
  <2>3. \A m \in T : \E k \in S : f[k] = m
    <3> TAKE m \in T
    <3>1. m - 1 \in S /\ f[m - 1] = m
      BY <1>1
    <3> QED
      BY <3>1
  <2> QED
    BY <2>1, <2>2, <2>3 DEF Bijection, Injection, Surjection, IsInjective
<1>3. IsFiniteSet(S) /\ IsFiniteSet(Queued(q, i))
  BY <1>0, QueuedIsFinite
<1>4. Cardinality(T) = Cardinality(S)
  BY <1>2, <1>3, FS_Bijection DEF ExistsBijection
<1>5. 1 \in Queued(q, i) <=> Head(q).id = i
  BY <1>0 DEF Queued
<1>6. /\ Cardinality(Queued(q, i)) \in Nat /\ Cardinality(S) \in Nat
      /\ Cardinality(T) = IF 1 \in Queued(q, i) THEN Cardinality(Queued(q, i)) - 1
                                                ELSE Cardinality(Queued(q, i))
  BY <1>0, <1>3, QueuedIsFinite, FS_RemoveElement
<1> QED
  BY <1>4, <1>5, <1>6

-----------------------------------------------------------------------------
(* --- Endpoints and targets ------------------------------------------------ *)

\* What every method of an endpoint but the handling of a completion keeps: its
\* target, and the counts of an endpoint that is not yet shut down.
Becomes(e, f) ==
    /\ f \in Endpoints /\ f.to = e.to
    /\ f.st \in Open => e.st \in Open /\ f.pending = e.pending /\ f.uncounted = e.uncounted

LEMMA EndpointMethods ==
  ASSUME NEW e \in Endpoints
  PROVE  /\ Becomes(e, e)
         /\ Becomes(e, shutdown(e)) /\ Becomes(e, terminate(e)) /\ Becomes(e, activate(e))
         /\ \A event : Becomes(e, consumeEvent(e, event))
<1>1. Becomes(e, e)
  BY DEF Becomes
<1>2. Becomes(e, [e EXCEPT !.st = "Flushing", !.flush = e.pending, !.pending = 0])
  <2> DEFINE f == [e EXCEPT !.st = "Flushing", !.flush = e.pending, !.pending = 0]
  <2>1. e.pending \in Int /\ 0 \in Int /\ "Flushing" \in EpStates
    BY DEF Endpoints, EpStates
  <2>2. f \in Endpoints /\ f.to = e.to /\ f.st = "Flushing"
    BY <2>1 DEF Endpoints
  <2> HIDE DEF f
  <2>3. Becomes(e, f)
    BY <2>2 DEF Becomes, Open
  <2> QED
    BY <2>3 DEF f
<1>3. \A st \in {"Flushing", "Done"} : Becomes(e, [e EXCEPT !.st = st])
  BY DEF Becomes, Endpoints, EpStates, Open
<1>4. e.st \in Open => \A st \in {"Connecting", "Connected"} : Becomes(e, [e EXCEPT !.st = st])
  BY DEF Becomes, Endpoints, EpStates, Open
<1>5. e.st \in Open => Becomes(e, restart(e))
  BY DEF Becomes, Endpoints, EpStates, Open, restart
<1>6. Becomes(e, shutdown(e))
  BY <1>1, <1>2, <1>3 DEF shutdown
<1>7. Becomes(e, terminate(e))
  BY <1>1, <1>3 DEF terminate
<1>8. Becomes(e, activate(e))
  BY <1>1, <1>4 DEF activate, Open
<1>9. ASSUME NEW event PROVE Becomes(e, consumeEvent(e, event))
  BY <1>1, <1>2, <1>3, <1>4, <1>5 DEF consumeEvent, Open
<1> QED
  BY <1>1, <1>6, <1>7, <1>8, <1>9

\* A completion lowers the pending count of a connected endpoint by at most one.
LEMMA CompletionIsCounted ==
  ASSUME NEW e \in Endpoints, NEW ok \in BOOLEAN
  PROVE  LET f == consumeCompletion(e, ok)
         IN  /\ f \in Endpoints /\ f.to = e.to /\ f.st = e.st
             /\ e.st \in Open => f.pending + 1 >= e.pending /\ f.uncounted = e.uncounted
<1> USE DEF Endpoints, EpStates, Open, consumeCompletion, handleCompletionData,
            handleCompletionError, Dec
<1>1. CASE e.st = "Connected"
  BY <1>1
<1>2. CASE e.st = "Flushing"
  BY <1>2
<1>3. CASE e.st \notin {"Connected", "Flushing"}
  BY <1>3
<1> QED
  BY <1>1, <1>2, <1>3

\* Closing endpoints adds one event to the queue of a peer and takes requests
\* back; a target whose peer stays sees nothing.
LEMMA PeersClosed ==
  ASSUME RCTypes, NEW closing
  PROVE  /\ PeerClosed(target, closing) \in [Targets -> RCTargets]
         /\ \A t \in Targets :
                LET old == target[t]
                    new == PeerClosed(target, closing)[t]
                IN  /\ new.st = old.st /\ new.peer = old.peer /\ new.req \subseteq old.req
                    /\ old.peer \notin closing => new.ev = old.ev
<1> DEFINE new(t) == PeerClosed(target, closing)[t]
<1>1. ASSUME NEW t \in Targets
      PROVE  /\ new(t) \in RCTargets
             /\ new(t).st = target[t].st /\ new(t).peer = target[t].peer
             /\ new(t).req \subseteq target[t].req
             /\ target[t].peer \notin closing => new(t).ev = target[t].ev
  <2>1. target[t] \in RCTargets
    BY DEF RCTypes
  <2>2. ASSUME NEW event \in EventKinds PROVE Append(target[t].ev, event) \in Seq(EventKinds)
    BY <2>1 DEF RCTargets
  <2>3. "shutdown" \in EventKinds /\ "error" \in EventKinds
    BY DEF EventKinds
  <2>4. CASE target[t].peer \in closing /\ target[t].st # "WaitForConnectionRequest"
    <3>1. PICK event \in EventKinds : new(t) = [target[t] EXCEPT !.ev = Append(@, event)]
      BY <2>3, <2>4 DEF PeerClosed
    <3>2. Append(target[t].ev, event) \in Seq(EventKinds)
      BY <2>2
    <3> QED
      BY <2>1, <2>4, <3>1, <3>2 DEF RCTargets
  <2>5. CASE ~(target[t].peer \in closing /\ target[t].st # "WaitForConnectionRequest")
    <3>1. new(t) = [target[t] EXCEPT !.req = @ \ closing]
      BY <2>5 DEF PeerClosed
    <3> QED
      BY <2>1, <3>1 DEF RCTargets
  <2> QED
    BY <2>4, <2>5
<1>2. PeerClosed(target, closing) = [t \in Targets |-> new(t)]
  BY DEF PeerClosed
<1> QED
  BY <1>1, <1>2

-----------------------------------------------------------------------------
(* --- What a step must keep ------------------------------------------------ *)

\* An endpoint with its connection and its writes.
LEMMA EndpointAt ==
  ASSUME RCTypes
  PROVE  \A i \in Ids : /\ ep[i] \in Endpoints /\ ep[i].to \in Targets
                       /\ ep[i].pending \in Int /\ ep[i].uncounted \in Nat
                       /\ link[i] \in LinkStates /\ wire[i] \in Nat
<1>1. \A i \in Ids : ep[i] \in Endpoints
  BY DEF RCTypes, Ids
<1>2. \A i \in Ids : link[i] \in LinkStates /\ wire[i] \in Nat
  BY DEF RCTypes, Ids
<1> QED
  BY <1>1, <1>2 DEF Endpoints

\* A count that covers some writes covers fewer.
LEMMA FewerAreCovered ==
  ASSUME NEW w2 \in Nat, NEW w \in Nat, w2 <= w, NEW c \in Nat, NEW p \in Int, NEW u \in Nat, w + c <= p + u
  PROVE  w2 + c <= p + u
  OBVIOUS

\* No completion, nothing new in the fabric: the pending counts still cover it.
LEMMA PendingKept ==
  ASSUME RCInv, RCTypes', Len(ep') = Len(ep), \A i \in Ids : Becomes(ep[i], ep'[i]),
         \A i \in Ids : wire'[i] <= wire[i], cq' = cq
  PROVE  PendingCoversWrites'
<1>1. Ids' = Ids
  BY DEF Ids
<1>2. ASSUME NEW i \in Ids, ep'[i].st \in Open
      PROVE  wire'[i] + Cardinality(Queued(cq', i)) <= ep'[i].pending + ep'[i].uncounted
  <2>1. ep[i].st \in Open /\ ep'[i].pending = ep[i].pending /\ ep'[i].uncounted = ep[i].uncounted
    BY <1>2 DEF Becomes
  <2>2. wire[i] + Cardinality(Queued(cq, i)) <= ep[i].pending + ep[i].uncounted
    BY <2>1 DEF RCInv, PendingCoversWrites
  <2>3. wire[i] \in Nat /\ wire'[i] \in Nat /\ ep[i].pending \in Int /\ ep[i].uncounted \in Nat
        /\ Cardinality(Queued(cq, i)) \in Nat
    <3>1. wire[i] \in Nat /\ ep[i] \in Endpoints /\ Len(ep) = Len(wire)
      BY DEF RCInv, RCTypes, Ids
    <3>2. wire'[i] <= wire[i] /\ wire'[i] \in Nat
      BY <1>2 DEF Ids, RCTypes
    <3> QED
      BY <3>1, <3>2, QueuedIsFinite DEF RCInv, RCTypes, Endpoints
  <2>4. wire'[i] <= wire[i] /\ cq' = cq
    OBVIOUS
  <2>5. wire'[i] + Cardinality(Queued(cq, i)) <= ep[i].pending + ep[i].uncounted
    BY <2>2, <2>3, <2>4, FewerAreCovered
  <2> QED
    BY <2>1, <2>4, <2>5
<1> QED
  BY <1>1, <1>2 DEF PendingCoversWrites, RCInv

\* No connection is made, and no target of one is told anything.
LEMMA ConnectionsKept ==
  ASSUME RCInv, Len(ep') = Len(ep), \A i \in Ids : ep'[i].to = ep[i].to,
         \A i \in Ids : link'[i] \in {"accepted", "up"} =>
             /\ link[i] \in {"accepted", "up"}
             /\ LET old == target[ep[i].to]
                    new == target'[ep[i].to]
                IN  new.st = old.st /\ new.peer = old.peer /\ new.ev = old.ev
  PROVE  ConnectionsAreKnown'
<1>1. Ids' = Ids
  BY DEF Ids
<1> QED
  BY <1>1 DEF RCInv, ConnectionsAreKnown

\* The same while endpoints are closed: what is still connected has a target
\* whose peer is not among them.
LEMMA ConnectionsKeptByClosing ==
  ASSUME RCInv, Len(ep') = Len(ep), \A i \in Ids : ep'[i].to = ep[i].to,
         NEW closing, target' = PeerClosed(target, closing),
         \A i \in Ids : link'[i] \in {"accepted", "up"} =>
             link[i] \in {"accepted", "up"} /\ i \notin closing
  PROVE  ConnectionsAreKnown' /\ RequestsAreRouted'
<1>1. Ids' = Ids /\ RCTypes
  BY DEF Ids, RCInv
<1>2. \A t \in Targets :
          /\ target'[t].st = target[t].st /\ target'[t].peer = target[t].peer
          /\ target'[t].req \subseteq target[t].req
          /\ target[t].peer \notin closing => target'[t].ev = target[t].ev
  BY <1>1, PeersClosed
<1>3. \A i \in Ids : ep[i].to \in Targets
  BY <1>1, EndpointAt
<1>4. ConnectionsAreKnown'
  <2>1. ASSUME NEW i \in Ids, link'[i] \in {"accepted", "up"}
        PROVE  LET tg == target[ep[i].to]
               IN  /\ link[i] \in {"accepted", "up"}
                   /\ target'[ep[i].to].st = tg.st /\ target'[ep[i].to].peer = tg.peer
                   /\ target'[ep[i].to].ev = tg.ev
    <3>1. target[ep[i].to].peer = i
      BY <2>1 DEF RCInv, ConnectionsAreKnown
    <3> QED
      BY <2>1, <3>1, <1>2, <1>3
  <2> QED
    BY <2>1, ConnectionsKept
<1>5. RequestsAreRouted'
  BY <1>1, <1>2 DEF RCInv, RequestsAreRouted
<1> QED
  BY <1>4, <1>5

\* Requests are routed to where they were.
LEMMA RequestsKept ==
  ASSUME RCInv, Len(ep') = Len(ep), \A i \in Ids : ep'[i].to = ep[i].to,
         \A t \in Targets : target'[t].req \subseteq target[t].req
  PROVE  RequestsAreRouted'
<1>1. Ids' = Ids
  BY DEF Ids
<1> QED
  BY <1>1 DEF RCInv, RequestsAreRouted

-----------------------------------------------------------------------------
(* --- The initial state and the calls that make no progress ---------------- *)

LEMMA InitRCInv == Init => RCInv
<1> SUFFICES ASSUME Init PROVE RCInv
  OBVIOUS
<1>1. RCTypes
  BY DEF Init, RCTypes, makeListener, RCTargets, TargetStates
<1>2. Ids = {} /\ Len(cq) = 0
  BY DEF Init, Ids
<1> QED
  BY <1>1, <1>2 DEF Init, RCInv, PendingCoversWrites, OkMeansIdle, ConnectionsAreKnown,
     RequestsAreRouted, makeListener

LEMMA AddTargetKeeps ==
  ASSUME RCInv, mxlFabricsInitiatorAddTarget
  PROVE  RCInv'
<1>1. PICK t \in Targets : addTarget(t)
  BY DEF mxlFabricsInitiatorAddTarget
<1> DEFINE e == newEndpoint(t)
<1>2. e \in Endpoints /\ e.to = t
  BY DEF newEndpoint, Endpoints, EpStates
<1>3. RCTypes /\ Len(ep) \in Nat /\ UNCHANGED <<cq, target>> /\ progress' = "none"
  BY DEF RCInv, RCTypes, mxlFabricsInitiatorAddTarget
<1> DEFINE n == Len(ep) + 1
<1>4. /\ ep' \in Seq(Endpoints) /\ Len(ep') = n /\ ep'[n] = e
      /\ \A i \in Ids : ep'[i] = ep[i]
  BY <1>1, <1>2, <1>3, EntryAppended DEF addTarget, RCTypes, Ids
<1>5. /\ link' \in Seq(LinkStates) /\ Len(link') = n /\ link'[n] = "none"
      /\ \A i \in Ids : link'[i] = link[i]
  BY <1>1, <1>3, EntryAppended DEF addTarget, RCTypes, Ids, LinkStates
<1>6. /\ wire' \in Seq(Nat) /\ Len(wire') = n /\ wire'[n] = 0
      /\ \A i \in Ids : wire'[i] = wire[i]
  BY <1>1, <1>3, EntryAppended DEF addTarget, RCTypes, Ids
<1>7. Ids' = Ids \cup {n} /\ n \notin Ids
  BY <1>3, <1>4 DEF Ids
<1>8. RCTypes'
  BY <1>3, <1>4, <1>5, <1>6 DEF RCTypes
<1>9. PendingCoversWrites'
  <2>1. Queued(cq, n) = {} /\ Cardinality({}) = 0
    BY <1>7, FS_EmptySet DEF RCInv, PendingCoversWrites, Queued
  <2>2. e.pending = 0 /\ e.uncounted = 0
    BY DEF newEndpoint
  <2>3. \A k \in 1..Len(cq') : cq'[k].id \in Ids'
    BY <1>3, <1>7 DEF RCInv, PendingCoversWrites
  <2>4. wire'[n] + Cardinality(Queued(cq', n)) <= ep'[n].pending + ep'[n].uncounted
    <3>1. Cardinality(Queued(cq', n)) = 0
      BY <1>3, <2>1
    <3>2. ep'[n].pending = 0 /\ ep'[n].uncounted = 0 /\ wire'[n] = 0
      BY <1>4, <1>6, <2>2
    <3> QED
      BY <3>1, <3>2
  <2>5. \A i \in Ids : ep'[i].st \in Open =>
            wire'[i] + Cardinality(Queued(cq', i)) <= ep'[i].pending + ep'[i].uncounted
    BY <1>3, <1>4, <1>6 DEF RCInv, PendingCoversWrites
  <2> QED
    BY <1>7, <2>3, <2>4, <2>5 DEF PendingCoversWrites
<1>10. OkMeansIdle'
  BY <1>3 DEF OkMeansIdle
<1>11. ConnectionsAreKnown'
  BY <1>3, <1>4, <1>5, <1>7 DEF RCInv, ConnectionsAreKnown
<1>12. RequestsAreRouted'
  BY <1>3, <1>4, <1>7 DEF RCInv, RequestsAreRouted
<1> QED
  BY <1>8, <1>9, <1>10, <1>11, <1>12 DEF RCInv

\* Endpoints that are closed lose their connections; what they had on the way
\* gets no more.
LEMMA CloseLinksKeeps ==
  ASSUME RCInv, NEW closing \in SUBSET Ids, CloseLinks(closing), cq' = cq, OkMeansIdle',
         wire' \in Seq(Nat), Len(wire') = Len(ep), \A i \in Ids : wire'[i] <= wire[i],
         ep' \in Seq(Endpoints), Len(ep') = Len(ep), \A i \in Ids : Becomes(ep[i], ep'[i])
  PROVE  RCInv'
<1> DEFINE shut == {i \in closing : link[i] # "none"}
<1>0. RCTypes /\ Len(ep) \in Nat
  BY DEF RCInv, RCTypes
<1>1. /\ link' = [i \in Ids |-> IF i \in closing THEN "none" ELSE link[i]]
      /\ target' = PeerClosed(target, shut)
  BY DEF CloseLinks
<1>2. link' \in Seq(LinkStates) /\ Len(link') = Len(ep)
  <2>1. link' \in [1..Len(ep) -> LinkStates]
    BY <1>0, <1>1, EndpointAt DEF Ids, LinkStates
  <2> QED
    BY <1>0, <2>1, SequenceOf
<1>3. target' \in [Targets -> RCTargets]
  BY <1>0, <1>1, PeersClosed
<1>4. RCTypes'
  BY <1>0, <1>2, <1>3 DEF RCTypes
<1>5. PendingCoversWrites'
  BY <1>4, PendingKept
<1>6. ConnectionsAreKnown' /\ RequestsAreRouted'
  <2>1. \A i \in Ids : ep'[i].to = ep[i].to
    BY DEF Becomes
  <2>2. \A i \in Ids : link'[i] \in {"accepted", "up"} =>
            link[i] \in {"accepted", "up"} /\ i \notin shut
    BY <1>1
  <2> QED
    BY <1>1, <2>1, <2>2, ConnectionsKeptByClosing
<1> QED
  BY <1>4, <1>5, <1>6 DEF RCInv

\* Endpoints that are destroyed are closed, and nothing new is on the way.
LEMMA DestroyDroppedKeeps ==
  ASSUME RCInv, NEW events, DestroyDropped(events), cq' = cq, OkMeansIdle',
         ep' \in Seq(Endpoints), Len(ep') = Len(ep), \A i \in Ids : Becomes(ep[i], ep'[i])
  PROVE  RCInv'
<1> DEFINE dropped == {i \in Ids : ep'[i].st # ep[i].st /\ ep'[i].st \in {"Idle", "Done"}}
<1>0. RCTypes /\ Len(ep) \in Nat /\ dropped \in SUBSET Ids
  BY DEF RCInv, RCTypes
<1>1. /\ CloseLinks(dropped)
      /\ wire' = [i \in Ids |-> IF i \in dropped /\ ep'[i].st = "Idle" THEN 0 ELSE wire[i]]
  BY DEF DestroyDropped
<1>2. wire' \in Seq(Nat) /\ Len(wire') = Len(ep) /\ \A i \in Ids : wire'[i] <= wire[i]
  <2>1. wire' \in [1..Len(ep) -> Nat]
    BY <1>0, <1>1, EndpointAt DEF Ids
  <2>2. wire' \in Seq(Nat) /\ Len(wire') = Len(ep)
    BY <1>0, <2>1, SequenceOf
  <2> QED
    BY <1>0, <1>1, <2>2, EndpointAt
<1> QED
  BY <1>0, <1>1, <1>2, CloseLinksKeeps

LEMMA RemoveTargetKeeps ==
  ASSUME RCInv, mxlFabricsInitiatorRemoveTarget
  PROVE  RCInv'
<1>0. RCTypes /\ cq' = cq /\ progress' = "none"
  BY DEF RCInv, mxlFabricsInitiatorRemoveTarget
<1>1. PICK i \in Live :
          /\ ep' = [ep EXCEPT ![i] = shutdown(@)]
          /\ IF ep[i].st = "Connected" THEN CloseLinks({i}) /\ wire' = wire
                                       ELSE DestroyDropped(eq)
  BY DEF mxlFabricsInitiatorRemoveTarget, removeTarget
<1>2. i \in Ids /\ ep[i] \in Endpoints
  BY <1>0, EndpointAt DEF Live
<1>3. /\ ep' \in Seq(Endpoints) /\ Len(ep') = Len(ep)
      /\ \A j \in Ids : Becomes(ep[j], ep'[j])
  <2>1. Becomes(ep[i], shutdown(ep[i])) /\ \A j \in Ids : Becomes(ep[j], ep[j])
    BY <1>0, <1>2, EndpointMethods, EndpointAt
  <2> QED
    BY <1>0, <1>1, <1>2, <2>1 DEF RCTypes, Ids, Becomes
<1>4. OkMeansIdle'
  BY <1>0 DEF OkMeansIdle
<1>5. CASE ep[i].st = "Connected"
  <2>1. CloseLinks({i}) /\ wire' = wire /\ {i} \in SUBSET Ids
    BY <1>1, <1>2, <1>5
  <2>2. wire' \in Seq(Nat) /\ Len(wire') = Len(ep) /\ \A j \in Ids : wire'[j] <= wire[j]
    BY <1>0, <2>1, EndpointAt DEF RCTypes
  <2> QED
    BY <1>0, <1>3, <1>4, <2>1, <2>2, CloseLinksKeeps
<1>6. CASE ep[i].st # "Connected"
  BY <1>0, <1>1, <1>3, <1>4, <1>6, DestroyDroppedKeeps
<1> QED
  BY <1>5, <1>6

\* Writes are posted: what is added at an endpoint is covered by what is added
\* to its counts.
LEMMA PostedWritesKeep ==
  ASSUME RCInv, UNCHANGED <<cq, target, link>>, progress' = "none",
         ep' \in [Ids -> Endpoints], wire' \in [Ids -> Nat],
         \A i \in Ids : /\ ep'[i].to = ep[i].to /\ ep'[i].st = ep[i].st
                        /\ wire'[i] - wire[i] <=
                               (ep'[i].pending - ep[i].pending) + (ep'[i].uncounted - ep[i].uncounted)
  PROVE  RCInv'
<1>0. RCTypes /\ Len(ep) \in Nat
  BY DEF RCInv, RCTypes
<1>1. /\ ep' \in Seq(Endpoints) /\ Len(ep') = Len(ep)
      /\ wire' \in Seq(Nat) /\ Len(wire') = Len(ep)
  BY <1>0, SequenceOf DEF Ids
<1>2. RCTypes' /\ Ids' = Ids
  BY <1>0, <1>1 DEF RCTypes, Ids
<1>3. PendingCoversWrites'
  <2>1. ASSUME NEW i \in Ids, ep'[i].st \in Open
        PROVE  wire'[i] + Cardinality(Queued(cq, i)) <= ep'[i].pending + ep'[i].uncounted
    <3>1. /\ wire[i] \in Nat /\ ep[i].pending \in Int /\ ep[i].uncounted \in Nat
          /\ wire'[i] \in Nat /\ ep'[i].pending \in Int /\ ep'[i].uncounted \in Nat
          /\ Cardinality(Queued(cq, i)) \in Nat
      BY <1>0, EndpointAt, QueuedIsFinite DEF RCTypes, Endpoints
    <3>2. wire[i] + Cardinality(Queued(cq, i)) <= ep[i].pending + ep[i].uncounted
      BY <2>1 DEF RCInv, PendingCoversWrites
    <3>3. wire'[i] - wire[i] <=
              (ep'[i].pending - ep[i].pending) + (ep'[i].uncounted - ep[i].uncounted)
      OBVIOUS
    <3> QED
      BY <3>1, <3>2, <3>3
  <2> QED
    BY <1>2, <2>1 DEF RCInv, PendingCoversWrites
<1>4. ConnectionsAreKnown' /\ RequestsAreRouted'
  BY <1>1, ConnectionsKept, RequestsKept
<1> QED
  BY <1>2, <1>3, <1>4 DEF RCInv, OkMeansIdle

\* A write of a grain counts in the fabric and at its endpoint.
LEMMA TransferGrainKeeps ==
  ASSUME RCInv, mxlFabricsInitiatorTransferGrain
  PROVE  RCInv'
<1>0. RCTypes /\ UNCHANGED <<cq, target, link>> /\ progress' = "none"
  BY DEF RCInv, mxlFabricsInitiatorTransferGrain
<1>1. PICK posted : transferGrain(posted)
  BY DEF mxlFabricsInitiatorTransferGrain
<1>2. ASSUME NEW i \in Ids
      PROVE  /\ ep'[i] \in Endpoints /\ wire'[i] \in Nat
             /\ ep'[i].to = ep[i].to /\ ep'[i].st = ep[i].st
             /\ wire'[i] - wire[i] <=
                    (ep'[i].pending - ep[i].pending) + (ep'[i].uncounted - ep[i].uncounted)
  <2>1. ep[i] \in Endpoints /\ wire[i] \in Nat
    BY <1>0, EndpointAt
  <2>2. CASE i \in posted
    <3>1. ep'[i] = [ep[i] EXCEPT !.pending = @ + 1] /\ wire'[i] = wire[i] + 1
      BY <1>1, <2>2 DEF transferGrain
    <3> QED
      BY <2>1, <3>1 DEF Endpoints
  <2>3. CASE i \notin posted
    <3>1. ep'[i] = ep[i] /\ wire'[i] = wire[i]
      BY <1>1, <2>3 DEF transferGrain
    <3> QED
      BY <2>1, <3>1 DEF Endpoints
  <2> QED
    BY <2>2, <2>3
<1>3. ep' \in [Ids -> Endpoints] /\ wire' \in [Ids -> Nat]
  BY <1>1, <1>2 DEF transferGrain
<1> QED
  BY <1>0, <1>2, <1>3, PostedWritesKeep

\* The writes of a group count at the endpoint when all of them are posted, and
\* are remembered as not counted when they are not.
LEMMA GroupIsPosted ==
  ASSUME RCInv, UNCHANGED <<cq, target, link>>, progress' = "none",
         NEW posted, NEW refused, posted \cap refused = {}, NEW n \in Nat, NEW m \in Nat,
         transferSampleGroup(posted, n, refused, m)
  PROVE  RCInv'
<1>0. RCTypes
  BY DEF RCInv
<1>1. transferSampleGroup(posted, n, refused, m) /\ posted \cap refused = {}
  OBVIOUS
<1>2. ASSUME NEW i \in Ids
      PROVE  /\ ep'[i] \in Endpoints /\ wire'[i] \in Nat
             /\ ep'[i].to = ep[i].to /\ ep'[i].st = ep[i].st
             /\ wire'[i] - wire[i] <=
                    (ep'[i].pending - ep[i].pending) + (ep'[i].uncounted - ep[i].uncounted)
  <2>1. ep[i] \in Endpoints /\ wire[i] \in Nat
    BY <1>0, EndpointAt
  <2>2. CASE i \in posted /\ i \notin refused
    <3>1. ep'[i] = [ep[i] EXCEPT !.pending = @ + n] /\ wire'[i] = wire[i] + n
      BY <1>1, <2>2 DEF transferSampleGroup
    <3> QED
      BY <2>1, <3>1 DEF Endpoints
  <2>3. CASE i \notin posted /\ i \in refused
    <3>1. ep'[i] = [ep[i] EXCEPT !.uncounted = @ + m] /\ wire'[i] = wire[i] + m
      BY <1>1, <2>3 DEF transferSampleGroup
    <3> QED
      BY <2>1, <3>1 DEF Endpoints
  <2>4. CASE i \notin posted /\ i \notin refused
    <3>1. ep'[i] = ep[i] /\ wire'[i] = wire[i]
      BY <1>1, <2>4 DEF transferSampleGroup
    <3> QED
      BY <2>1, <3>1 DEF Endpoints
  <2> QED
    BY <1>1, <2>2, <2>3, <2>4
<1>3. ep' \in [Ids -> Endpoints] /\ wire' \in [Ids -> Nat]
  BY <1>1, <1>2 DEF transferSampleGroup
<1> QED
  BY <1>0, <1>2, <1>3, PostedWritesKeep

LEMMA TransferSampleGroupKeeps ==
  ASSUME RCInv, mxlFabricsInitiatorTransferSamples
  PROVE  RCInv'
<1>1. UNCHANGED <<cq, target, link>> /\ progress' = "none"
  BY DEF mxlFabricsInitiatorTransferSamples
<1>2. PICK n \in 1..GroupWrites, posted \in SUBSET connected :
          \/ transferSampleGroup(posted, n, {}, 0)
          \/ \E i \in connected \ posted, m \in 0..(n - 1) : transferSampleGroup(posted, n, {i}, m)
  BY DEF mxlFabricsInitiatorTransferSamples
<1>3. n \in Nat /\ \A m \in 0..(n - 1) : m \in Nat
  BY <1>2, FabricsAssumption
<1>4. CASE transferSampleGroup(posted, n, {}, 0)
  <2>1. posted \cap {} = {} /\ 0 \in Nat
    OBVIOUS
  <2> QED
    BY <1>1, <1>3, <1>4, <2>1, GroupIsPosted
<1>5. ASSUME NEW i \in connected \ posted, NEW m \in 0..(n - 1),
             transferSampleGroup(posted, n, {i}, m)
      PROVE  RCInv'
  <2>1. posted \cap {i} = {} /\ m \in Nat
    BY <1>3
  <2> QED
    BY <1>1, <1>3, <1>5, <2>1, GroupIsPosted
<1> QED
  BY <1>2, <1>4, <1>5

-----------------------------------------------------------------------------
(* --- The steps of MakeProgress -------------------------------------------- *)

\* All endpoints by one method: the sequence stays one of endpoints.
LEMMA EndpointsMove ==
  ASSUME RCTypes, NEW f, f = [i \in Ids |-> f[i]], \A i \in Ids : Becomes(ep[i], f[i])
  PROVE  f \in Seq(Endpoints) /\ Len(f) = Len(ep)
<1>1. f \in [1..Len(ep) -> Endpoints] /\ Len(ep) \in Nat
  BY DEF Ids, Becomes, RCTypes
<1> QED
  BY <1>1, SequenceOf

\* Endpoints that are activated ask for a connection and for nothing else.
LEMMA ActivationAsks ==
  ASSUME RCTypes, NEW old \in [Ids -> Endpoints],
         link' = [i \in Ids |-> IF activate(old[i]) # old[i] THEN "request" ELSE link[i]]
  PROVE  /\ link' \in Seq(LinkStates) /\ Len(link') = Len(ep)
         /\ \A i \in Ids : link'[i] \in {"accepted", "up"} => link'[i] = link[i]
<1>1. Len(ep) \in Nat /\ link' \in [1..Len(ep) -> LinkStates]
  BY EndpointAt DEF RCTypes, Ids, LinkStates
<1>2. link' \in Seq(LinkStates) /\ Len(link') = Len(ep)
  BY <1>1, SequenceOf
<1> QED
  BY <1>2

\* The steps in which endpoints move, connections are only asked for, and no
\* completion is taken.
LEMMA EndpointStepKeeps ==
  ASSUME RCInv, UNCHANGED <<cq, wire, target>>,
         ep' \in Seq(Endpoints), Len(ep') = Len(ep), \A i \in Ids : Becomes(ep[i], ep'[i]),
         link' \in Seq(LinkStates), Len(link') = Len(ep),
         \A i \in Ids : link'[i] \in {"accepted", "up"} => link'[i] = link[i],
         OkMeansIdle'
  PROVE  RCInv'
<1>0. RCTypes
  BY DEF RCInv
<1>1. RCTypes'
  BY <1>0 DEF RCTypes
<1>2. \A i \in Ids : ep'[i].to = ep[i].to /\ wire'[i] <= wire[i]
  BY <1>0, EndpointAt DEF Becomes
<1>3. PendingCoversWrites'
  BY <1>1, <1>2, PendingKept
<1>4. ConnectionsAreKnown'
  BY <1>2, ConnectionsKept
<1>5. RequestsAreRouted'
  BY <1>2, RequestsKept
<1> QED
  BY <1>1, <1>3, <1>4, <1>5 DEF RCInv

LEMMA MakeProgressKeeps ==
  ASSUME RCInv, makeProgress, UNCHANGED <<cq, wire, target>>
  PROVE  RCInv'
<1>0. RCTypes
  BY DEF RCInv
<1>1. CASE Live = {}
  <2>1. UNCHANGED <<ep, link>> /\ progress' = "INTERRUPTED"
    BY <1>1 DEF makeProgress
  <2>2. \A i \in Ids : Becomes(ep[i], ep'[i])
    BY <1>0, <2>1, EndpointAt, EndpointMethods
  <2> QED
    BY <1>0, <2>1, <2>2, EndpointStepKeeps DEF RCTypes, OkMeansIdle
<1>2. CASE Live # {}
  <2>1. activateIdleEndpoints /\ progress' = "none"
    BY <1>2 DEF makeProgress
  <2>2. \A i \in Ids : Becomes(ep[i], ep'[i])
    BY <1>0, <2>1, EndpointAt, EndpointMethods DEF activateIdleEndpoints
  <2>3. ep' \in Seq(Endpoints) /\ Len(ep') = Len(ep)
    BY <1>0, <2>1, <2>2, EndpointsMove DEF activateIdleEndpoints
  <2>4. /\ link' \in Seq(LinkStates) /\ Len(link') = Len(ep)
        /\ \A i \in Ids : link'[i] \in {"accepted", "up"} => link'[i] = link[i]
    <3>1. ep \in [Ids -> Endpoints]
      BY <1>0 DEF RCTypes, Ids
    <3> QED
      BY <1>0, <2>1, <3>1, ActivationAsks DEF activateIdleEndpoints
  <2> QED
    BY <2>1, <2>2, <2>3, <2>4, EndpointStepKeeps DEF OkMeansIdle
<1> QED
  BY <1>1, <1>2

\* The endpoints after the first completion in the queue.
Completed ==
    IF Head(cq).id \in Live THEN [ep EXCEPT ![Head(cq).id] = consumeCompletion(@, Head(cq).ok)] ELSE ep

\* One completion less and a count that drops by at most one.
LEMMA CountCovers ==
  ASSUME NEW before \in Nat, NEW after \in Nat, NEW taken \in {0, 1}, before = after + taken,
         NEW w \in Nat, NEW p \in Int, NEW q \in Int, NEW u \in Nat,
         q + taken >= p, w + before <= p + u
  PROVE  w + after <= q + u
  OBVIOUS

\* Only the endpoint of the completion changes, and its count by at most one.
LEMMA CompletedEndpoints ==
  ASSUME RCTypes, cq # <<>>, Head(cq).id \in Ids
  PROVE  /\ Completed \in Seq(Endpoints) /\ Len(Completed) = Len(ep)
         /\ \A i \in Ids : /\ Completed[i] \in Endpoints
                           /\ Completed[i].to = ep[i].to /\ Completed[i].st = ep[i].st
         /\ \A i \in Ids : ep[i].st \in Open =>
                /\ Completed[i].pending + (IF Head(cq).id = i THEN 1 ELSE 0) >= ep[i].pending
                /\ Completed[i].uncounted = ep[i].uncounted
<1> DEFINE c == Head(cq)
           g == consumeCompletion(ep[c.id], c.ok)
<1>1. ep \in Seq(Endpoints) /\ c \in Completions /\ \A i \in Ids : ep[i] \in Endpoints /\ ep[i].pending \in Int
  BY EntryTaken, EndpointAt DEF RCTypes
<1>2. /\ g \in Endpoints /\ g.to = ep[c.id].to /\ g.st = ep[c.id].st
      /\ ep[c.id].st \in Open => g.pending + 1 >= ep[c.id].pending /\ g.uncounted = ep[c.id].uncounted
  BY <1>1, CompletionIsCounted DEF Completions
<1>3. Completed = IF c.id \in Live THEN [ep EXCEPT ![c.id] = g] ELSE ep
  BY DEF Completed
<1> HIDE DEF g, c
<1>4. c.id \in 1..Len(ep)
  BY DEF c, Ids
<1>5. CASE c.id \in Live
  <2>1. Completed = [ep EXCEPT ![c.id] = g]
    BY <1>3, <1>5
  <2>2. /\ Completed \in Seq(Endpoints) /\ Len(Completed) = Len(ep)
        /\ \A i \in Ids : Completed[i] = IF i = c.id THEN g ELSE ep[i]
    BY <1>1, <1>2, <1>4, <2>1, EntryReplaced DEF Ids
  <2>3. ASSUME NEW i \in Ids
        PROVE  /\ Completed[i] \in Endpoints
               /\ Completed[i].to = ep[i].to /\ Completed[i].st = ep[i].st
               /\ ep[i].st \in Open => /\ Completed[i].pending + (IF c.id = i THEN 1 ELSE 0) >= ep[i].pending
                                      /\ Completed[i].uncounted = ep[i].uncounted
    <3>1. CASE i = c.id
      BY <1>2, <2>2, <3>1
    <3>2. CASE i # c.id
      BY <1>1, <2>2, <3>2
    <3> QED
      BY <3>1, <3>2
  <2> QED
    BY <2>2, <2>3 DEF c
<1>6. CASE c.id \notin Live
  <2>1. Completed = ep
    BY <1>3, <1>6
  <2>2. ASSUME NEW i \in Ids PROVE ep[i].pending + (IF c.id = i THEN 1 ELSE 0) >= ep[i].pending
    BY <1>1
  <2> QED
    BY <1>1, <2>1, <2>2 DEF c
<1> QED
  BY <1>5, <1>6

\* A completion is taken: it counts no longer in the queue, and at most once at
\* its endpoint.
LEMMA CompletionKeeps ==
  ASSUME RCInv, cq # <<>>, cq' = Tail(cq), UNCHANGED wire
  PROVE  /\ Completed \in Seq(Endpoints) /\ Len(Completed) = Len(ep)
         /\ \A i \in Ids : Completed[i].to = ep[i].to /\ Completed[i].st = ep[i].st
         /\ \A k \in 1..Len(cq') : cq'[k].id \in Ids
         /\ \A i \in Ids : Completed[i].st \in Open =>
                wire'[i] + Cardinality(Queued(cq', i)) <= Completed[i].pending + Completed[i].uncounted
<1>1. RCTypes /\ cq \in Seq(Completions)
  BY DEF RCInv, RCTypes
<1>2. Head(cq).id \in Ids /\ \A k \in 1..Len(cq') : cq'[k].id \in Ids
  BY <1>1, EntryTaken DEF RCInv, PendingCoversWrites
<1>3. /\ Completed \in Seq(Endpoints) /\ Len(Completed) = Len(ep)
      /\ \A i \in Ids : /\ Completed[i] \in Endpoints
                        /\ Completed[i].to = ep[i].to /\ Completed[i].st = ep[i].st
      /\ \A i \in Ids : ep[i].st \in Open =>
             /\ Completed[i].pending + (IF Head(cq).id = i THEN 1 ELSE 0) >= ep[i].pending
             /\ Completed[i].uncounted = ep[i].uncounted
  BY <1>1, <1>2, CompletedEndpoints
<1>4. ASSUME NEW i \in Ids, Completed[i].st \in Open
      PROVE  wire'[i] + Cardinality(Queued(cq', i)) <= Completed[i].pending + Completed[i].uncounted
  <2> DEFINE taken == IF Head(cq).id = i THEN 1 ELSE 0
             p == ep[i].pending
             q == Completed[i].pending
             u == ep[i].uncounted
             before == Cardinality(Queued(cq, i))
             after  == Cardinality(Queued(cq', i))
  <2>1. ep[i].st \in Open
    BY <1>3, <1>4
  <2>2. Completed[i].uncounted = u /\ q + taken >= p
    BY <1>3, <2>1
  <2>3. wire[i] \in Nat /\ p \in Int /\ u \in Nat
    BY <1>1, EndpointAt
  <2>4. q \in Int
    BY <1>3 DEF Endpoints
  <2>5. before \in Nat /\ after \in Nat
    BY <1>1, QueuedIsFinite, EntryTaken
  <2>6. before = after + taken
    BY <1>1, QueuedTail
  <2>7. wire[i] + before <= p + u
    BY <2>1 DEF RCInv, PendingCoversWrites
  <2>8. wire'[i] = wire[i] /\ taken \in {0, 1}
    OBVIOUS
  <2> HIDE DEF taken, p, q, u, before, after
  <2>9. wire[i] + after <= q + u
    BY <2>2, <2>3, <2>4, <2>5, <2>6, <2>7, <2>8, CountCovers
  <2> QED
    BY <2>2, <2>8, <2>9 DEF q, u, after
<1> QED
  BY <1>2, <1>3, <1>4

LEMMA PollCQKeeps ==
  ASSUME RCInv, pollCQ
  PROVE  RCInv'
<1>0. RCTypes /\ UNCHANGED progress /\ pc = "cq"
  BY DEF RCInv, pollCQ
<1>1. OkMeansIdle'
  <2>1. progress # "OK"
    BY <1>0 DEF RCInv, OkMeansIdle
  <2>2. progress' # "OK"
    BY <1>0, <2>1
  <2> QED
    BY <2>2 DEF OkMeansIdle
<1>2. CASE cq = <<>>
  <2>1. ep' = [i \in Ids |-> terminate(ep[i])] /\ cq' = cq /\ DestroyDropped(eq)
    BY <1>2 DEF pollCQ, terminateAll
  <2>2. \A i \in Ids : Becomes(ep[i], ep'[i])
    BY <1>0, <2>1, EndpointAt, EndpointMethods
  <2>3. ep' \in Seq(Endpoints) /\ Len(ep') = Len(ep)
    BY <1>0, <2>1, <2>2, EndpointsMove
  <2> QED
    BY <1>1, <2>1, <2>2, <2>3, DestroyDroppedKeeps
<1>3. CASE cq # <<>>
  <2>1. /\ cq' = Tail(cq) /\ UNCHANGED <<target, link, wire>>
        /\ ep' = IF Head(cq).id \in Live
                 THEN [ep EXCEPT ![Head(cq).id] = consumeCompletion(@, Head(cq).ok)]
                 ELSE ep
    BY <1>3 DEF pollCQ
  <2>2. /\ ep' \in Seq(Endpoints) /\ Len(ep') = Len(ep)
        /\ \A i \in Ids : ep'[i].to = ep[i].to /\ ep'[i].st = ep[i].st
        /\ \A k \in 1..Len(cq') : cq'[k].id \in Ids
        /\ \A i \in Ids : ep'[i].st \in Open =>
               wire'[i] + Cardinality(Queued(cq', i)) <= ep'[i].pending + ep'[i].uncounted
    <3>1. ep' = Completed
      BY <2>1 DEF Completed
    <3> QED
      BY <1>3, <2>1, <3>1, CompletionKeeps
  <2>3. RCTypes'
    BY <1>0, <1>3, <2>1, <2>2, EntryTaken DEF RCTypes
  <2>4. PendingCoversWrites'
    BY <2>2 DEF PendingCoversWrites, Ids
  <2>5. ConnectionsAreKnown' /\ RequestsAreRouted'
    BY <2>1, <2>2, ConnectionsKept, RequestsKept
  <2> QED
    BY <1>1, <2>3, <2>4, <2>5 DEF RCInv
<1> QED
  BY <1>2, <1>3

LEMMA PollEQKeeps ==
  ASSUME RCInv, pollEQ
  PROVE  RCInv'
<1>0. RCTypes /\ UNCHANGED <<cq, progress, pc>> /\ pc = "eq"
  BY DEF RCInv, pollEQ
<1> DEFINE e == Head(eq)
<1>1. ep' = IF e.id \in Live THEN [ep EXCEPT ![e.id] = consumeEvent(@, e.kind)] ELSE ep
  BY DEF pollEQ
<1>2. DestroyDropped(Tail(eq))
  BY DEF pollEQ
<1>3. Live \subseteq Ids
  BY DEF Live
<1>4. /\ ep' \in Seq(Endpoints) /\ Len(ep') = Len(ep)
      /\ \A i \in Ids : Becomes(ep[i], ep'[i])
  <2>1. \A i \in Ids : Becomes(ep[i], ep[i]) /\ Becomes(ep[i], consumeEvent(ep[i], e.kind))
    BY <1>0, EndpointAt, EndpointMethods
  <2>2. CASE e.id \in Live
    <3>1. e.id \in Ids /\ consumeEvent(ep[e.id], e.kind) \in Endpoints
      BY <1>3, <2>1, <2>2 DEF Becomes
    <3> QED
      BY <1>0, <1>1, <2>1, <2>2, <3>1 DEF RCTypes, Ids
  <2>3. CASE e.id \notin Live
    BY <1>0, <1>1, <2>1, <2>3 DEF RCTypes
  <2> QED
    BY <2>2, <2>3
<1>5. OkMeansIdle'
  BY <1>0 DEF RCInv, OkMeansIdle
<1> QED
  BY <1>0, <1>2, <1>4, <1>5, DestroyDroppedKeeps

\* What is no longer in the map has nothing to do.
LEMMA IdleWhenNothingPends ==
  ASSUME progress' = "OK" => pc' = "app" /\ ~hasPendingWork'
  PROVE  OkMeansIdle'
<1>1. \A i \in Ids' : i \notin Live' => ~endpointHasPendingWork(ep'[i])
  BY DEF Live, endpointHasPendingWork
<1> QED
  BY <1>1 DEF OkMeansIdle, hasPendingWork, endpointHasPendingWork

\* The result is OK only when no endpoint that is left has anything to do.
LEMMA FinishProgressKeeps ==
  ASSUME RCInv, finishProgress
  PROVE  RCInv'
<1>0. /\ RCTypes /\ UNCHANGED <<cq, target, link, wire>> /\ pc = "eq" /\ progress # "OK"
      /\ ep' = [i \in Ids |-> IF ep[i].st = "Done" THEN [ep[i] EXCEPT !.st = "Evicted"] ELSE ep[i]]
  BY DEF RCInv, OkMeansIdle, finishProgress, evictDeadEndpoints
<1>1. \A i \in Ids : Becomes(ep[i], ep'[i])
  <2>1. ASSUME NEW e \in Endpoints PROVE Becomes(e, [e EXCEPT !.st = "Evicted"]) /\ Becomes(e, e)
    BY DEF Becomes, Endpoints, EpStates, Open
  <2> QED
    BY <1>0, <2>1, EndpointAt
<1>2. ep' \in Seq(Endpoints) /\ Len(ep') = Len(ep)
  BY <1>0, <1>1, EndpointsMove
<1>3. OkMeansIdle'
  <2>1. progress' = "OK" => pc' = "app" /\ ~hasPendingWork'
    BY <1>0 DEF finishProgress
  <2> QED
    BY <2>1, IdleWhenNothingPends
<1> QED
  BY <1>0, <1>1, <1>2, <1>3, EndpointStepKeeps DEF RCTypes

\* After the wait: another round, or the call returns what the endpoints say.
LEMMA ReturnOrLoopMoves ==
  ASSUME progress # "OK", returnOrLoop
  PROVE  OkMeansIdle'
<1>1. progress' = "OK" => pc' = "app" /\ ~hasPendingWork'
  BY DEF returnOrLoop
<1> QED
  BY <1>1, IdleWhenNothingPends

LEMMA BlockOnCQKeeps ==
  ASSUME RCInv, blockOnCQ
  PROVE  RCInv'
<1>0. RCTypes /\ pc = "block" /\ progress # "OK"
  BY DEF RCInv, OkMeansIdle, blockOnCQ
<1>1. ASSUME cq' = cq, terminateAll, DestroyDropped(eq), returnOrLoop PROVE RCInv'
  <2>1. ep' = [i \in Ids |-> terminate(ep[i])]
    BY <1>1 DEF terminateAll
  <2>2. \A i \in Ids : Becomes(ep[i], ep'[i])
    BY <1>0, <2>1, EndpointAt, EndpointMethods
  <2>3. ep' \in Seq(Endpoints) /\ Len(ep') = Len(ep)
    BY <1>0, <2>1, <2>2, EndpointsMove
  <2>4. OkMeansIdle'
    BY <1>0, <1>1, ReturnOrLoopMoves
  <2> QED
    BY <1>1, <2>2, <2>3, <2>4, DestroyDroppedKeeps
<1>2. ASSUME cq # <<>>, Head(cq).id \in Live, cq' = Tail(cq), UNCHANGED <<target, link, wire>>,
             ep' = [ep EXCEPT ![Head(cq).id] = consumeCompletion(@, Head(cq).ok)], returnOrLoop
      PROVE  RCInv'
  <2>1. /\ ep' \in Seq(Endpoints) /\ Len(ep') = Len(ep)
        /\ \A i \in Ids : ep'[i].to = ep[i].to /\ ep'[i].st = ep[i].st
        /\ \A k \in 1..Len(cq') : cq'[k].id \in Ids
        /\ \A i \in Ids : ep'[i].st \in Open =>
               wire'[i] + Cardinality(Queued(cq', i)) <= ep'[i].pending + ep'[i].uncounted
    <3>1. ep' = Completed
      BY <1>2 DEF Completed
    <3> QED
      BY <1>2, <3>1, CompletionKeeps
  <2>2. RCTypes'
    BY <1>0, <1>2, <2>1, EntryTaken DEF RCTypes
  <2>3. PendingCoversWrites'
    BY <2>1 DEF PendingCoversWrites, Ids
  <2>4. ConnectionsAreKnown' /\ RequestsAreRouted'
    BY <1>2, <2>1, ConnectionsKept, RequestsKept
  <2>5. OkMeansIdle'
    BY <1>0, <1>2, ReturnOrLoopMoves
  <2> QED
    BY <2>2, <2>3, <2>4, <2>5 DEF RCInv
<1>3. ASSUME cq # <<>>, cq' = Tail(cq), UNCHANGED <<ep, link, target, wire, progress>> PROVE RCInv'
  <2>1. RCTypes' /\ Ids' = Ids
    BY <1>0, <1>3, EntryTaken DEF RCTypes, Ids
  <2>2. PendingCoversWrites'
    <3>1. ASSUME NEW i \in Ids, ep[i].st \in Open
          PROVE  wire[i] + Cardinality(Queued(cq', i)) <= ep[i].pending + ep[i].uncounted
      <4>1. /\ ep[i].pending \in Int /\ ep[i].uncounted \in Nat /\ wire[i] \in Nat
            /\ Cardinality(Queued(cq, i)) \in Nat /\ Cardinality(Queued(cq', i)) \in Nat
        BY <1>0, <2>1, EndpointAt, QueuedIsFinite DEF RCTypes
      <4>2. Cardinality(Queued(cq, i)) >= Cardinality(Queued(cq', i))
        <5>1. Cardinality(Queued(cq, i)) =
                  Cardinality(Queued(cq', i)) + (IF Head(cq).id = i THEN 1 ELSE 0)
          BY <1>0, <1>3, QueuedTail DEF RCTypes
        <5> QED
          BY <4>1, <5>1
      <4>3. wire[i] + Cardinality(Queued(cq, i)) <= ep[i].pending + ep[i].uncounted
        BY <3>1 DEF RCInv, PendingCoversWrites
      <4> QED
        BY <4>1, <4>2, <4>3
    <3>2. \A k \in 1..Len(cq') : cq'[k].id \in Ids
      BY <1>0, <1>3, EntryTaken DEF RCInv, RCTypes, PendingCoversWrites
    <3> QED
      BY <1>0, <1>3, <2>1, <3>1, <3>2 DEF PendingCoversWrites
  <2>3. ConnectionsAreKnown' /\ RequestsAreRouted'
    BY <1>0, <1>3, ConnectionsKept, RequestsKept
  <2> QED
    BY <1>0, <1>3, <2>1, <2>2, <2>3 DEF RCInv, OkMeansIdle
<1> QED
  BY <1>1, <1>2, <1>3 DEF blockOnCQ

-----------------------------------------------------------------------------
(* --- The steps of the targets --------------------------------------------- *)

\* The steps that leave the endpoints and their writes alone.
LEMMA TargetStepKeeps ==
  ASSUME RCInv, UNCHANGED <<ep, cq, wire, pc, progress>>,
         link' \in Seq(LinkStates), Len(link') = Len(ep), target' \in [Targets -> RCTargets],
         ConnectionsAreKnown', RequestsAreRouted'
  PROVE  RCInv'
<1>1. RCTypes' /\ Ids' = Ids
  BY DEF RCInv, RCTypes, Ids
<1>2. PendingCoversWrites'
  BY <1>1 DEF RCInv, PendingCoversWrites
<1>3. OkMeansIdle'
  BY <1>1 DEF RCInv, OkMeansIdle, endpointHasPendingWork
<1> QED
  BY <1>1, <1>2, <1>3 DEF RCInv

\* A target that takes a request has no connection, and refuses the others.
LEMMA AcceptRequestKeeps ==
  ASSUME RCInv, NEW t \in Targets, acceptRequest(t), UNCHANGED <<ep, cq, wire, pc, progress>>
  PROVE  RCInv'
<1>0. RCTypes /\ Len(ep) \in Nat /\ Ids' = Ids
  BY DEF RCInv, RCTypes, Ids
<1>1. PICK i \in target[t].req :
          /\ target' = [target EXCEPT ![t] = [makeListener EXCEPT !.st = "WaitForConnection", !.peer = i]]
          /\ link' = [j \in Ids |-> CASE j = i -> "accepted"
                                      [] j # i /\ j \in target[t].req -> "refused"
                                      [] OTHER -> link[j]]
  BY DEF acceptRequest
<1> DEFINE tg == [makeListener EXCEPT !.st = "WaitForConnection", !.peer = i]
<1>2. i \in Ids /\ ep[i].to = t /\ target[t].st = "WaitForConnectionRequest"
  BY DEF RCInv, RequestsAreRouted, acceptRequest
<1>3. /\ tg \in RCTargets /\ tg.st = "WaitForConnection" /\ tg.peer = i
      /\ tg.ev = <<>> /\ tg.req = {}
  <2>1. makeListener \in RCTargets /\ makeListener.ev = <<>> /\ makeListener.req = {}
    BY DEF makeListener, RCTargets, TargetStates
  <2>2. i \in Nat /\ "WaitForConnection" \in TargetStates
    BY <1>2 DEF Ids, TargetStates
  <2> QED
    BY <2>1, <2>2 DEF RCTargets
<1> HIDE DEF tg
<1>4. target' \in [Targets -> RCTargets] /\ target'[t] = tg
      /\ \A u \in Targets : u # t => target'[u] = target[u]
  BY <1>0, <1>1, <1>3 DEF tg, RCTypes
<1>5. link' \in Seq(LinkStates) /\ Len(link') = Len(ep)
  <2>1. \A j \in Ids : link'[j] \in LinkStates
    <3> TAKE j \in Ids
    <3>1. link'[j] \in {"accepted", "refused", link[j]}
      BY <1>1
    <3>2. link[j] \in LinkStates
      BY <1>0, EndpointAt
    <3> QED
      BY <3>1, <3>2 DEF LinkStates
  <2>2. link' \in [1..Len(ep) -> LinkStates]
    BY <1>1, <2>1 DEF Ids
  <2> QED
    BY <1>0, <2>2, SequenceOf
<1>6. ASSUME NEW j \in Ids, link'[j] \in {"accepted", "up"}
      PROVE  LET new == target'[ep[j].to]
             IN  /\ new.st # "WaitForConnectionRequest" /\ new.peer = j
                 /\ \A k \in 1..Len(new.ev) : new.ev[k] # "shutdown"
  <2>1. CASE j = i
    BY <1>2, <1>3, <1>4, <2>1
  <2>2. CASE j # i
    <3>1. link[j] \in {"accepted", "up"}
      BY <1>1, <1>6, <2>2
    <3>2. ep[j].to # t /\ ep[j].to \in Targets
      BY <1>0, <1>2, <3>1, EndpointAt DEF RCInv, ConnectionsAreKnown
    <3> QED
      BY <1>4, <3>1, <3>2 DEF RCInv, ConnectionsAreKnown
  <2> QED
    BY <2>1, <2>2
<1>7. ConnectionsAreKnown'
  BY <1>0, <1>6 DEF ConnectionsAreKnown
<1>8. RequestsAreRouted'
  BY <1>0, <1>3, <1>4 DEF RCInv, RequestsAreRouted
<1> QED
  BY <1>4, <1>5, <1>7, <1>8, TargetStepKeeps

\* A target that takes events and completions keeps its connection, unless it
\* is told to leave one that is no longer up.
LEMMA TargetReadsKeep ==
  ASSUME RCInv, NEW t \in Targets, awaitConnected(t) \/ readConnected(t),
         UNCHANGED <<ep, cq, wire, pc, progress>>
  PROVE  RCInv'
<1>0. RCTypes /\ Ids' = Ids /\ link' = link
  BY DEF RCInv, RCTypes, Ids, awaitConnected, readConnected
<1> DEFINE old == target[t]
           new == target'[t]
<1>1. old \in RCTargets
  BY <1>0 DEF RCTypes
<1>2. /\ target' \in [Targets -> RCTargets] /\ \A u \in Targets : u # t => target'[u] = target[u]
      /\ new.req \subseteq old.req
      /\ \/ /\ old.st # "WaitForConnectionRequest" /\ new.st # "WaitForConnectionRequest"
            /\ new.peer = old.peer
            /\ new.ev = old.ev \/ (old.ev # <<>> /\ new.ev = Tail(old.ev))
         \/ old.ev # <<>> /\ Head(old.ev) = "shutdown"
  <2>1. CASE awaitConnected(t)
    <3>1. /\ target' = [target EXCEPT ![t].ev = Tail(@),
                                      ![t].st = IF Head(old.ev) = "connected" THEN "Connected" ELSE @]
          /\ old.st = "WaitForConnection" /\ old.ev # <<>>
      BY <2>1 DEF awaitConnected
    <3>2. Tail(old.ev) \in Seq(EventKinds)
      BY <1>1, <3>1, EntryTaken DEF RCTargets
    <3>3. /\ new \in RCTargets /\ new.ev = Tail(old.ev) /\ new.peer = old.peer /\ new.req = old.req
          /\ new.st \in {"WaitForConnection", "Connected"}
      BY <1>0, <1>1, <3>1, <3>2 DEF RCTypes, RCTargets, TargetStates
    <3> QED
      BY <1>0, <3>1, <3>3 DEF RCTypes
  <2>2. CASE readConnected(t) /\ old.ev # <<>> /\ Head(old.ev) = "shutdown"
    <3>1. target' = [target EXCEPT ![t] = makeListener]
      BY <2>2 DEF readConnected
    <3>2. makeListener \in RCTargets /\ makeListener.req = {}
      BY DEF makeListener, RCTargets, TargetStates
    <3> QED
      BY <1>0, <2>2, <3>1, <3>2 DEF RCTypes
  <2>3. CASE readConnected(t) /\ ~(old.ev # <<>> /\ Head(old.ev) = "shutdown")
    <3> DEFINE rest == IF old.ev = <<>> THEN <<>> ELSE Tail(old.ev)
    <3>1. old.st = "Connected"
      BY <2>3 DEF readConnected
    <3>2. PICK n \in {0, 1} :
              n <= old.comp /\ target' = [target EXCEPT ![t].ev = rest, ![t].comp = @ - n]
      BY <2>3 DEF readConnected
    <3>3. rest \in Seq(EventKinds) /\ old.comp - n \in Nat
      BY <1>1, <3>2, EntryTaken DEF RCTargets
    <3> HIDE DEF rest
    <3>4. /\ new \in RCTargets /\ new.ev = rest /\ new.peer = old.peer /\ new.req = old.req
          /\ new.st = old.st
      BY <1>0, <1>1, <3>2, <3>3 DEF RCTypes, RCTargets
    <3>5. rest = old.ev \/ (old.ev # <<>> /\ rest = Tail(old.ev))
      BY DEF rest
    <3> QED
      BY <1>0, <3>1, <3>2, <3>4, <3>5 DEF RCTypes
  <2> QED
    BY <2>1, <2>2, <2>3
<1>3. ASSUME NEW i \in Ids, link[i] \in {"accepted", "up"}
      PROVE  LET tg == target'[ep[i].to]
             IN  /\ tg.st # "WaitForConnectionRequest" /\ tg.peer = i
                 /\ \A k \in 1..Len(tg.ev) : tg.ev[k] # "shutdown"
  <2>1. /\ target[ep[i].to].st # "WaitForConnectionRequest" /\ target[ep[i].to].peer = i
        /\ \A k \in 1..Len(target[ep[i].to].ev) : target[ep[i].to].ev[k] # "shutdown"
    BY <1>3 DEF RCInv, ConnectionsAreKnown
  <2>2. CASE ep[i].to = t
    <3>0. old.ev \in Seq(EventKinds)
      BY <1>1 DEF RCTargets
    <3>1. old.ev # <<>> => Head(old.ev) # "shutdown"
      <4>1. old.ev # <<>> => 1 \in 1..Len(old.ev) /\ Head(old.ev) = old.ev[1]
        BY <3>0, EntryTaken
      <4> QED
        BY <2>1, <2>2, <4>1
    <3>2. /\ new.st # "WaitForConnectionRequest" /\ new.peer = old.peer
          /\ new.ev = old.ev \/ (old.ev # <<>> /\ new.ev = Tail(old.ev))
      BY <1>2, <3>1
    <3>3. \A k \in 1..Len(new.ev) : new.ev[k] # "shutdown"
      <4>1. CASE new.ev = old.ev
        BY <2>1, <2>2, <4>1
      <4>2. CASE old.ev # <<>> /\ new.ev = Tail(old.ev)
        <5>1. \A k \in 1..Len(new.ev) : k + 1 \in 1..Len(old.ev) /\ new.ev[k] = old.ev[k + 1]
          BY <3>0, <4>2, EntryTaken
        <5> QED
          BY <2>1, <2>2, <5>1
      <4> QED
        BY <3>2, <4>1, <4>2
    <3> QED
      BY <2>1, <2>2, <3>2, <3>3
  <2>3. CASE ep[i].to # t
    BY <1>0, <1>2, <2>1, <2>3, EndpointAt
  <2> QED
    BY <2>2, <2>3
<1>4. ConnectionsAreKnown'
  BY <1>0, <1>3 DEF ConnectionsAreKnown
<1>5. RequestsAreRouted'
  BY <1>0, <1>2 DEF RCInv, RequestsAreRouted
<1> QED
  BY <1>0, <1>2, <1>4, <1>5, TargetStepKeeps DEF RCTypes

-----------------------------------------------------------------------------
(* --- The steps of the fabric ---------------------------------------------- *)

LEMMA RouteRequestKeeps ==
  ASSUME RCInv, NEW i \in Ids, RouteRequest(i)
  PROVE  RCInv'
<1> DEFINE t == ep[i].to
<1>0. /\ RCTypes /\ Ids' = Ids /\ t \in Targets /\ i \in Nat /\ target[t] \in RCTargets
      /\ UNCHANGED <<ep, cq, wire, pc, progress>>
  BY EndpointAt DEF RCInv, RCTypes, Ids, RouteRequest
<1>1. /\ link' \in Seq(LinkStates) /\ Len(link') = Len(ep)
      /\ \A j \in Ids : link'[j] \in {"accepted", "up"} => link'[j] = link[j]
  <2>1. PICK new \in {"queued", "refused"} : link' = [link EXCEPT ![i] = new]
    BY DEF RouteRequest
  <2> QED
    BY <1>0, <2>1 DEF RCTypes, Ids, LinkStates
<1>2. /\ target' \in [Targets -> RCTargets]
      /\ \A u \in Targets :
             /\ target'[u].st = target[u].st /\ target'[u].peer = target[u].peer
             /\ target'[u].ev = target[u].ev
             /\ target'[u].req \subseteq target[u].req \cup (IF u = t THEN {i} ELSE {})
  <2>1. CASE target' = [target EXCEPT ![t].req = @ \cup {i}]
    <3>1. [target[t] EXCEPT !.req = @ \cup {i}] \in RCTargets
      BY <1>0 DEF RCTargets
    <3>2. target' = [target EXCEPT ![t] = [target[t] EXCEPT !.req = @ \cup {i}]]
      BY <2>1
    <3> QED
      BY <1>0, <3>1, <3>2 DEF RCTypes, RCTargets
  <2>2. CASE target' = target
    BY <1>0, <2>2 DEF RCTypes
  <2> QED
    BY <2>1, <2>2 DEF RouteRequest
<1>3. ConnectionsAreKnown'
  <2>1. \A j \in Ids : ep[j].to \in Targets
    BY <1>0, EndpointAt
  <2> QED
    BY <1>0, <1>1, <1>2, <2>1, ConnectionsKept
<1>4. RequestsAreRouted'
  BY <1>0, <1>2 DEF RCInv, RequestsAreRouted
<1> QED
  BY <1>0, <1>1, <1>2, <1>3, <1>4, TargetStepKeeps

LEMMA ReportRefusalKeeps ==
  ASSUME RCInv, NEW i \in Ids, ReportRefusal(i)
  PROVE  RCInv'
<1>0. RCTypes /\ UNCHANGED <<ep, cq, wire, pc, progress, target>>
  BY DEF RCInv, ReportRefusal
<1>1. /\ link' \in Seq(LinkStates) /\ Len(link') = Len(ep)
      /\ \A j \in Ids : link'[j] \in {"accepted", "up"} => link'[j] = link[j]
  BY <1>0 DEF ReportRefusal, RCTypes, Ids, LinkStates
<1>2. ConnectionsAreKnown' /\ RequestsAreRouted'
  BY <1>0, <1>1, ConnectionsKept, RequestsKept
<1> QED
  BY <1>0, <1>1, <1>2, TargetStepKeeps DEF RCTypes

\* The connection that is established is the one that was accepted.
LEMMA EstablishKeeps ==
  ASSUME RCInv, NEW i \in Ids, Establish(i)
  PROVE  RCInv'
<1> DEFINE t == ep[i].to
<1>0. /\ RCTypes /\ Ids' = Ids /\ t \in Targets /\ target[t] \in RCTargets
      /\ UNCHANGED <<ep, cq, wire, pc, progress>> /\ link[i] = "accepted"
  BY EndpointAt DEF RCInv, RCTypes, Ids, Establish
<1>1. /\ link' \in Seq(LinkStates) /\ Len(link') = Len(ep)
      /\ \A j \in Ids : link'[j] \in {"accepted", "up"} => link[j] \in {"accepted", "up"}
  BY <1>0 DEF Establish, RCTypes, Ids, LinkStates
<1> DEFINE new == [target[t] EXCEPT !.ev = Append(@, "connected")]
<1>2. /\ new \in RCTargets /\ new.st = target[t].st /\ new.peer = target[t].peer
      /\ new.req = target[t].req /\ new.ev = Append(target[t].ev, "connected")
  <2>1. target[t].ev \in Seq(EventKinds) /\ "connected" \in EventKinds
    BY <1>0 DEF RCTargets, EventKinds
  <2>2. Append(target[t].ev, "connected") \in Seq(EventKinds)
    BY <2>1, EntryAppended
  <2> QED
    BY <1>0, <2>2 DEF RCTargets
<1>3. target' = [target EXCEPT ![t] = new]
  BY DEF Establish
<1> HIDE DEF new
<1>4. /\ target' \in [Targets -> RCTargets] /\ target'[t] = new
      /\ \A u \in Targets : u # t => target'[u] = target[u]
  BY <1>0, <1>2, <1>3 DEF RCTypes
<1>5. ASSUME NEW j \in Ids, link'[j] \in {"accepted", "up"}
      PROVE  LET tg == target'[ep[j].to]
             IN  /\ tg.st # "WaitForConnectionRequest" /\ tg.peer = j
                 /\ \A k \in 1..Len(tg.ev) : tg.ev[k] # "shutdown"
  <2>1. /\ target[ep[j].to].st # "WaitForConnectionRequest" /\ target[ep[j].to].peer = j
        /\ \A k \in 1..Len(target[ep[j].to].ev) : target[ep[j].to].ev[k] # "shutdown"
    BY <1>1, <1>5 DEF RCInv, ConnectionsAreKnown
  <2>2. CASE ep[j].to = t
    <3>1. target[t].ev \in Seq(EventKinds) /\ "connected" \in EventKinds
      BY <1>0 DEF RCTargets, EventKinds
    <3>2. \A k \in 1..Len(new.ev) : new.ev[k] # "shutdown"
      BY <1>2, <2>1, <2>2, <3>1, EntryAppended
    <3> QED
      BY <1>2, <1>4, <2>1, <2>2, <3>2
  <2>3. CASE ep[j].to # t
    BY <1>0, <1>4, <2>1, <2>3, EndpointAt
  <2> QED
    BY <2>2, <2>3
<1>6. ConnectionsAreKnown'
  BY <1>0, <1>5 DEF ConnectionsAreKnown
<1>7. RequestsAreRouted'
  BY <1>0, <1>2, <1>4 DEF RCInv, RequestsAreRouted
<1> QED
  BY <1>0, <1>1, <1>4, <1>6, <1>7, TargetStepKeeps

\* A write that leaves the fabric becomes a completion: the sum stays.
LEMMA WriteEndsKeeps ==
  ASSUME RCInv, NEW i \in Ids, NEW ok \in BOOLEAN, wire[i] > 0,
         wire' = [wire EXCEPT ![i] = @ - 1], cq' = Append(cq, [id |-> i, ok |-> ok]),
         UNCHANGED <<ep, pc, progress, link>>,
         target' \in [Targets -> RCTargets],
         \A u \in Targets : /\ target'[u].st = target[u].st /\ target'[u].peer = target[u].peer
                            /\ target'[u].ev = target[u].ev /\ target'[u].req = target[u].req
  PROVE  RCInv'
<1>0. RCTypes /\ Ids' = Ids /\ \A j \in Ids : ep[j].to \in Targets
  BY EndpointAt DEF RCInv, Ids
<1> DEFINE c == [id |-> i, ok |-> ok]
<1>1. c \in Completions /\ c.id = i
  BY <1>0 DEF Completions, Ids
<1> HIDE DEF c
<1>2. cq' = Append(cq, c) /\ cq' \in Seq(Completions)
  BY <1>0, <1>1, EntryAppended DEF c, RCTypes
<1>3. /\ wire[i] \in Nat /\ wire' \in Seq(Nat) /\ Len(wire') = Len(ep)
      /\ \A j \in Ids : wire'[j] = IF j = i THEN wire[i] - 1 ELSE wire[j]
  <2>1. wire[i] \in Nat /\ wire[i] - 1 \in Nat
    BY <1>0, EndpointAt
  <2> QED
    BY <1>0, <2>1 DEF RCTypes, Ids
<1>4. RCTypes'
  BY <1>0, <1>2, <1>3 DEF RCTypes
<1>5. PendingCoversWrites'
  <2>1. \A k \in 1..Len(cq') : cq'[k].id \in Ids
    <3>1. cq \in Seq(Completions) /\ \A k \in 1..Len(cq) : cq[k].id \in Ids
      BY <1>0 DEF RCInv, RCTypes, PendingCoversWrites
    <3> QED
      BY <1>1, <1>2, <3>1, EntryAppended
  <2>2. ASSUME NEW j \in Ids, ep[j].st \in Open
        PROVE  wire'[j] + Cardinality(Queued(cq', j)) <= ep[j].pending + ep[j].uncounted
    <3>1. /\ ep[j].pending \in Int /\ ep[j].uncounted \in Nat /\ wire[j] \in Nat
          /\ Cardinality(Queued(cq, j)) \in Nat /\ Cardinality(Queued(cq', j)) \in Nat
      BY <1>0, <1>2, EndpointAt, QueuedIsFinite DEF RCTypes
    <3>2. Cardinality(Queued(cq', j)) = Cardinality(Queued(cq, j)) + (IF i = j THEN 1 ELSE 0)
      BY <1>0, <1>1, <1>2, QueuedAppend DEF RCTypes
    <3>3. wire[j] + Cardinality(Queued(cq, j)) <= ep[j].pending + ep[j].uncounted
      BY <2>2 DEF RCInv, PendingCoversWrites
    <3>4. wire'[j] = IF j = i THEN wire[j] - 1 ELSE wire[j]
      BY <1>3
    <3> QED
      BY <3>1, <3>2, <3>3, <3>4
  <2> QED
    BY <1>0, <2>1, <2>2 DEF PendingCoversWrites
<1>6. OkMeansIdle'
  BY <1>0 DEF RCInv, OkMeansIdle, endpointHasPendingWork
<1>7. ConnectionsAreKnown' /\ RequestsAreRouted'
  BY <1>0, ConnectionsKept, RequestsKept
<1> QED
  BY <1>4, <1>5, <1>6, <1>7 DEF RCInv

LEMMA CompleteWriteKeeps ==
  ASSUME RCInv, NEW i \in Ids, CompleteWrite(i)
  PROVE  RCInv'
<1> DEFINE t == ep[i].to
<1>0. RCTypes /\ t \in Targets /\ target[t] \in RCTargets
  BY EndpointAt DEF RCInv, RCTypes
<1>1. PICK n \in {0, 1} : target' = [target EXCEPT ![t] = [target[t] EXCEPT !.comp = @ + n]]
  BY DEF CompleteWrite
<1>2. /\ target' \in [Targets -> RCTargets]
      /\ \A u \in Targets : /\ target'[u].st = target[u].st /\ target'[u].peer = target[u].peer
                            /\ target'[u].ev = target[u].ev /\ target'[u].req = target[u].req
  <2>1. ASSUME NEW e \in RCTargets PROVE [e EXCEPT !.comp = @ + n] \in RCTargets
    BY <2>1 DEF RCTargets
  <2> QED
    BY <1>0, <1>1, <2>1 DEF RCTypes, RCTargets
<1> QED
  BY <1>2, WriteEndsKeeps DEF CompleteWrite

LEMMA FailOrFlushKeeps ==
  ASSUME RCInv, NEW i \in Ids, FailWrite(i) \/ FlushWrite(i)
  PROVE  RCInv'
<1>0. target \in [Targets -> RCTargets]
  BY DEF RCInv, RCTypes
<1>1. PICK ok \in BOOLEAN : /\ wire[i] > 0 /\ wire' = [wire EXCEPT ![i] = @ - 1]
                            /\ cq' = Append(cq, [id |-> i, ok |-> ok])
                            /\ UNCHANGED <<ep, pc, progress, link, target>>
  BY DEF FailWrite, FlushWrite
<1> QED
  BY <1>0, <1>1, WriteEndsKeeps

LEMMA LoseLinkKeeps ==
  ASSUME RCInv, NEW i \in Ids, LoseLink(i)
  PROVE  RCInv'
<1>0. /\ RCTypes /\ UNCHANGED <<ep, cq, wire, pc, progress>>
      /\ link' = [link EXCEPT ![i] = "none"] /\ target' = PeerClosed(target, {i})
  BY DEF RCInv, LoseLink
<1>1. link' \in Seq(LinkStates) /\ Len(link') = Len(ep)
  BY <1>0 DEF RCTypes, Ids, LinkStates
<1>2. \A j \in Ids : link'[j] \in {"accepted", "up"} => link[j] \in {"accepted", "up"} /\ j \notin {i}
  BY <1>0 DEF RCTypes, Ids
<1>3. ConnectionsAreKnown' /\ RequestsAreRouted'
  BY <1>0, <1>2, ConnectionsKeptByClosing
<1>4. target' \in [Targets -> RCTargets]
  BY <1>0, PeersClosed
<1> QED
  BY <1>0, <1>1, <1>3, <1>4, TargetStepKeeps

\* Only an idle endpoint counts the time, and it has something to do.
LEMMA IdleTimeKeeps ==
  ASSUME RCInv, NEW i \in Ids, IdleTimeElapses(i)
  PROVE  RCInv'
<1>0. /\ RCTypes /\ UNCHANGED <<cq, pc, progress, target, link, wire>> /\ ep[i].st = "Idle"
      /\ ep' = [ep EXCEPT ![i] = [ep[i] EXCEPT !.elapsed = TRUE]]
  BY DEF RCInv, IdleTimeElapses
<1> DEFINE new == [ep[i] EXCEPT !.elapsed = TRUE]
<1>1. Becomes(ep[i], new)
  BY <1>0, EndpointAt DEF Becomes, Endpoints, Open
<1> HIDE DEF new
<1>2. /\ ep' \in Seq(Endpoints) /\ Len(ep') = Len(ep)
      /\ \A j \in Ids : Becomes(ep[j], ep'[j])
  <2>1. \A j \in Ids : Becomes(ep[j], ep[j])
    BY <1>0, EndpointAt, EndpointMethods
  <2>2. ep' = [ep EXCEPT ![i] = new] /\ new \in Endpoints
    BY <1>0, <1>1 DEF new, Becomes
  <2>0. ep \in Seq(Endpoints)
    BY <1>0 DEF RCTypes
  <2>3. ep' \in Seq(Endpoints) /\ Len(ep') = Len(ep)
    BY <2>0, <2>2, EntryReplaced DEF Ids
  <2>4. \A j \in Ids : ep'[j] = IF j = i THEN new ELSE ep[j]
    BY <2>0, <2>2 DEF Ids
  <2> QED
    BY <1>1, <2>1, <2>3, <2>4
<1>3. OkMeansIdle'
  <2>1. endpointHasPendingWork(ep[i])
    BY <1>0 DEF endpointHasPendingWork
  <2>2. progress # "OK"
    BY <2>1 DEF RCInv, OkMeansIdle
  <2> QED
    BY <1>0, <2>2 DEF OkMeansIdle
<1> QED
  BY <1>0, <1>2, <1>3, EndpointStepKeeps DEF RCTypes

-----------------------------------------------------------------------------
(* --- What holds of every run ---------------------------------------------- *)

LEMMA NextRCInv ==
  ASSUME RCInv, [Next]_vars
  PROVE  RCInv'
<1>1. CASE mxlFabricsInitiatorAddTarget
  BY <1>1, AddTargetKeeps
<1>2. CASE mxlFabricsInitiatorRemoveTarget
  BY <1>2, RemoveTargetKeeps
<1>3. CASE mxlFabricsInitiatorTransferGrain
  BY <1>3, TransferGrainKeeps
<1>9. CASE mxlFabricsInitiatorTransferSamples
  BY <1>9, TransferSampleGroupKeeps
<1>4. CASE mxlFabricsInitiatorMakeProgress \/ blockOnCQZero \/ startOver
  <2>1. makeProgress /\ UNCHANGED <<cq, wire, target>>
    BY <1>4 DEF mxlFabricsInitiatorMakeProgress, blockOnCQZero, startOver
  <2> QED
    BY <2>1, MakeProgressKeeps
<1>5. CASE Initiator
  BY <1>4, <1>5, PollCQKeeps, PollEQKeeps, FinishProgressKeeps, BlockOnCQKeeps DEF Initiator
<1>6. ASSUME NEW t \in Targets, mxlFabricsTargetReadGrain(t) PROVE RCInv'
  <2>1. /\ acceptRequest(t) \/ awaitConnected(t) \/ readConnected(t)
        /\ UNCHANGED <<ep, cq, wire, pc, progress>>
    BY <1>6 DEF mxlFabricsTargetReadGrain
  <2> QED
    BY <2>1, AcceptRequestKeeps, TargetReadsKeep
<1>7. ASSUME NEW i \in Ids,
             FabricStep(i) \/ FlushWrite(i) \/ FailWrite(i) \/ LoseLink(i) \/ IdleTimeElapses(i)
      PROVE  RCInv'
  BY <1>7, RouteRequestKeeps, ReportRefusalKeeps, EstablishKeeps, CompleteWriteKeeps,
     FailOrFlushKeeps, LoseLinkKeeps, IdleTimeKeeps DEF FabricStep
<1>8. CASE UNCHANGED vars
  <2>1. RCTypes' /\ PendingCoversWrites'
    BY <1>8 DEF vars, RCInv, RCTypes, PendingCoversWrites, Ids
  <2>2. OkMeansIdle' /\ ConnectionsAreKnown' /\ RequestsAreRouted'
    BY <1>8 DEF vars, RCInv, OkMeansIdle, ConnectionsAreKnown, RequestsAreRouted, Ids,
       endpointHasPendingWork
  <2> QED
    BY <2>1, <2>2 DEF RCInv
<1> QED
  BY <1>1, <1>2, <1>3, <1>4, <1>5, <1>6, <1>7, <1>8, <1>9 DEF Next

LEMMA SpecRCInv == Spec => []RCInv
  BY InitRCInv, NextRCInv, PTL DEF Spec

(* After MXL_STATUS_OK no more writes of an endpoint that stayed connected are  *)
(* in flight or wait in the completion queue than the groups that were posted   *)
(* to it in part (RCInitiator::makeProgress, the pending count of               *)
(* RCInitiatorEndpoint and transferSamples, which adds to it after the last     *)
(* post): none when every group was posted whole.  This is so whatever grains   *)
(* and samples are transferred and whatever is added, removed, lost, restarted  *)
(* or failed.                                                                   *)
THEOREM TransfersAreDelivered == Spec => []OkMeansDelivered
<1>1. RCInv => OkMeansDelivered
  <2> SUFFICES ASSUME RCInv, progress = "OK",
                      NEW i \in Live, ep[i].st = "Connected", link[i] = "up"
               PROVE  wire[i] + Cardinality(Queued(cq, i)) <= ep[i].uncounted
    BY DEF OkMeansDelivered, Queued
  <2>1. RCTypes /\ i \in Ids
    BY DEF RCInv, Live
  <2>2. /\ ep[i].pending \in Int /\ ep[i].uncounted \in Nat /\ wire[i] \in Nat
        /\ Cardinality(Queued(cq, i)) \in Nat
    BY <2>1, EndpointAt, QueuedIsFinite DEF RCTypes
  <2>3. ep[i].pending = 0
    BY <2>1 DEF RCInv, OkMeansIdle, endpointHasPendingWork
  <2>4. wire[i] + Cardinality(Queued(cq, i)) <= ep[i].pending + ep[i].uncounted
    BY <2>1 DEF RCInv, PendingCoversWrites, Open
  <2> QED
    BY <2>2, <2>3, <2>4
<1> QED
  BY <1>1, SpecRCInv, PTL

(* A target destroys its listener when it accepts a request and makes it again  *)
(* only when its connection is shut down: it never serves two endpoints.        *)
THEOREM TargetsServeOneInitiator == Spec => []OneInitiatorPerTarget
<1>1. RCInv => OneInitiatorPerTarget
  BY DEF RCInv, ConnectionsAreKnown, OneInitiatorPerTarget, Live
<1> QED
  BY <1>1, SpecRCInv, PTL

-----------------------------------------------------------------------------
\* The connectionless initiator: FabricsRDM.

\* What is posted but not executed, and what is completed but not seen, by token.
Writes(q, t) == {k \in 1..Len(q) : q[k].token = t}

\* A queue, whatever its entries are, that carries tokens that were given out.
IsQueue(q) == Len(q) \in Nat /\ q \in Seq({q[k] : k \in 1..Len(q)})
Given(q, n) == \A k \in 1..Len(q) : q[k].token \in 1..n

\* Outstanding writes of a target are counted, unless a group was posted in part.
WritesAreCounted ==
    remote.st # "Absent" /\ "partial" \notin disturbed =>
        Cardinality(Writes(net, remote.token)) + Cardinality(Writes(cq, remote.token)) <= remote.pending

RDMTypes ==
    /\ src \in [head : Nat, valid : Nat, bad : SUBSET Nat]
    /\ remote \in [st : {"Absent", "Idle", "Activated"}, token : Nat, pending : Int, entry : Nat]
    /\ app \in [pc : {"setup", "read", "transfer", "progress", "exit"}, adds : Nat, index : Nat,
                start : Nat, end : Nat, got : Nat]
    /\ IsQueue(net) /\ Given(net, app.adds) /\ IsQueue(cq) /\ Given(cq, app.adds)

\* OK is the last word only about a target that has nothing to do.
OkMeansNothingPending ==
    /\ progress = "OK" /\ remote.st # "Absent" => ~targetHasPendingWork(remote)
    /\ app.pc = "setup" /\ remote.st = "Absent" => progress # "OK"

\* Data is read and transferred only for a target that is there.
TargetIsThere ==
    /\ remote.st # "Absent" => remote.token \in 1..app.adds
    /\ app.pc \in {"read", "transfer", "progress"} => remote.st # "Absent"

RDMInv == RDMTypes /\ WritesAreCounted /\ OkMeansNothingPending /\ TargetIsThere

-----------------------------------------------------------------------------
\* A sequence of any set is a queue, and a queue is a sequence of what is in it.
LEMMA QueueOf ==
  ASSUME NEW S, NEW q \in Seq(S)
  PROVE  IsQueue(q)
<1>1. Len(q) \in Nat /\ q \in [1..Len(q) -> {q[k] : k \in 1..Len(q)}]
  OBVIOUS
<1> QED
  BY <1>1 DEF IsQueue

LEMMA QueueIn ==
  ASSUME NEW q, IsQueue(q), NEW S, \A k \in 1..Len(q) : q[k] \in S
  PROVE  q \in Seq(S)
<1>1. Len(q) \in Nat /\ q \in [1..Len(q) -> S]
  BY DEF IsQueue
<1> QED
  BY <1>1

LEMMA WritesAreFinite ==
  ASSUME NEW q, IsQueue(q), NEW t
  PROVE  IsFiniteSet(Writes(q, t)) /\ Cardinality(Writes(q, t)) \in Nat
<1>1. IsFiniteSet(1..Len(q))
  BY FS_Interval DEF IsQueue
<1>2. Writes(q, t) \in SUBSET (1..Len(q))
  BY DEF Writes
<1>3. IsFiniteSet(Writes(q, t))
  BY <1>1, <1>2, FS_Subset
<1> QED
  BY <1>3, FS_CardinalityType

\* Nothing carries the next token yet.
LEMMA NextToken ==
  ASSUME NEW q, NEW n \in Nat, Given(q, n)
  PROVE  Given(q, n + 1) /\ Writes(q, n + 1) = {}
  BY DEF Given, Writes

\* Posting adds at most what is posted.
LEMMA ConcatWrites ==
  ASSUME NEW q, IsQueue(q), NEW r, IsQueue(r), NEW t, NEW n, Given(q, n), Given(r, n)
  PROVE  /\ IsQueue(q \o r) /\ Given(q \o r, n)
         /\ Cardinality(Writes(q \o r, t)) <= Cardinality(Writes(q, t)) + Len(r)
<1> DEFINE S == {q[k] : k \in 1..Len(q)} \cup {r[k] : k \in 1..Len(r)}
<1>1. q \in Seq(S) /\ r \in Seq(S) /\ Len(q) \in Nat /\ Len(r) \in Nat
  BY QueueIn DEF IsQueue
<1> HIDE DEF S
<1>2. /\ q \o r \in Seq(S) /\ Len(q \o r) = Len(q) + Len(r)
      /\ \A k \in 1..Len(q) : (q \o r)[k] = q[k]
      /\ \A k \in Len(q) + 1..Len(q) + Len(r) : (q \o r)[k] = r[k - Len(q)]
  BY <1>1
<1>3. IsQueue(q \o r)
  BY <1>2, QueueOf
<1>4. Given(q \o r, n)
  <2> SUFFICES ASSUME NEW k \in 1..Len(q \o r) PROVE (q \o r)[k].token \in 1..n
    BY DEF Given
  <2>1. CASE k \in 1..Len(q)
    BY <1>2, <2>1 DEF Given
  <2>2. CASE k \in Len(q) + 1..Len(q) + Len(r)
    <3>1. k - Len(q) \in 1..Len(r)
      BY <1>1, <2>2
    <3> QED
      BY <1>2, <2>2, <3>1 DEF Given
  <2> QED
    BY <1>1, <1>2, <2>1, <2>2
<1>5. Cardinality(Writes(q \o r, t)) <= Cardinality(Writes(q, t)) + Len(r)
  <2> DEFINE new == Len(q) + 1..Len(q) + Len(r)
  <2>1. IsFiniteSet(new) /\ Cardinality(new) = Len(r)
    <3>1. Len(q) + 1 \in Int /\ Len(q) + Len(r) \in Int
      BY <1>1
    <3>2. /\ IsFiniteSet(new)
          /\ Cardinality(new) = IF Len(q) + 1 > Len(q) + Len(r) THEN 0
                                ELSE Len(q) + Len(r) - (Len(q) + 1) + 1
      BY <3>1, FS_Interval
    <3> QED
      BY <1>1, <3>2
  <2>2. Writes(q \o r, t) \in SUBSET (Writes(q, t) \cup new)
    BY <1>1, <1>2 DEF Writes
  <2>3. IsFiniteSet(Writes(q, t)) /\ Cardinality(Writes(q, t)) \in Nat
    BY WritesAreFinite
  <2> HIDE DEF new
  <2>4. /\ IsFiniteSet(Writes(q, t) \cup new) /\ IsFiniteSet(Writes(q, t) \cap new)
        /\ Cardinality(Writes(q, t) \cup new)
             = Cardinality(Writes(q, t)) + Cardinality(new) - Cardinality(Writes(q, t) \cap new)
    BY <2>1, <2>3, FS_Union, FS_Intersection
  <2>5. Cardinality(Writes(q, t) \cap new) \in Nat /\ Cardinality(Writes(q, t) \cup new) \in Nat
    BY <2>4, FS_CardinalityType
  <2>6. /\ Cardinality(Writes(q \o r, t)) <= Cardinality(Writes(q, t) \cup new)
        /\ Cardinality(Writes(q \o r, t)) \in Nat
    BY <2>2, <2>4, <1>3, FS_Subset, WritesAreFinite
  <2> QED
    BY <2>1, <2>3, <2>4, <2>5, <2>6, <1>1
<1> QED
  BY <1>3, <1>4, <1>5

\* A completion adds one for its token.
LEMMA AppendWrites ==
  ASSUME NEW q, IsQueue(q), NEW c, NEW t, NEW n, Given(q, n), c.token \in 1..n
  PROVE  /\ IsQueue(Append(q, c)) /\ Given(Append(q, c), n)
         /\ Cardinality(Writes(Append(q, c), t)) =
                Cardinality(Writes(q, t)) + (IF c.token = t THEN 1 ELSE 0)
<1> DEFINE S == {q[k] : k \in 1..Len(q)} \cup {c}
<1>1. q \in Seq(S) /\ c \in S /\ Len(q) \in Nat
  BY QueueIn DEF IsQueue
<1> HIDE DEF S
<1>2. /\ Append(q, c) \in Seq(S) /\ Len(Append(q, c)) = Len(q) + 1
      /\ \A k \in 1..Len(q) : Append(q, c)[k] = q[k]
      /\ Append(q, c)[Len(q) + 1] = c
  BY <1>1
<1>3. IsQueue(Append(q, c))
  BY <1>2, QueueOf
<1>4. Given(Append(q, c), n)
  BY <1>1, <1>2 DEF Given
<1>5. /\ Writes(Append(q, c), t) = IF c.token = t THEN Writes(q, t) \cup {Len(q) + 1} ELSE Writes(q, t)
      /\ Len(q) + 1 \notin Writes(q, t)
  BY <1>1, <1>2 DEF Writes
<1>6. IsFiniteSet(Writes(q, t)) /\ Cardinality(Writes(q, t)) \in Nat
  BY WritesAreFinite
<1>7. Cardinality(Writes(q, t) \cup {Len(q) + 1}) = Cardinality(Writes(q, t)) + 1
  BY <1>5, <1>6, FS_AddElement
<1>8. Cardinality(Writes(Append(q, c), t)) = Cardinality(Writes(q, t)) + (IF c.token = t THEN 1 ELSE 0)
  BY <1>5, <1>6, <1>7
<1> QED
  BY <1>3, <1>4, <1>8

\* What is taken counts no longer.
LEMMA TailWrites ==
  ASSUME NEW q, IsQueue(q), q # <<>>, NEW t, NEW n, Given(q, n)
  PROVE  /\ IsQueue(Tail(q)) /\ Given(Tail(q), n) /\ Head(q).token \in 1..n
         /\ Cardinality(Writes(q, t)) =
                Cardinality(Writes(Tail(q), t)) + (IF Head(q).token = t THEN 1 ELSE 0)
<1> DEFINE S == {q[k] : k \in 1..Len(q)}
<1>1. q \in Seq(S) /\ Len(q) \in Nat
  BY DEF IsQueue
<1> HIDE DEF S
<1>2. /\ Tail(q) \in Seq(S) /\ Len(q) >= 1 /\ Len(Tail(q)) = Len(q) - 1 /\ Head(q) = q[1]
      /\ \A k \in 1..Len(q) - 1 : Tail(q)[k] = q[k + 1]
  BY <1>1
<1>3. IsQueue(Tail(q)) /\ Given(Tail(q), n) /\ Head(q).token \in 1..n
  <2>1. IsQueue(Tail(q))
    BY <1>2, QueueOf
  <2>2. \A k \in 1..Len(q) - 1 : k + 1 \in 1..Len(q)
    BY <1>1
  <2>3. Given(Tail(q), n)
    BY <1>2, <2>2 DEF Given
  <2>4. 1 \in 1..Len(q)
    BY <1>1, <1>2
  <2> QED
    BY <1>2, <2>1, <2>3, <2>4 DEF Given
<1> DEFINE A == Writes(Tail(q), t)
           B == Writes(q, t) \ {1}
           f == [k \in A |-> k + 1]
<1>4. /\ \A k \in A : k \in Nat /\ k + 1 \in B
      /\ \A m \in B : m \in Nat /\ m - 1 \in A
  BY <1>1, <1>2 DEF Writes
<1>5. f \in Bijection(A, B)
  <2>1. f \in [A -> B]
    BY <1>4
  <2>2. \A a, b \in A : f[a] = f[b] => a = b
    BY <1>4
  <2>3. \A m \in B : \E k \in A : f[k] = m
    <3> TAKE m \in B
    <3>1. m - 1 \in A /\ f[m - 1] = m
      BY <1>4
    <3> QED
      BY <3>1
  <2> QED
    BY <2>1, <2>2, <2>3 DEF Bijection, Injection, Surjection, IsInjective
<1>6. IsFiniteSet(A) /\ IsFiniteSet(Writes(q, t))
  BY <1>3, WritesAreFinite
<1>7. Cardinality(B) = Cardinality(A)
  BY <1>5, <1>6, FS_Bijection DEF ExistsBijection
<1>8. 1 \in Writes(q, t) <=> Head(q).token = t
  BY <1>1, <1>2 DEF Writes
<1>9. /\ Cardinality(Writes(q, t)) \in Nat /\ Cardinality(A) \in Nat
      /\ Cardinality(B) = IF 1 \in Writes(q, t) THEN Cardinality(Writes(q, t)) - 1
                                                ELSE Cardinality(Writes(q, t))
  BY <1>3, <1>6, WritesAreFinite, FS_RemoveElement
<1>10. Cardinality(Writes(q, t)) =
          Cardinality(Writes(Tail(q), t)) + (IF Head(q).token = t THEN 1 ELSE 0)
  BY <1>7, <1>8, <1>9
<1> QED
  BY <1>3, <1>10

-----------------------------------------------------------------------------
\* The ring of entries is never empty.
LEMMA EntryCountPositive == EntryCount \in Nat /\ EntryCount >= 1
<1>1. LenDst \in Nat /\ Count \in Nat /\ Count >= 1 /\ LenDst + Count - 1 >= Count
  BY TransferAssumption DEF TransferAssumption
<1>2. ASSUME NEW a \in Nat, NEW b \in Nat, b >= 1, a >= b PROVE a \div b \in Nat /\ a \div b >= 1
  BY <1>2
<1> QED
  BY <1>1, <1>2 DEF EntryCount

LEMMA NextEntry ==
  ASSUME NEW e, e + 1 \in Nat
  PROVE  (e + 1) % EntryCount \in Nat
<1>1. ASSUME NEW a \in Nat, NEW b \in Nat, b >= 1 PROVE a % b \in Nat
  BY <1>1
<1> QED
  BY <1>1, EntryCountPositive

LEMMA InitRDMInv ==
  ASSUME RDMInit
  PROVE  RDMInv
<1>1. IsQueue(<<>>) /\ Given(<<>>, app.adds)
  BY DEF IsQueue, Given
<1>2. RDMTypes
  BY <1>1, TransferAssumption DEF RDMInit, RDMTypes, TransferAssumption
<1> QED
  BY <1>2 DEF RDMInit, RDMInv, WritesAreCounted, OkMeansNothingPending, TargetIsThere

\* The steps that leave the target and both queues alone.
LEMMA AppStepKeeps ==
  ASSUME RDMInv, UNCHANGED <<remote, net, cq>>, app'.adds = app.adds,
         app' \in [pc : {"setup", "read", "transfer", "progress", "exit"}, adds : Nat, index : Nat,
                   start : Nat, end : Nat, got : Nat],
         src' \in [head : Nat, valid : Nat, bad : SUBSET Nat],
         disturbed \subseteq disturbed', progress' \in {progress, "none"},
         app'.pc = "setup" => app.pc = "setup",
         app'.pc \in {"read", "transfer", "progress"} => app.pc \in {"read", "transfer", "progress"}
  PROVE  RDMInv'
<1>1. RDMTypes'
  BY DEF RDMInv, RDMTypes, Given, IsQueue
<1>2. WritesAreCounted'
  BY DEF RDMInv, WritesAreCounted, Writes
<1>3. OkMeansNothingPending'
  BY DEF RDMInv, OkMeansNothingPending, targetHasPendingWork
<1>4. TargetIsThere'
  BY DEF RDMInv, TargetIsThere
<1> QED
  BY <1>1, <1>2, <1>3, <1>4 DEF RDMInv

LEMMA SourceWritesKeeps ==
  ASSUME RDMInv, SourceWrites
  PROVE  RDMInv'
<1>1. UNCHANGED <<remote, net, cq, app, progress, disturbed>>
  BY DEF SourceWrites, appVars, memVars
<1>2. src' \in [head : Nat, valid : Nat, bad : SUBSET Nat]
  <2>1. /\ src \in [head : Nat, valid : Nat, bad : SUBSET Nat]
        /\ Slices \in Nat /\ Count \in Nat
    BY TransferAssumption DEF RDMInv, RDMTypes, TransferAssumption
  <2>2. CASE src' = [src EXCEPT !.valid = @ + 1]
    BY <2>1, <2>2
  <2>3. CASE src' = [src EXCEPT !.valid = Slices, !.bad = @ \cup {src.head}]
    BY <2>1, <2>3
  <2>4. CASE src' = [src EXCEPT !.head = @ + 1, !.valid = 0]
    <3>1. src.head + 1 \in Nat /\ 0 \in Nat
      BY <2>1
    <3> QED
      BY <2>1, <2>4, <3>1
  <2>5. CASE src' = [src EXCEPT !.head = @ + Count]
    BY <2>1, <2>5
  <2> QED
    BY <2>2, <2>3, <2>4, <2>5 DEF SourceWrites
<1> QED
  BY <1>1, <1>2, AppStepKeeps DEF RDMInv, RDMTypes

LEMMA ReadKeeps ==
  ASSUME RDMInv, AppTooLate \/ AppRead
  PROVE  RDMInv'
<1>1. UNCHANGED <<remote, net, cq, src, progress>> /\ disturbed \subseteq disturbed' /\ app.pc = "read"
  BY DEF AppTooLate, AppRead, appVars, memVars
<1>2. ValidOf(app.index) \in Nat
  BY TransferAssumption DEF ValidOf, RDMInv, RDMTypes, TransferAssumption
<1>3. /\ app' \in [pc : {"setup", "read", "transfer", "progress", "exit"}, adds : Nat, index : Nat,
                   start : Nat, end : Nat, got : Nat]
      /\ app'.adds = app.adds /\ app'.pc \in {"read", "transfer"}
  <2>1. CASE AppTooLate
    <3>1. app.pc = "read" /\ app' = [app EXCEPT !.index = src.head] /\ src.head \in Nat
      BY <2>1 DEF AppTooLate, RDMInv, RDMTypes
    <3> QED
      BY <3>1 DEF RDMInv, RDMTypes
  <2>2. CASE AppRead
    <3>1. PICK got \in Nat : app' = [app EXCEPT !.pc = "transfer", !.got = got]
      BY <1>2, <2>2 DEF AppRead
    <3> QED
      BY <3>1 DEF RDMInv, RDMTypes
  <2> QED
    BY <2>1, <2>2
<1> QED
  BY <1>1, <1>3, AppStepKeeps DEF RDMInv, RDMTypes

\* One completion at most is taken, and taken from the count at most once.
LEMMA MakeProgressCounts ==
  ASSUME RDMInv, makeRDMProgress, NEW n \in Nat
  PROVE  /\ remote' \in [st : {"Absent", "Idle", "Activated"}, token : Nat, pending : Int, entry : Nat]
         /\ remote'.token = remote.token /\ (remote'.st = "Absent" <=> remote.st = "Absent")
         /\ IsQueue(cq') /\ Given(cq', app.adds)
         /\ progress' = "OK" => ~targetHasPendingWork(remote')
         /\ n + Cardinality(Writes(cq, remote.token)) <= remote.pending =>
                n + Cardinality(Writes(cq', remote.token)) <= remote'.pending
<1> DEFINE r == activateTarget(remote)
           t == remote.token
<1>0. /\ remote \in [st : {"Absent", "Idle", "Activated"}, token : Nat, pending : Int, entry : Nat]
      /\ IsQueue(cq) /\ Given(cq, app.adds)
  BY DEF RDMInv, RDMTypes
<1>1. /\ r \in [st : {"Absent", "Idle", "Activated"}, token : Nat, pending : Int, entry : Nat]
      /\ r.token = t /\ r.pending = remote.pending /\ (r.st = "Absent" <=> remote.st = "Absent")
  BY <1>0 DEF activateTarget
<1>2. progress' = "OK" => ~targetHasPendingWork(remote')
  BY DEF makeRDMProgress
<1>3. CASE cq = <<>>
  <2>1. remote' = r /\ cq' = cq
    BY <1>3 DEF makeRDMProgress
  <2> QED
    BY <1>0, <1>1, <1>2, <2>1
<1>4. CASE cq # <<>>
  <2> DEFINE c == Head(cq)
  <2>1. remote' = handleCompletion(r, c) /\ cq' = Tail(cq)
    BY <1>4 DEF makeRDMProgress
  <2> HIDE DEF r
  <2>2. \/ remote' = r
        \/ c.token = t /\ remote' = [r EXCEPT !.pending = Dec(@)]
    BY <1>1, <2>1 DEF handleCompletion
  <2>3. Dec(r.pending) \in Int /\ Dec(r.pending) + 1 >= r.pending
    BY <1>1 DEF Dec
  <2>4. /\ remote' \in [st : {"Absent", "Idle", "Activated"}, token : Nat, pending : Int, entry : Nat]
        /\ remote'.token = t /\ remote'.st = r.st
        /\ \/ remote'.pending = remote.pending
           \/ c.token = t /\ remote'.pending + 1 >= remote.pending
    BY <1>1, <2>2, <2>3
  <2>5. /\ IsQueue(cq') /\ Given(cq', app.adds)
        /\ Cardinality(Writes(cq, t)) = Cardinality(Writes(cq', t)) + (IF c.token = t THEN 1 ELSE 0)
    BY <1>0, <1>4, <2>1, TailWrites
  <2>6. Cardinality(Writes(cq, t)) \in Nat /\ Cardinality(Writes(cq', t)) \in Nat
    BY <1>0, <2>5, WritesAreFinite
  <2>7. remote.pending \in Int /\ remote'.pending \in Int
    BY <1>0, <2>4
  <2>8. n + Cardinality(Writes(cq, t)) <= remote.pending =>
            n + Cardinality(Writes(cq', t)) <= remote'.pending
    BY <2>4, <2>5, <2>6, <2>7
  <2> QED
    BY <1>1, <1>2, <2>4, <2>5, <2>8
<1> QED
  BY <1>3, <1>4

\* A new target has a token that nothing in the queues carries.
LEMMA AppSetupKeeps ==
  ASSUME RDMInv, AppSetup
  PROVE  RDMInv'
<1>0. /\ RDMTypes /\ app.adds \in Nat /\ app.pc = "setup" /\ UNCHANGED <<src, net, disturbed>>
  BY DEF RDMInv, RDMTypes, AppSetup
<1>1. CASE remote.st = "Absent" /\ addRDMTarget /\ app' = [app EXCEPT !.adds = @ + 1]
           /\ UNCHANGED <<cq, progress>>
  <2>1. /\ remote' = [st |-> "Idle", token |-> app.adds + 1, pending |-> 0, entry |-> 0]
        /\ app' = [app EXCEPT !.adds = @ + 1]
    BY <1>1 DEF addRDMTarget
  <2>2. app'.adds = app.adds + 1 /\ app'.pc = "setup"
    BY <1>0, <2>1 DEF RDMTypes
  <2>3. RDMTypes'
    <3>1. /\ remote' \in [st : {"Absent", "Idle", "Activated"}, token : Nat, pending : Int, entry : Nat]
          /\ app' \in [pc : {"setup", "read", "transfer", "progress", "exit"}, adds : Nat, index : Nat,
                       start : Nat, end : Nat, got : Nat]
      BY <1>0, <2>1 DEF RDMTypes
    <3>2. Given(net, app'.adds) /\ Given(cq, app'.adds)
      BY <1>0, <2>2, NextToken DEF RDMTypes
    <3> QED
      BY <1>0, <1>1, <3>1, <3>2 DEF RDMTypes
  <2>4. WritesAreCounted'
    <3>1. Writes(net, app.adds + 1) = {} /\ Writes(cq, app.adds + 1) = {}
      BY <1>0, NextToken DEF RDMTypes
    <3>2. Cardinality(Writes(net', remote'.token)) = 0 /\ Cardinality(Writes(cq', remote'.token)) = 0
      BY <1>0, <1>1, <2>1, <3>1, FS_EmptySet
    <3> QED
      BY <2>1, <3>2 DEF WritesAreCounted
  <2>5. OkMeansNothingPending' /\ TargetIsThere'
    BY <1>0, <1>1, <2>1, <2>2 DEF RDMInv, OkMeansNothingPending, TargetIsThere
  <2> QED
    BY <2>3, <2>4, <2>5 DEF RDMInv
<1>2. CASE remote.st # "Absent" /\ makeRDMProgress
           /\ app' = IF progress' = "OK"
                     THEN [app EXCEPT !.pc = "read", !.index = src.head, !.start = 0, !.end = Batch]
                     ELSE app
  <2> DEFINE t == remote.token
  <2>0. Cardinality(Writes(net, t)) \in Nat
    BY <1>0, WritesAreFinite DEF RDMTypes
  <2>1. /\ remote' \in [st : {"Absent", "Idle", "Activated"}, token : Nat, pending : Int, entry : Nat]
        /\ remote'.token = t /\ remote'.st # "Absent"
        /\ IsQueue(cq') /\ Given(cq', app.adds)
        /\ progress' = "OK" => ~targetHasPendingWork(remote')
        /\ Cardinality(Writes(net, t)) + Cardinality(Writes(cq, t)) <= remote.pending =>
               Cardinality(Writes(net, t)) + Cardinality(Writes(cq', t)) <= remote'.pending
    BY <1>2, <2>0, MakeProgressCounts
  <2>2. /\ app' \in [pc : {"setup", "read", "transfer", "progress", "exit"}, adds : Nat, index : Nat,
                     start : Nat, end : Nat, got : Nat]
        /\ app'.adds = app.adds
    <3>1. Batch \in Nat /\ src.head \in Nat
      BY <1>0, TransferAssumption DEF TransferAssumption, RDMTypes
    <3>2. CASE progress' = "OK"
      BY <1>0, <1>2, <3>1, <3>2 DEF RDMTypes
    <3>3. CASE progress' # "OK"
      BY <1>0, <1>2, <3>3 DEF RDMTypes
    <3> QED
      BY <3>2, <3>3
  <2>3. RDMTypes'
    BY <1>0, <2>1, <2>2 DEF RDMTypes
  <2>4. WritesAreCounted'
    BY <1>0, <1>2, <2>1 DEF RDMInv, WritesAreCounted
  <2>5. OkMeansNothingPending' /\ TargetIsThere'
    BY <1>2, <2>1, <2>2 DEF RDMInv, OkMeansNothingPending, TargetIsThere
  <2> QED
    BY <2>3, <2>4, <2>5 DEF RDMInv
<1> QED
  BY <1>1, <1>2 DEF AppSetup

\* Writes that are counted as they are posted stay covered.
LEMMA MoreAreCounted ==
  ASSUME NEW more \in Nat, NEW n \in Nat, NEW c \in Nat, NEW l \in Nat, NEW p \in Int,
         more <= n + l, n + c <= p
  PROVE  more + c <= p + l
  OBVIOUS

\* Writes are posted for the target that is there, and counted, or left out of
\* the count and remembered as posted in part.
LEMMA PostKeeps ==
  ASSUME RDMInv, app.pc = "transfer", NEW w, IsQueue(w), Posted(w),
         \A k \in 1..Len(w) : w[k].token = remote.token,
         remote' \in [st : {"Absent", "Idle", "Activated"}, token : Nat, pending : Int, entry : Nat],
         remote'.st = remote.st, remote'.token = remote.token,
         "partial" \notin disturbed' =>
             "partial" \notin disturbed /\ remote'.pending = remote.pending + Len(w),
         app' \in [pc : {"read", "progress"}, adds : Nat, index : Nat,
                   start : Nat, end : Nat, got : Nat],
         app'.adds = app.adds, UNCHANGED <<src, cq>>, progress' = "none"
  PROVE  RDMInv'
<1> DEFINE t == remote.token
<1>0. RDMTypes /\ remote.st # "Absent" /\ t \in 1..app.adds
  BY DEF RDMInv, TargetIsThere
<1>1. net' = net \o w /\ Given(w, app.adds)
  BY <1>0 DEF Posted, Given
<1>2. /\ IsQueue(net') /\ Given(net', app.adds)
      /\ Cardinality(Writes(net', t)) <= Cardinality(Writes(net, t)) + Len(w)
  BY <1>0, <1>1, ConcatWrites DEF RDMTypes
<1>3. RDMTypes'
  BY <1>0, <1>2 DEF RDMTypes
<1>4. WritesAreCounted'
  <2> SUFFICES ASSUME "partial" \notin disturbed'
               PROVE  Cardinality(Writes(net', t)) + Cardinality(Writes(cq, t)) <= remote'.pending
    BY DEF WritesAreCounted
  <2>1. Cardinality(Writes(net, t)) + Cardinality(Writes(cq, t)) <= remote.pending
    BY <1>0 DEF RDMInv, WritesAreCounted
  <2>2. /\ Cardinality(Writes(net, t)) \in Nat /\ Cardinality(Writes(net', t)) \in Nat
        /\ Cardinality(Writes(cq, t)) \in Nat /\ Len(w) \in Nat /\ remote.pending \in Int
    BY <1>0, <1>2, WritesAreFinite DEF RDMTypes, IsQueue
  <2>3. Cardinality(Writes(net', t)) + Cardinality(Writes(cq, t)) <= remote.pending + Len(w)
    BY <1>2, <2>1, <2>2, MoreAreCounted
  <2> QED
    BY <2>3
<1>5. OkMeansNothingPending' /\ TargetIsThere'
  BY <1>0 DEF OkMeansNothingPending, TargetIsThere
<1> QED
  BY <1>3, <1>4, <1>5 DEF RDMInv

\* A grain, or its header alone, is one write.
LEMMA TransferGrainPosts ==
  ASSUME RDMInv, NEW index \in Nat, NEW start \in Nat, NEW end \in Nat,
         transferRMAGrain(index, start, end)
  PROVE  \E w : /\ IsQueue(w) /\ Posted(w) /\ Len(w) = 1
                /\ \A k \in 1..Len(w) : w[k].token = remote.token
                /\ remote' \in [st : {"Absent", "Idle", "Activated"}, token : Nat, pending : Int, entry : Nat]
                /\ remote'.st = remote.st /\ remote'.token = remote.token
                /\ remote'.pending = remote.pending + 1
<1> DEFINE c == [token |-> remote.token, slot |-> index % Ring, index |-> index,
                 from |-> start, to |-> end]
<1>1. Posted(<<c>>) /\ remote' = [remote EXCEPT !.pending = @ + 1] /\ c.token = remote.token
  BY DEF transferRMAGrain
<1> HIDE DEF c
<1>2. <<c>> \in Seq({c}) /\ Len(<<c>>) = 1 /\ <<c>>[1] = c
  OBVIOUS
<1>3. IsQueue(<<c>>)
  BY <1>2, QueueOf
<1>4. /\ remote' \in [st : {"Absent", "Idle", "Activated"}, token : Nat, pending : Int, entry : Nat]
      /\ remote'.st = remote.st /\ remote'.token = remote.token
      /\ remote'.pending = remote.pending + 1
  BY <1>1 DEF RDMInv, RDMTypes
<1> QED
  BY <1>1, <1>2, <1>3, <1>4

\* The first n writes of a group.
LEMMA PostSamplesPosts ==
  ASSUME RDMInv, NEW head, NEW n, postSamples(head, n)
  PROVE  /\ n \in Nat
         /\ \E w : /\ IsQueue(w) /\ Posted(w) /\ Len(w) = n
                   /\ \A k \in 1..Len(w) : w[k].token = remote.token
<1> DEFINE c(k) == groupWrite(k, head)
           w == [k \in 1..n |-> c(k)]
<1>1. n \in 0..writeCount(head) /\ Posted(w)
  BY DEF postSamples
<1>2. \A k \in 1..n : c(k).token = remote.token
  BY DEF groupWrite
<1> HIDE DEF c
<1>3. n \in Nat
  BY <1>1
<1>4. w \in [1..n -> {c(k) : k \in 1..n}]
  OBVIOUS
<1>5. w \in Seq({c(k) : k \in 1..n}) /\ Len(w) = n
  BY <1>3, <1>4
<1>6. IsQueue(w)
  BY <1>5, QueueOf
<1> QED
  BY <1>1, <1>2, <1>3, <1>5, <1>6

LEMMA TransferInvalidKeeps ==
  ASSUME RDMInv, AppTransferInvalid
  PROVE  RDMInv'
<1>0. /\ RDMTypes /\ UNCHANGED <<src, cq>> /\ progress' = "none" /\ disturbed \subseteq disturbed'
      /\ app.pc = "transfer" /\ app' = [app EXCEPT !.pc = "read", !.index = @ + 1]
  BY DEF RDMInv, AppTransferInvalid
<1>1. /\ app' \in [pc : {"read", "progress"}, adds : Nat, index : Nat,
                   start : Nat, end : Nat, got : Nat]
      /\ app'.adds = app.adds
  <2>1. app.index + 1 \in Nat
    BY <1>0 DEF RDMTypes
  <2> QED
    BY <1>0, <2>1 DEF RDMTypes
<1>2. CASE transferRMAGrain(app.index, 0, 0)
  <2>1. app.index \in Nat
    BY <1>0 DEF RDMTypes
  <2>2. PICK w : /\ IsQueue(w) /\ Posted(w) /\ Len(w) = 1
                 /\ \A k \in 1..Len(w) : w[k].token = remote.token
                 /\ remote' \in [st : {"Absent", "Idle", "Activated"}, token : Nat, pending : Int, entry : Nat]
                 /\ remote'.st = remote.st /\ remote'.token = remote.token
                 /\ remote'.pending = remote.pending + 1
    BY <1>2, <2>1, TransferGrainPosts
  <2> QED
    BY <1>0, <1>1, <2>2, PostKeeps
<1>3. CASE UNCHANGED <<remote, net>>
  BY <1>0, <1>1, <1>3, AppStepKeeps DEF RDMTypes
<1> QED
  BY <1>2, <1>3 DEF AppTransferInvalid

LEMMA RDMTransferGrainKeeps ==
  ASSUME RDMInv, AppTransferGrain
  PROVE  RDMInv'
<1>0. /\ RDMTypes /\ UNCHANGED <<src, cq, disturbed>> /\ progress' = "none"
      /\ app.pc = "transfer" /\ app' = [app EXCEPT !.pc = "progress"]
      /\ transferRMAGrain(app.index, app.start, app.got)
  BY DEF RDMInv, AppTransferGrain
<1>1. /\ app.index \in Nat /\ app.start \in Nat /\ app.got \in Nat
      /\ app' \in [pc : {"read", "progress"}, adds : Nat, index : Nat,
                   start : Nat, end : Nat, got : Nat]
      /\ app'.adds = app.adds
  BY <1>0 DEF RDMTypes
<1>2. PICK w : /\ IsQueue(w) /\ Posted(w) /\ Len(w) = 1
               /\ \A k \in 1..Len(w) : w[k].token = remote.token
               /\ remote' \in [st : {"Absent", "Idle", "Activated"}, token : Nat, pending : Int, entry : Nat]
               /\ remote'.st = remote.st /\ remote'.token = remote.token
               /\ remote'.pending = remote.pending + 1
  BY <1>0, <1>1, TransferGrainPosts
<1> QED
  BY <1>0, <1>1, <1>2, PostKeeps

LEMMA TransferSamplesKeeps ==
  ASSUME RDMInv, AppTransferSamples
  PROVE  RDMInv'
<1> DEFINE n == writeCount(app.index)
<1>0. /\ RDMTypes /\ UNCHANGED <<src, cq>> /\ progress' = "none"
      /\ app.pc = "transfer" /\ app' = [app EXCEPT !.pc = "progress"]
      /\ postSamples(app.index, n)
      /\ remote' = [remote EXCEPT !.pending = @ + n, !.entry = (@ + 1) % EntryCount]
  BY DEF RDMInv, AppTransferSamples, transferSamples
<1>1. /\ app' \in [pc : {"read", "progress"}, adds : Nat, index : Nat,
                   start : Nat, end : Nat, got : Nat]
      /\ app'.adds = app.adds
  BY <1>0 DEF RDMTypes
<1>2. "partial" \notin disturbed' => "partial" \notin disturbed
  BY <1>0 DEF postSamples
<1> HIDE DEF n
<1>3. /\ n \in Nat
      /\ \E w : /\ IsQueue(w) /\ Posted(w) /\ Len(w) = n
                /\ \A k \in 1..Len(w) : w[k].token = remote.token
  BY <1>0, PostSamplesPosts
<1>4. /\ remote' \in [st : {"Absent", "Idle", "Activated"}, token : Nat, pending : Int, entry : Nat]
      /\ remote'.st = remote.st /\ remote'.token = remote.token
      /\ remote'.pending = remote.pending + n
  <2>1. (remote.entry + 1) % EntryCount \in Nat /\ remote.pending + n \in Int
    <3>1. remote.entry + 1 \in Nat /\ remote.pending \in Int
      BY <1>0 DEF RDMTypes
    <3>2. (remote.entry + 1) % EntryCount \in Nat
      BY <3>1, NextEntry
    <3> QED
      BY <1>3, <3>1, <3>2
  <2> QED
    BY <1>0, <2>1 DEF RDMTypes
<1> QED
  BY <1>0, <1>1, <1>2, <1>3, <1>4, PostKeeps

\* A refused post: nothing has been posted, or a part that is left out of the
\* count and remembered as such, while progress is made.
LEMMA TransferNotReadyKeeps ==
  ASSUME RDMInv, AppTransferNotReady
  PROVE  RDMInv'
<1>0. /\ RDMTypes /\ src' = src /\ app.pc = "transfer" /\ app' = [app EXCEPT !.pc = "read"]
      /\ remote.st # "Absent" /\ remote.token \in 1..app.adds
  BY DEF RDMInv, TargetIsThere, AppTransferNotReady
<1>1. /\ app' \in [pc : {"setup", "read", "transfer", "progress", "exit"}, adds : Nat, index : Nat,
                   start : Nat, end : Nat, got : Nat]
      /\ app'.adds = app.adds /\ app'.pc = "read"
  BY <1>0 DEF RDMTypes
<1>2. CASE progress' = "none" /\ UNCHANGED <<remote, headers, net, cq, disturbed>>
  BY <1>0, <1>1, <1>2, AppStepKeeps DEF RDMTypes
<1>3. ASSUME NEW n \in 0..(writeCount(app.index) - 1),
             postSamples(app.index, n), makeRDMProgress
      PROVE  RDMInv'
  <2> DEFINE t == remote.token
  <2>1. PICK w : /\ IsQueue(w) /\ Posted(w) /\ Len(w) = n /\ n \in Nat
                 /\ \A k \in 1..Len(w) : w[k].token = t
    BY <1>3, PostSamplesPosts
  <2>2. "partial" \notin disturbed' => "partial" \notin disturbed /\ n = 0
    BY <1>3, <2>1 DEF postSamples
  <2>3. /\ IsQueue(net') /\ Given(net', app.adds)
        /\ Cardinality(Writes(net', t)) <= Cardinality(Writes(net, t)) + n
    <3>1. Given(w, app.adds)
      BY <1>0, <2>1 DEF Given
    <3> QED
      BY <1>0, <2>1, <3>1, ConcatWrites DEF RDMTypes, Posted
  <2>4. Cardinality(Writes(net', t)) \in Nat /\ Cardinality(Writes(net, t)) \in Nat
        /\ Cardinality(Writes(cq, t)) \in Nat
    BY <1>0, <2>3, WritesAreFinite DEF RDMTypes
  <2>5. /\ remote' \in [st : {"Absent", "Idle", "Activated"}, token : Nat, pending : Int, entry : Nat]
        /\ remote'.token = t /\ remote'.st # "Absent"
        /\ IsQueue(cq') /\ Given(cq', app.adds)
        /\ progress' = "OK" => ~targetHasPendingWork(remote')
        /\ Cardinality(Writes(net', t)) + Cardinality(Writes(cq, t)) <= remote.pending =>
               Cardinality(Writes(net', t)) + Cardinality(Writes(cq', t)) <= remote'.pending
    BY <1>0, <1>3, <2>4, MakeProgressCounts
  <2>6. RDMTypes'
    BY <1>0, <1>1, <2>3, <2>5 DEF RDMTypes
  <2>7. WritesAreCounted'
    <3> SUFFICES ASSUME "partial" \notin disturbed'
                 PROVE  Cardinality(Writes(net', t)) + Cardinality(Writes(cq, t)) <= remote.pending
      BY <2>5 DEF WritesAreCounted
    <3>1. Cardinality(Writes(net, t)) + Cardinality(Writes(cq, t)) <= remote.pending /\ n = 0
      BY <1>0, <2>2 DEF RDMInv, WritesAreCounted
    <3>2. remote.pending \in Int
      BY <1>0 DEF RDMTypes
    <3> QED
      BY <2>3, <2>4, <3>1, <3>2
  <2>8. OkMeansNothingPending' /\ TargetIsThere'
    BY <1>0, <1>1, <2>5 DEF OkMeansNothingPending, TargetIsThere
  <2> QED
    BY <2>6, <2>7, <2>8 DEF RDMInv
<1> QED
  BY <1>2, <1>3 DEF AppTransferNotReady

LEMMA AppMakeProgressKeeps ==
  ASSUME RDMInv, AppMakeProgress
  PROVE  RDMInv'
<1> DEFINE t == remote.token
<1>0. /\ RDMTypes /\ UNCHANGED <<src, net, disturbed>> /\ app.pc = "progress" /\ makeRDMProgress
      /\ remote.st # "Absent" /\ t \in 1..app.adds /\ app' \in {Advance, app}
  BY DEF RDMInv, TargetIsThere, AppMakeProgress
<1>1. Cardinality(Writes(net, t)) \in Nat
  BY <1>0, WritesAreFinite DEF RDMTypes
<1>2. /\ remote' \in [st : {"Absent", "Idle", "Activated"}, token : Nat, pending : Int, entry : Nat]
      /\ remote'.token = t /\ remote'.st # "Absent"
      /\ IsQueue(cq') /\ Given(cq', app.adds)
      /\ progress' = "OK" => ~targetHasPendingWork(remote')
      /\ Cardinality(Writes(net, t)) + Cardinality(Writes(cq, t)) <= remote.pending =>
             Cardinality(Writes(net, t)) + Cardinality(Writes(cq', t)) <= remote'.pending
  BY <1>0, <1>1, MakeProgressCounts
<1>3. /\ app' \in [pc : {"setup", "read", "transfer", "progress", "exit"}, adds : Nat, index : Nat,
                   start : Nat, end : Nat, got : Nat]
      /\ app'.adds = app.adds /\ app'.pc \in {"read", "progress"}
  <2>1. /\ app.index + Count \in Nat /\ app.index + 1 \in Nat /\ app.got + Batch \in Nat
        /\ Slices \in Nat /\ Batch \in Nat /\ app.got \in Nat
    BY <1>0, TransferAssumption DEF RDMTypes, TransferAssumption
  <2>2. PICK i \in Nat, s \in Nat, e \in Nat :
            Advance = [app EXCEPT !.pc = "read", !.index = i, !.start = s, !.end = e]
    <3>1. CASE kind = "sample"
      <4>1. Advance = [app EXCEPT !.pc = "read", !.index = app.index + Count,
                                  !.start = app.start, !.end = app.end]
        BY <1>0, <3>1 DEF Advance, RDMTypes
      <4> QED
        BY <1>0, <2>1, <4>1 DEF RDMTypes
    <3>2. CASE kind = "grain" /\ app.got # Slices
      <4> DEFINE e == IF app.got + Batch < Slices THEN app.got + Batch ELSE Slices
      <4>1. Advance = [app EXCEPT !.pc = "read", !.index = app.index, !.start = app.got, !.end = e]
        BY <1>0, <3>2 DEF Advance, RDMTypes
      <4> QED
        BY <1>0, <2>1, <4>1 DEF RDMTypes
    <3>3. CASE ~(kind = "sample") /\ ~(kind = "grain" /\ app.got # Slices)
      <4>1. Advance = [app EXCEPT !.pc = "read", !.index = app.index + 1, !.start = 0, !.end = Batch]
        BY <1>0, <3>3 DEF Advance, RDMTypes
      <4> QED
        BY <2>1, <4>1
    <3> QED
      BY <3>1, <3>2, <3>3
  <2> QED
    BY <1>0, <2>2 DEF RDMTypes
<1>4. RDMTypes'
  BY <1>0, <1>2, <1>3 DEF RDMTypes
<1>5. WritesAreCounted'
  BY <1>0, <1>2 DEF RDMInv, WritesAreCounted
<1>6. OkMeansNothingPending' /\ TargetIsThere'
  BY <1>0, <1>2, <1>3 DEF OkMeansNothingPending, TargetIsThere
<1> QED
  BY <1>4, <1>5, <1>6 DEF RDMInv

LEMMA ExitAndDestroyKeep ==
  ASSUME RDMInv, AppExit \/ AppDestroy
  PROVE  RDMInv'
<1>0. RDMTypes /\ src' = src
  BY DEF RDMInv, AppExit, AppDestroy
<1>1. CASE AppExit
  <2>1. /\ remote' = [remote EXCEPT !.st = "Absent", !.pending = 0]
        /\ app' = [app EXCEPT !.pc = "exit"] /\ net' = net
        /\ cq' = IF cq = <<>> THEN cq ELSE Tail(cq)
    BY <1>1 DEF AppExit, removeRDMTarget
  <2>2. /\ remote' \in [st : {"Absent", "Idle", "Activated"}, token : Nat, pending : Int, entry : Nat]
        /\ remote'.st = "Absent"
        /\ app' \in [pc : {"setup", "read", "transfer", "progress", "exit"}, adds : Nat, index : Nat,
                     start : Nat, end : Nat, got : Nat]
        /\ app'.adds = app.adds /\ app'.pc = "exit"
    <3>1. /\ remote.token \in Nat /\ remote.entry \in Nat
          /\ remote' = [st |-> "Absent", token |-> remote.token, pending |-> 0, entry |-> remote.entry]
      BY <1>0, <2>1 DEF RDMTypes
    <3>2. /\ app' \in [pc : {"setup", "read", "transfer", "progress", "exit"}, adds : Nat, index : Nat,
                       start : Nat, end : Nat, got : Nat]
          /\ app'.adds = app.adds /\ app'.pc = "exit"
      BY <1>0, <2>1 DEF RDMTypes
    <3> QED
      BY <3>1, <3>2
  <2>3. IsQueue(cq') /\ Given(cq', app.adds)
    BY <1>0, <2>1, TailWrites DEF RDMTypes
  <2>4. RDMTypes'
    BY <1>0, <2>1, <2>2, <2>3 DEF RDMTypes
  <2>5. WritesAreCounted' /\ OkMeansNothingPending' /\ TargetIsThere'
    BY <2>2 DEF WritesAreCounted, OkMeansNothingPending, TargetIsThere
  <2> QED
    BY <2>4, <2>5 DEF RDMInv
<1>2. CASE AppDestroy
  <2>1. /\ UNCHANGED remote /\ app' = [app EXCEPT !.pc = "setup"] /\ app.pc = "exit"
        /\ net' = <<>> /\ cq' = <<>> /\ progress' = "none"
    BY <1>2 DEF AppDestroy
  <2>2. /\ app' \in [pc : {"setup", "read", "transfer", "progress", "exit"}, adds : Nat, index : Nat,
                     start : Nat, end : Nat, got : Nat]
        /\ app'.adds = app.adds /\ app'.pc = "setup"
    BY <1>0, <2>1 DEF RDMTypes
  <2>3. IsQueue(<<>>) /\ Given(<<>>, app.adds)
    BY DEF IsQueue, Given
  <2>4. RDMTypes'
    BY <1>0, <2>1, <2>2, <2>3 DEF RDMTypes
  <2>5. WritesAreCounted'
    <3>1. Writes(net, remote.token)' = {} /\ Writes(cq, remote.token)' = {}
      BY <2>1 DEF Writes
    <3>2. /\ Cardinality(Writes(net, remote.token)) \in Nat
          /\ Cardinality(Writes(cq, remote.token)) \in Nat
      BY <1>0, WritesAreFinite DEF RDMTypes
    <3>3. remote.st # "Absent" /\ "partial" \notin disturbed => 0 + 0 <= remote.pending
      BY <1>0, <3>2 DEF RDMInv, RDMTypes, WritesAreCounted
    <3>4. Cardinality({}) = 0 /\ UNCHANGED <<remote, disturbed>>
      BY <1>2, FS_EmptySet DEF AppDestroy
    <3> QED
      BY <3>1, <3>3, <3>4 DEF WritesAreCounted
  <2>6. OkMeansNothingPending'
    <3>1. progress' # "OK"
      BY <2>1
    <3> QED
      BY <3>1 DEF OkMeansNothingPending
  <2>7. TargetIsThere'
    <3>1. remote' = remote /\ app'.adds = app.adds /\ app'.pc = "setup"
      BY <2>1, <2>2
    <3> QED
      BY <3>1 DEF RDMInv, TargetIsThere
  <2> QED
    BY <2>4, <2>5, <2>6, <2>7 DEF RDMInv
<1> QED
  BY <1>1, <1>2

\* The fabric turns a posted write into a completion with the same token.
LEMMA WriteEnds ==
  ASSUME RDMInv, net # <<>>, net' = Tail(net),
         NEW ok, cq' = Append(cq, [token |-> Head(net).token, ok |-> ok]),
         UNCHANGED <<src, app, remote, progress>>, disturbed \subseteq disturbed'
  PROVE  RDMInv'
<1> DEFINE t == remote.token
           c == [token |-> Head(net).token, ok |-> ok]
<1>0. RDMTypes
  BY DEF RDMInv
<1>1. /\ IsQueue(net') /\ Given(net', app.adds) /\ Head(net).token \in 1..app.adds
      /\ Cardinality(Writes(net, t)) =
             Cardinality(Writes(net', t)) + (IF Head(net).token = t THEN 1 ELSE 0)
  BY <1>0, TailWrites DEF RDMTypes
<1>2. c.token = Head(net).token /\ cq' = Append(cq, c)
  OBVIOUS
<1> HIDE DEF c
<1>3. /\ IsQueue(cq') /\ Given(cq', app.adds)
      /\ Cardinality(Writes(cq', t)) =
             Cardinality(Writes(cq, t)) + (IF Head(net).token = t THEN 1 ELSE 0)
  <2>1. IsQueue(cq) /\ Given(cq, app.adds) /\ c.token \in 1..app.adds
    BY <1>0, <1>1, <1>2 DEF RDMTypes
  <2>2. /\ IsQueue(Append(cq, c)) /\ Given(Append(cq, c), app.adds)
        /\ Cardinality(Writes(Append(cq, c), t)) =
               Cardinality(Writes(cq, t)) + (IF c.token = t THEN 1 ELSE 0)
    BY <2>1, AppendWrites
  <2> QED
    BY <1>2, <2>2
<1>4. RDMTypes'
  BY <1>0, <1>1, <1>3 DEF RDMTypes
<1>5. WritesAreCounted'
  <2>1. /\ Cardinality(Writes(net, t)) \in Nat /\ Cardinality(Writes(net', t)) \in Nat
        /\ Cardinality(Writes(cq, t)) \in Nat /\ Cardinality(Writes(cq', t)) \in Nat
    BY <1>0, <1>1, <1>3, WritesAreFinite DEF RDMTypes
  <2>2. Cardinality(Writes(net', t)) + Cardinality(Writes(cq', t))
            = Cardinality(Writes(net, t)) + Cardinality(Writes(cq, t))
    BY <1>1, <1>3, <2>1
  <2> QED
    BY <2>2 DEF RDMInv, WritesAreCounted
<1>6. OkMeansNothingPending' /\ TargetIsThere'
  BY DEF RDMInv, OkMeansNothingPending, TargetIsThere, targetHasPendingWork
<1> QED
  BY <1>4, <1>5, <1>6 DEF RDMInv

LEMMA NextRDMInv ==
  ASSUME RDMInv, [RDMNext]_rdmVars
  PROVE  RDMInv'
<1>1. CASE SourceWrites
  BY <1>1, SourceWritesKeeps
<1>2. CASE AppSetup
  BY <1>2, AppSetupKeeps
<1>3. CASE AppTooLate \/ AppRead
  BY <1>3, ReadKeeps
<1>4. CASE AppTransferInvalid \/ AppTransferGrain \/ AppTransferSamples
          \/ AppTransferNotReady
  BY <1>4, TransferInvalidKeeps, RDMTransferGrainKeeps, TransferSamplesKeeps, TransferNotReadyKeeps
<1>5. CASE AppMakeProgress
  BY <1>5, AppMakeProgressKeeps
<1>6. CASE AppExit \/ AppDestroy
  BY <1>6, ExitAndDestroyKeep
<1>7. CASE Deliver \/ FailRDMWrite
  <2>1. PICK ok \in BOOLEAN :
            /\ net # <<>> /\ net' = Tail(net)
            /\ cq' = Append(cq, [token |-> Head(net).token, ok |-> ok])
            /\ UNCHANGED <<src, app, remote, progress>> /\ disturbed \subseteq disturbed'
    BY <1>7 DEF Deliver, FailRDMWrite, appVars
  <2> QED
    BY <2>1, WriteEnds
<1>8. CASE TargetReadsGrain \/ TargetReadsSamples \/ UNCHANGED rdmVars
  <2>1. UNCHANGED <<src, app, remote, net, cq, progress, disturbed>>
    BY <1>8 DEF TargetReadsGrain, TargetReadsSamples, rdmVars, appVars
  <2> QED
    BY <2>1, AppStepKeeps DEF RDMInv, RDMTypes
<1> QED
  BY <1>1, <1>2, <1>3, <1>4, <1>5, <1>6, <1>7, <1>8 DEF RDMNext

LEMMA RDMInvIsEnough ==
  ASSUME RDMInv
  PROVE  OkMeansExecuted
<1> SUFFICES ASSUME progress = "OK", remote.st # "Absent", "partial" \notin disturbed,
                    NEW k \in 1..Len(net)
             PROVE  net[k].token # remote.token
  BY DEF OkMeansExecuted
<1> DEFINE t == remote.token
<1>1. /\ Cardinality(Writes(net, t)) \in Nat /\ Cardinality(Writes(cq, t)) \in Nat
      /\ IsFiniteSet(Writes(net, t)) /\ remote.pending \in Int
  BY WritesAreFinite DEF RDMInv, RDMTypes
<1>2. remote.pending = 0
  BY <1>1 DEF RDMInv, RDMTypes, OkMeansNothingPending, targetHasPendingWork
<1>3. Cardinality(Writes(net, t)) = 0
  <2>1. Cardinality(Writes(net, t)) + Cardinality(Writes(cq, t)) <= remote.pending
    BY DEF RDMInv, WritesAreCounted
  <2> QED
    BY <1>1, <1>2, <2>1
<1>4. Writes(net, t) = {}
  BY <1>1, <1>3, FS_EmptySet
<1> QED
  BY <1>4 DEF Writes

(* MakeProgress of the connectionless initiator returns OK only when every      *)
(* write of the target that is still added has been executed: the pending count *)
(* of RDMInitiatorTarget covers the writes in the fabric and the completions    *)
(* that wait, for grains and for groups of sample writes of any size.           *)
THEOREM WritesAreExecuted == RDMSpec => []OkMeansExecuted
<1>1. RDMInit => RDMInv
  BY InitRDMInv
<1>2. RDMInv /\ [RDMNext]_rdmVars => RDMInv'
  BY NextRDMInv
<1>3. RDMInv => OkMeansExecuted
  BY RDMInvIsEnough
<1> QED
  BY <1>1, <1>2, <1>3, PTL DEF RDMSpec
-----------------------------------------------------------------------------
\* Grains over the connectionless initiator, as long as nothing disturbs them.

\* A slot of the target has the header and the first n slices of a grain.
HasSlices(index, n) ==
    /\ dst[index % Ring].index = index
    /\ \A j \in 1..n : dst[index % Ring].slice[j] = index

GrainTypes ==
    /\ src.valid <= Slices
    /\ dst \in [0..Ring - 1 -> [index : Nat, valid : Nat, slice : [1..Slices -> Nat]]]
    /\ IsQueue(tcq)

\* What is posted is in the source, and stays there.
GrainIsThere(index, n) == index <= src.head /\ n <= Slices /\ (index = src.head => n <= src.valid)

WritesAreThere ==
    \A k \in 1..Len(net) :
        /\ net[k].index \in Nat /\ net[k].slot = net[k].index % Ring
        /\ net[k].from \in Nat /\ net[k].to \in Nat /\ GrainIsThere(net[k].index, net[k].to)

\* A write that leaves out the header and the first slices follows, in the fabric
\* or in the slot, what has brought them.
WritesContinue ==
    \A k \in 1..Len(net) : net[k].from > 0 =>
        IF k = 1 THEN HasSlices(net[k].index, net[k].from)
        ELSE net[k - 1].index = net[k].index /\ net[k - 1].to = net[k].from

\* The demo's range starts where its last write ended.
SentUpTo(n) ==
    n > 0 => IF Len(net) = 0 THEN HasSlices(app.index, n)
             ELSE net[Len(net)].index = app.index /\ net[Len(net)].to = n

RangeContinues ==
    /\ app.pc \in {"read", "transfer"} => SentUpTo(app.start)
    /\ app.pc = "transfer" => GrainIsThere(app.index, app.got)
    /\ app.pc = "progress" => SentUpTo(app.got)

AnnouncedIsThere ==
    \A k \in 1..Len(tcq) :
        /\ tcq[k].index \in Nat /\ tcq[k].slot = tcq[k].index % Ring /\ tcq[k].end \in 0..Slices
        /\ HasSlices(tcq[k].index, tcq[k].end)

GrainsArrive ==
    /\ GrainTypes /\ WritesAreThere /\ WritesContinue /\ RangeContinues
    /\ AnnouncedIsThere /\ last.ok

GrainInv == kind = "grain" /\ Undisturbed => GrainsArrive

LEMMA RingSlots ==
  ASSUME NEW index \in Nat
  PROVE  index % Ring \in 0..Ring - 1
<1>1. Ring \in Nat /\ Ring >= 1
  BY TransferAssumption DEF TransferAssumption
<1>2. ASSUME NEW b \in Nat, b >= 1 PROVE index % b \in 0..b - 1
  BY <1>2
<1> QED
  BY <1>1, <1>2

\* Entries of a queue, of its tail and of a longer one.
LEMMA QueueTail ==
  ASSUME NEW q, IsQueue(q), q # <<>>
  PROVE  /\ IsQueue(Tail(q)) /\ Len(q) >= 1 /\ Len(Tail(q)) = Len(q) - 1 /\ Head(q) = q[1]
         /\ \A k \in 1..Len(q) - 1 : Tail(q)[k] = q[k + 1]
<1> DEFINE S == {q[k] : k \in 1..Len(q)}
<1>1. q \in Seq(S) /\ Len(q) \in Nat
  BY DEF IsQueue
<1> HIDE DEF S
<1>2. Tail(q) \in Seq(S)
  BY <1>1
<1>3. IsQueue(Tail(q))
  BY <1>2, QueueOf
<1> QED
  BY <1>1, <1>3

LEMMA QueueAppend ==
  ASSUME NEW q, IsQueue(q), NEW c
  PROVE  /\ IsQueue(Append(q, c)) /\ Len(Append(q, c)) = Len(q) + 1
         /\ \A k \in 1..Len(q) : Append(q, c)[k] = q[k]
         /\ Append(q, c)[Len(q) + 1] = c
<1> DEFINE S == {q[k] : k \in 1..Len(q)} \cup {c}
<1>1. q \in Seq(S) /\ c \in S /\ Len(q) \in Nat
  BY QueueIn DEF IsQueue
<1> HIDE DEF S
<1>2. Append(q, c) \in Seq(S)
  BY <1>1
<1>3. IsQueue(Append(q, c))
  BY <1>2, QueueOf
<1> QED
  BY <1>1, <1>3

LEMMA QueuePost ==
  ASSUME NEW q, IsQueue(q), NEW c
  PROVE  /\ Len(q \o <<c>>) = Len(q) + 1
         /\ \A k \in 1..Len(q) : (q \o <<c>>)[k] = q[k]
         /\ (q \o <<c>>)[Len(q) + 1] = c
<1> DEFINE S == {q[k] : k \in 1..Len(q)} \cup {c}
<1>1. q \in Seq(S) /\ <<c>> \in Seq(S) /\ Len(q) \in Nat
  BY QueueIn DEF IsQueue
<1> HIDE DEF S
<1>2. Len(<<c>>) = 1 /\ <<c>>[1] = c
  OBVIOUS
<1> QED
  BY <1>1, <1>2

\* What disturbs a transfer is never forgotten.
LEMMA DisturbedGrows ==
  ASSUME [RDMNext]_rdmVars
  PROVE  kind' = kind /\ disturbed \subseteq disturbed'
<1>1. CASE SourceWrites BY <1>1 DEF SourceWrites
<1>2. CASE AppSetup BY <1>2 DEF AppSetup
<1>3. CASE AppTooLate BY <1>3 DEF AppTooLate
<1>4. CASE AppRead BY <1>4 DEF AppRead
<1>5. CASE AppTransferInvalid BY <1>5 DEF AppTransferInvalid
<1>6. CASE AppTransferGrain BY <1>6 DEF AppTransferGrain
<1>7. CASE AppTransferSamples
  BY <1>7 DEF AppTransferSamples, transferSamples, postSamples
<1>8. CASE AppTransferNotReady
  BY <1>8 DEF AppTransferNotReady, postSamples
<1>9. CASE AppMakeProgress BY <1>9 DEF AppMakeProgress
<1>10. CASE AppExit \/ AppDestroy BY <1>10 DEF AppExit, AppDestroy
<1>11. CASE Deliver BY <1>11 DEF Deliver
<1>12. CASE FailRDMWrite BY <1>12 DEF FailRDMWrite
<1>13. CASE TargetReadsGrain \/ TargetReadsSamples
  BY <1>13 DEF TargetReadsGrain, TargetReadsSamples
<1>14. CASE UNCHANGED rdmVars BY <1>14 DEF rdmVars
<1> QED
  BY <1>1, <1>2, <1>3, <1>4, <1>5, <1>6, <1>7, <1>8, <1>9, <1>10, <1>11, <1>12, <1>13, <1>14
  DEF RDMNext

\* The steps that leave the fabric and the memory of the target alone.
LEMMA MemoryKept ==
  ASSUME RDMInv, GrainsArrive, UNCHANGED <<net, tcq, dst, last>>,
         src'.valid <= Slices,
         \A index \in Nat, n \in Nat : GrainIsThere(index, n) =>
            index <= src'.head /\ n <= Slices /\ (index = src'.head => n <= src'.valid),
         RangeContinues'
  PROVE  GrainsArrive'
<1>1. GrainTypes'
  BY DEF GrainsArrive, GrainTypes, IsQueue
<1>2. WritesAreThere'
  BY DEF GrainsArrive, WritesAreThere, GrainIsThere
<1>3. WritesContinue' /\ AnnouncedIsThere'
  BY DEF GrainsArrive, WritesContinue, AnnouncedIsThere, HasSlices
<1> QED
  BY <1>1, <1>2, <1>3 DEF GrainsArrive

LEMMA SourceWritesGrain ==
  ASSUME RDMInv, GrainsArrive, kind = "grain", SourceWrites
  PROVE  GrainsArrive'
<1>1. UNCHANGED <<app, net, tcq, dst, last>>
  BY DEF SourceWrites, appVars, memVars
<1>2. /\ src \in [head : Nat, valid : Nat, bad : SUBSET Nat] /\ src.valid <= Slices
      /\ Slices \in Nat /\ Slices >= 1
  <2>1. Slices \in Nat \ {0}
    BY TransferAssumption DEF TransferAssumption
  <2> QED
    BY <2>1 DEF RDMInv, RDMTypes, GrainsArrive, GrainTypes
<1>3. \/ src'.head = src.head /\ src'.valid \in Nat /\ src'.valid >= src.valid /\ src'.valid <= Slices
      \/ src.valid = Slices /\ src'.head = src.head + 1 /\ src'.valid = 0
  <2>1. CASE src.valid < Slices /\ src' = [src EXCEPT !.valid = @ + 1]
    BY <1>2, <2>1
  <2>2. CASE src.valid < Slices /\ src' = [src EXCEPT !.valid = Slices, !.bad = @ \cup {src.head}]
    BY <1>2, <2>2
  <2>3. CASE src.valid = Slices /\ src' = [src EXCEPT !.head = @ + 1, !.valid = 0]
    BY <1>2, <2>3
  <2> QED
    BY <2>1, <2>2, <2>3 DEF SourceWrites
<1>4. \A index \in Nat, n \in Nat : GrainIsThere(index, n) =>
            index <= src'.head /\ n <= Slices /\ (index = src'.head => n <= src'.valid)
  BY <1>2, <1>3 DEF GrainIsThere
<1>5. RangeContinues'
  <2>1. /\ app.pc \in {"read", "transfer"} => SentUpTo(app.start)
        /\ app.pc = "transfer" => GrainIsThere(app.index, app.got)
        /\ app.pc = "progress" => SentUpTo(app.got)
        /\ app.index \in Nat /\ app.got \in Nat
    BY DEF GrainsArrive, RangeContinues, RDMInv, RDMTypes
  <2>2. app'.pc = "transfer" => GrainIsThere(app.index, app.got)'
    BY <1>1, <1>4, <2>1 DEF GrainIsThere
  <2> QED
    BY <1>1, <2>1, <2>2 DEF RangeContinues, SentUpTo, HasSlices, GrainIsThere
<1>6. src'.valid <= Slices
  BY <1>2, <1>3
<1> QED
  BY <1>1, <1>4, <1>5, <1>6, MemoryKept

\* Where the demo's range may begin anew: at slice 0, or where it was.
LEMMA RangeKept ==
  ASSUME RDMInv, GrainsArrive, UNCHANGED <<src, net, tcq, dst, last>>,
         app'.pc \in {"read", "transfer"} =>
            app'.start = 0 \/ (app'.start = app.start /\ app'.index = app.index
                               /\ app.pc \in {"read", "transfer"})
                           \/ (app'.start = app.got /\ app'.index = app.index /\ app.pc = "progress"),
         app'.pc = "transfer" => GrainIsThere(app'.index, app'.got),
         app'.pc = "progress" => app' = app
  PROVE  GrainsArrive'
<1>1. \A n \in Nat : SentUpTo(n) =>
          (n > 0 => IF Len(net) = 0 THEN HasSlices(app.index, n)
                    ELSE net[Len(net)].index = app.index /\ net[Len(net)].to = n)
  BY DEF SentUpTo
<1>2. app.start \in Nat /\ app.got \in Nat
  BY DEF RDMInv, RDMTypes
<1>3. /\ app.pc \in {"read", "transfer"} => SentUpTo(app.start)
      /\ app.pc = "progress" => SentUpTo(app.got)
  BY DEF GrainsArrive, RangeContinues
<1>4. app'.pc \in {"read", "transfer"} => SentUpTo(app.start)'
  <2> SUFFICES ASSUME app'.pc \in {"read", "transfer"}, app'.start > 0
               PROVE  SentUpTo(app.start)'
    BY DEF SentUpTo
  <2>1. CASE app'.start = 0
    BY <1>2, <2>1
  <2>2. CASE app'.start = app.start /\ app'.index = app.index /\ app.pc \in {"read", "transfer"}
    BY <1>3, <2>2 DEF SentUpTo, HasSlices
  <2>3. CASE app'.start = app.got /\ app'.index = app.index /\ app.pc = "progress"
    BY <1>3, <2>3 DEF SentUpTo, HasSlices
  <2> QED
    BY <2>1, <2>2, <2>3
<1>5. app'.pc = "transfer" => GrainIsThere(app.index, app.got)'
  BY DEF GrainIsThere
<1>6. app'.pc = "progress" => SentUpTo(app.got)'
  BY <1>3 DEF SentUpTo, HasSlices
<1>7. RangeContinues'
  BY <1>4, <1>5, <1>6 DEF RangeContinues
<1>8. src'.valid <= Slices
  BY DEF GrainsArrive, GrainTypes
<1>9. \A index \in Nat, n \in Nat : GrainIsThere(index, n) =>
          index <= src'.head /\ n <= Slices /\ (index = src'.head => n <= src'.valid)
  BY DEF GrainIsThere
<1> QED
  BY <1>7, <1>8, <1>9, MemoryKept

\* The demo's own steps: adding and leaving a target, reading and progress.
LEMMA AppStepsKeepGrains ==
  ASSUME RDMInv, GrainsArrive, kind = "grain", Undisturbed',
         AppSetup \/ AppTooLate \/ AppRead \/ AppMakeProgress \/ AppExit \/ AppTransferNotReady
  PROVE  GrainsArrive'
<1>0. /\ app \in [pc : {"setup", "read", "transfer", "progress", "exit"}, adds : Nat, index : Nat,
                  start : Nat, end : Nat, got : Nat]
      /\ src \in [head : Nat, valid : Nat, bad : SUBSET Nat] /\ src.valid <= Slices
      /\ Slices \in Nat
  BY TransferAssumption DEF TransferAssumption, RDMInv, RDMTypes, GrainsArrive, GrainTypes
<1>1. CASE AppSetup
  <2>1. /\ UNCHANGED <<src, net, tcq, dst, last>>
        /\ \/ app' = [app EXCEPT !.adds = @ + 1]
           \/ app' = [app EXCEPT !.pc = "read", !.index = src.head, !.start = 0, !.end = Batch]
           \/ app' = app
        /\ app.pc = "setup"
    BY <1>1 DEF AppSetup
  <2>2. app'.pc = "setup" \/ (app'.pc = "read" /\ app'.start = 0)
    BY <1>0, <2>1
  <2> QED
    BY <2>1, <2>2, RangeKept
<1>2. CASE AppTooLate
  <2>1. /\ UNCHANGED <<src, net, tcq, dst, last>> /\ app.pc = "read"
        /\ app' = [app EXCEPT !.index = src.head]
        /\ disturbed' = IF kind = "grain" /\ app.start # 0 THEN disturbed \cup {"jumped"} ELSE disturbed
    BY <1>2 DEF AppTooLate, memVars
  <2>2. app.start = 0
    BY <2>1 DEF Undisturbed
  <2>3. app'.pc = "read" /\ app'.start = 0
    BY <1>0, <2>1, <2>2
  <2> QED
    BY <2>1, <2>3, RangeKept
<1>3. CASE AppRead
  <2>1. /\ UNCHANGED <<src, net, tcq, dst, last>> /\ app.pc = "read"
        /\ app' = [app EXCEPT !.pc = "transfer", !.got = ValidOf(app.index)]
        /\ app.index <= src.head
    BY <1>3 DEF AppRead, memVars
  <2>2. /\ app'.pc = "transfer" /\ app'.start = app.start /\ app'.index = app.index
        /\ app'.got = ValidOf(app.index)
    BY <1>0, <2>1
  <2>3. GrainIsThere(app'.index, app'.got)
    BY <1>0, <2>1, <2>2 DEF GrainIsThere, ValidOf
  <2> QED
    BY <2>1, <2>2, <2>3, RangeKept
<1>4. CASE AppMakeProgress
  <2>1. /\ UNCHANGED <<src, net, tcq, dst, last>> /\ app.pc = "progress"
        /\ app' = Advance \/ app' = app
    BY <1>4 DEF AppMakeProgress
  <2>2. \/ app' = app
        \/ /\ app'.pc = "read"
           /\ app'.start = 0 \/ (app'.start = app.got /\ app'.index = app.index)
    <3>1. CASE app' = Advance /\ app.got # Slices
      BY <1>0, <3>1 DEF Advance
    <3>2. CASE app' = Advance /\ app.got = Slices
      BY <1>0, <3>2 DEF Advance
    <3> QED
      BY <2>1, <3>1, <3>2
  <2> QED
    BY <2>1, <2>2, RangeKept
<1>5. CASE AppExit
  <2>1. /\ UNCHANGED <<src, net, tcq, dst, last>> /\ app' = [app EXCEPT !.pc = "exit"]
    BY <1>5 DEF AppExit
  <2>2. app'.pc = "exit"
    BY <1>0, <2>1
  <2> QED
    BY <2>1, <2>2, RangeKept
<1>6. CASE AppTransferNotReady
  <2>1. /\ UNCHANGED <<src, net, tcq, dst, last>> /\ app' = [app EXCEPT !.pc = "read"]
        /\ app.pc = "transfer"
    BY <1>6 DEF AppTransferNotReady
  <2>2. app'.pc = "read" /\ app'.start = app.start /\ app'.index = app.index
    BY <1>0, <2>1
  <2> QED
    BY <2>1, <2>2, RangeKept
<1> QED
  BY <1>1, <1>2, <1>3, <1>4, <1>5, <1>6

\* A closed endpoint drops what it has posted; the next run begins at slice 0.
LEMMA DestroyKeepsGrains ==
  ASSUME RDMInv, GrainsArrive, AppDestroy
  PROVE  GrainsArrive'
<1>1. /\ UNCHANGED <<src, tcq, dst, last>> /\ net' = <<>>
      /\ app' = [app EXCEPT !.pc = "setup"]
  BY DEF AppDestroy
<1>2. app'.pc = "setup"
  BY <1>1 DEF RDMInv, RDMTypes
<1>3. Len(net') = 0
  BY <1>1
<1>4. GrainTypes'
  BY <1>1 DEF GrainsArrive, GrainTypes, IsQueue
<1>5. WritesAreThere' /\ WritesContinue'
  BY <1>3 DEF WritesAreThere, WritesContinue
<1>6. RangeContinues'
  BY <1>2 DEF RangeContinues
<1>7. AnnouncedIsThere' /\ last'.ok
  BY <1>1 DEF GrainsArrive, AnnouncedIsThere, HasSlices
<1> QED
  BY <1>4, <1>5, <1>6, <1>7 DEF GrainsArrive

\* A post continues the range, or begins a grain with its header.
LEMMA PostKeepsGrains ==
  ASSUME RDMInv, GrainsArrive, app.pc = "transfer",
         NEW from \in Nat, NEW to \in Nat, NEW token,
         net' = net \o <<[token |-> token, slot |-> app.index % Ring, index |-> app.index,
                          from |-> from, to |-> to]>>,
         from = 0 \/ from = app.start, GrainIsThere(app.index, to),
         UNCHANGED <<src, tcq, dst, last>>,
         \/ app'.pc = "progress" /\ app'.index = app.index /\ app'.got = to
         \/ app'.pc = "read" /\ app'.start = 0
  PROVE  GrainsArrive'
<1> DEFINE w == [token |-> token, slot |-> app.index % Ring, index |-> app.index,
                 from |-> from, to |-> to]
<1>0. w.slot = app.index % Ring /\ w.index = app.index /\ w.from = from /\ w.to = to
  OBVIOUS
<1>1. IsQueue(net) /\ Len(net) \in Nat /\ app.index \in Nat
  BY DEF RDMInv, RDMTypes, IsQueue
<1> HIDE DEF w
<1>2. /\ Len(net') = Len(net) + 1 /\ \A k \in 1..Len(net) : net'[k] = net[k]
      /\ net'[Len(net) + 1] = w
  BY <1>1, QueuePost DEF w
<1>3. GrainTypes' /\ AnnouncedIsThere' /\ last'.ok
  BY DEF GrainsArrive, GrainTypes, AnnouncedIsThere, HasSlices, IsQueue
<1>4. WritesAreThere'
  <2> SUFFICES ASSUME NEW k \in 1..Len(net')
               PROVE  /\ net'[k].index \in Nat /\ net'[k].slot = net'[k].index % Ring
                      /\ net'[k].from \in Nat /\ net'[k].to \in Nat
                      /\ GrainIsThere(net'[k].index, net'[k].to)
    BY DEF WritesAreThere, GrainIsThere
  <2>1. CASE k \in 1..Len(net)
    BY <1>2, <2>1 DEF GrainsArrive, WritesAreThere
  <2>2. CASE k = Len(net) + 1
    BY <1>0, <1>1, <1>2, <2>2
  <2> QED
    BY <1>1, <1>2, <2>1, <2>2
<1>5. WritesContinue'
  <2> SUFFICES ASSUME NEW k \in 1..Len(net'), net'[k].from > 0
               PROVE  IF k = 1 THEN HasSlices(net'[k].index, net'[k].from)
                      ELSE net'[k - 1].index = net'[k].index /\ net'[k - 1].to = net'[k].from
    BY DEF WritesContinue, HasSlices
  <2>1. CASE k \in 1..Len(net)
    <3>1. k # 1 => k - 1 \in 1..Len(net)
      BY <1>1, <2>1
    <3> QED
      BY <1>2, <2>1, <3>1 DEF GrainsArrive, WritesContinue
  <2>2. CASE k = Len(net) + 1
    <3>1. from = app.start /\ from > 0
      BY <1>0, <1>2, <2>2
    <3>2. SentUpTo(from)
      BY <3>1 DEF GrainsArrive, RangeContinues
    <3>3. CASE Len(net) = 0
      BY <1>0, <1>2, <2>2, <3>1, <3>2, <3>3 DEF SentUpTo
    <3>4. CASE Len(net) # 0
      <4>1. Len(net) \in 1..Len(net) /\ k # 1 /\ k - 1 = Len(net)
        BY <1>1, <2>2, <3>4
      <4> QED
        BY <1>0, <1>2, <2>2, <3>1, <3>2, <3>4, <4>1 DEF SentUpTo
    <3> QED
      BY <3>3, <3>4
  <2>3. k \in 1..Len(net) \/ k = Len(net) + 1
    BY <1>1, <1>2
  <2> QED
    BY <2>1, <2>2, <2>3
<1>6. RangeContinues'
  <2>1. CASE app'.pc = "progress" /\ app'.index = app.index /\ app'.got = to
    <3>1. Len(net') # 0 /\ net'[Len(net')] = w
      BY <1>1, <1>2
    <3>2. SentUpTo(app.got)'
      BY <1>0, <2>1, <3>1 DEF SentUpTo
    <3> QED
      BY <2>1, <3>2 DEF RangeContinues
  <2>2. CASE app'.pc = "read" /\ app'.start = 0
    BY <2>2 DEF RangeContinues, SentUpTo
  <2> QED
    BY <2>1, <2>2
<1> QED
  BY <1>3, <1>4, <1>5, <1>6 DEF GrainsArrive

LEMMA TransfersKeepGrains ==
  ASSUME RDMInv, GrainsArrive, kind = "grain", Undisturbed',
         AppTransferInvalid \/ AppTransferGrain \/ AppTransferSamples
  PROVE  GrainsArrive'
<1>0. /\ app \in [pc : {"setup", "read", "transfer", "progress", "exit"}, adds : Nat, index : Nat,
                  start : Nat, end : Nat, got : Nat]
      /\ src.valid \in Nat /\ Slices \in Nat
  BY TransferAssumption DEF TransferAssumption, RDMInv, RDMTypes
<1>1. CASE AppTransferInvalid
  <2>1. /\ UNCHANGED <<src, tcq, dst, last>> /\ app.pc = "transfer"
        /\ app' = [app EXCEPT !.pc = "read", !.index = @ + 1]
        /\ \/ transferRMAGrain(app.index, 0, 0)
           \/ net' = net
        /\ disturbed' = IF app.start # 0 THEN disturbed \cup {"jumped"} ELSE disturbed
    BY <1>1 DEF AppTransferInvalid
  <2>2. app.start = 0
    BY <2>1 DEF Undisturbed
  <2>3. app'.pc = "read" /\ app'.start = 0
    BY <1>0, <2>1, <2>2
  <2>4. CASE net' = net
    BY <2>1, <2>3, <2>4, RangeKept
  <2>5. CASE transferRMAGrain(app.index, 0, 0)
    <3>1. net' = net \o <<[token |-> remote.token, slot |-> app.index % Ring, index |-> app.index,
                           from |-> 0, to |-> 0]>>
      BY <2>5 DEF transferRMAGrain, Posted
    <3>2. GrainIsThere(app.index, 0)
      BY <1>0, <2>1 DEF GrainsArrive, RangeContinues, GrainIsThere
    <3> QED
      BY <2>1, <2>3, <3>1, <3>2, PostKeepsGrains
  <2> QED
    BY <2>1, <2>4, <2>5
<1>2. CASE AppTransferGrain
  <2>1. /\ UNCHANGED <<src, tcq, dst, last>> /\ app.pc = "transfer"
        /\ app' = [app EXCEPT !.pc = "progress"]
        /\ transferRMAGrain(app.index, app.start, app.got)
    BY <1>2 DEF AppTransferGrain
  <2>2. net' = net \o <<[token |-> remote.token, slot |-> app.index % Ring, index |-> app.index,
                         from |-> app.start, to |-> app.got]>>
    BY <2>1 DEF transferRMAGrain, Posted
  <2>3. app'.pc = "progress" /\ app'.index = app.index /\ app'.got = app.got
    BY <1>0, <2>1
  <2>4. GrainIsThere(app.index, app.got) /\ app.start \in Nat /\ app.got \in Nat
    BY <1>0, <2>1 DEF GrainsArrive, RangeContinues
  <2> QED
    BY <2>1, <2>2, <2>3, <2>4, PostKeepsGrains
<1>3. ~AppTransferSamples
  BY DEF AppTransferSamples
<1> QED
  BY <1>1, <1>2, <1>3

\* The fabric executes a write that is not too late: the slot has what was sent.
LEMMA DeliverKeepsGrains ==
  ASSUME RDMInv, GrainsArrive, kind = "grain", Undisturbed', Deliver
  PROVE  GrainsArrive'
<1> DEFINE w == Head(net)
<1>1. IsQueue(net) /\ net # <<>> /\ Len(net) \in Nat
  BY DEF Deliver, RDMInv, RDMTypes, IsQueue
<1>2. /\ net' = Tail(net) /\ UNCHANGED <<src, app, last>>
      /\ dst' = GrainWritten(w)
      /\ tcq' = Append(tcq, [slot |-> w.slot, end |-> w.to, index |-> w.index])
      /\ ~SourceLapped(w) /\ ~TargetOverrun(w)
  BY DEF Deliver, appVars, Undisturbed
<1>3. /\ Len(net) >= 1 /\ Len(net') = Len(net) - 1 /\ w = net[1]
      /\ \A k \in 1..Len(net) - 1 : net'[k] = net[k + 1]
  BY <1>1, <1>2, QueueTail
<1>4. /\ w.index \in Nat /\ w.slot = w.index % Ring /\ w.from \in Nat /\ w.to \in Nat
      /\ GrainIsThere(w.index, w.to) /\ w.slot \in 0..Ring - 1
      /\ w.from > 0 => HasSlices(w.index, w.from)
  <2>1. 1 \in 1..Len(net)
    BY <1>1, <1>3
  <2>2. /\ net[1].index \in Nat /\ net[1].slot = net[1].index % Ring
        /\ net[1].from \in Nat /\ net[1].to \in Nat /\ GrainIsThere(net[1].index, net[1].to)
    BY <2>1 DEF GrainsArrive, WritesAreThere
  <2>3. net[1].from > 0 => HasSlices(net[1].index, net[1].from)
    BY <2>1 DEF GrainsArrive, WritesContinue
  <2>4. net[1].slot \in 0..Ring - 1
    BY <2>2, RingSlots
  <2> QED
    BY <1>3, <2>2, <2>3, <2>4
<1>5. GrainIn(w.slot) = w.index
  BY <1>2 DEF SourceLapped
<1> HIDE DEF w
<1>6. /\ src.head \in Nat /\ src.valid \in Nat /\ Slices \in Nat /\ IsQueue(tcq)
      /\ dst \in [0..Ring - 1 -> [index : Nat, valid : Nat, slice : [1..Slices -> Nat]]]
  BY TransferAssumption DEF TransferAssumption, RDMInv, RDMTypes, GrainsArrive, GrainTypes
<1>7. ValidOf(w.index) \in Nat /\ w.to <= ValidOf(w.index)
  BY <1>4, <1>6 DEF ValidOf, GrainIsThere
<1> DEFINE old == dst[w.slot]
           new == [index |-> IF w.from = 0 THEN GrainIn(w.slot) ELSE old.index,
                   valid |-> IF w.from = 0 THEN ValidOf(GrainIn(w.slot)) ELSE old.valid,
                   slice |-> [j \in 1..Slices |-> IF j > w.from /\ j <= w.to THEN SliceIn(w.slot, j)
                                                  ELSE old.slice[j]]]
<1>8. dst' = [dst EXCEPT ![w.slot] = new]
  BY <1>2 DEF GrainWritten
<1>9. \A j \in 1..Slices : j <= w.to => SliceIn(w.slot, j) = w.index
  BY <1>4, <1>5, <1>7 DEF SliceIn
<1>10. /\ old \in [index : Nat, valid : Nat, slice : [1..Slices -> Nat]]
       /\ w.from > 0 => old.index = w.index /\ \A j \in 1..w.from : old.slice[j] = w.index
  BY <1>4, <1>6 DEF HasSlices
<1>11. /\ new.index = w.index
       /\ \A j \in 1..Slices : /\ new.slice[j] \in Nat
                               /\ j <= w.to => new.slice[j] = w.index
                               /\ old.slice[j] = w.index => new.slice[j] = w.index
  <2>1. new.index = w.index
    BY <1>4, <1>5, <1>10
  <2>2. ASSUME NEW j \in 1..Slices
        PROVE  /\ new.slice[j] \in Nat
               /\ j <= w.to => new.slice[j] = w.index
               /\ old.slice[j] = w.index => new.slice[j] = w.index
    <3>1. new.slice[j] = IF j > w.from /\ j <= w.to THEN SliceIn(w.slot, j) ELSE old.slice[j]
      OBVIOUS
    <3>2. old.slice[j] \in Nat
      BY <1>10
    <3>3. CASE j > w.from /\ j <= w.to
      BY <1>4, <1>9, <3>1, <3>3
    <3>4. CASE ~(j > w.from /\ j <= w.to)
      <4>1. new.slice[j] = old.slice[j]
        BY <3>1, <3>4
      <4>2. j <= w.to => w.from > 0 /\ j \in 1..w.from
        BY <1>4, <3>4
      <4> HIDE DEF new, old
      <4> QED
        BY <1>10, <3>2, <4>1, <4>2
    <3> QED
      BY <3>3, <3>4
  <2> QED
    BY <2>1, <2>2
<1>12. new \in [index : Nat, valid : Nat, slice : [1..Slices -> Nat]]
  <2>1. new.index \in Nat
    BY <1>4, <1>11
  <2>2. (IF w.from = 0 THEN ValidOf(GrainIn(w.slot)) ELSE old.valid) \in Nat
    BY <1>5, <1>7, <1>10
  <2>3. new.slice \in [1..Slices -> Nat]
    <3>1. \A j \in 1..Slices : new.slice[j] \in Nat
      BY <1>11
    <3>2. new.slice = [j \in 1..Slices |-> new.slice[j]]
      OBVIOUS
    <3> HIDE DEF new
    <3> QED
      BY <3>1, <3>2
  <2>4. new = [index |-> new.index,
               valid |-> IF w.from = 0 THEN ValidOf(GrainIn(w.slot)) ELSE old.valid,
               slice |-> new.slice]
    OBVIOUS
  <2> HIDE DEF new, old
  <2> QED
    BY <2>1, <2>2, <2>3, <2>4
<1> HIDE DEF new, old
<1>13. /\ dst' \in [0..Ring - 1 -> [index : Nat, valid : Nat, slice : [1..Slices -> Nat]]]
       /\ dst'[w.slot] = new
       /\ \A s \in 0..Ring - 1 : s # w.slot => dst'[s] = dst[s]
  BY <1>4, <1>6, <1>8, <1>12
\* What a slot has of a grain that is in use stays there; the write adds its own.
<1>14. /\ dst'[w.index % Ring].index = w.index
       /\ \A j \in 1..w.to : dst'[w.index % Ring].slice[j] = w.index
  <2>1. \A j \in 1..w.to : j \in 1..Slices
    BY <1>4, <1>6 DEF GrainIsThere
  <2> QED
    BY <1>4, <1>11, <1>13, <2>1
<1>15. ASSUME NEW index \in Nat, NEW n \in 0..Slices, HasSlices(index, n),
              index % Ring = w.slot => index = w.index
       PROVE  /\ dst'[index % Ring].index = index
              /\ \A j \in 1..n : dst'[index % Ring].slice[j] = index
  <2>1. CASE index % Ring = w.slot
    <3>1. index = w.index /\ \A j \in 1..n : j \in 1..Slices
      BY <1>6, <1>15, <2>1
    <3>2. \A j \in 1..n : old.slice[j] = w.index
      BY <1>15, <2>1, <3>1 DEF HasSlices, old
    <3> QED
      BY <1>11, <1>13, <2>1, <3>1, <3>2
  <2>2. CASE index % Ring # w.slot
    BY <1>13, <1>15, <2>2, RingSlots DEF HasSlices
  <2> QED
    BY <2>1, <2>2
<1>16. /\ IsQueue(tcq') /\ Len(tcq') = Len(tcq) + 1 /\ Len(tcq) \in Nat
       /\ \A k \in 1..Len(tcq) : tcq'[k] = tcq[k]
       /\ tcq'[Len(tcq) + 1] = [slot |-> w.slot, end |-> w.to, index |-> w.index]
  BY <1>2, <1>6, QueueAppend DEF IsQueue
<1>17. GrainTypes'
  BY <1>2, <1>13, <1>16 DEF GrainTypes, GrainsArrive
<1>18. WritesAreThere'
  <2> SUFFICES ASSUME NEW k \in 1..Len(net')
               PROVE  /\ net'[k].index \in Nat /\ net'[k].slot = net'[k].index % Ring
                      /\ net'[k].from \in Nat /\ net'[k].to \in Nat
                      /\ GrainIsThere(net'[k].index, net'[k].to)
    BY <1>2 DEF WritesAreThere, GrainIsThere
  <2>1. k + 1 \in 1..Len(net) /\ net'[k] = net[k + 1]
    BY <1>1, <1>3
  <2> QED
    BY <2>1 DEF GrainsArrive, WritesAreThere
<1>19. WritesContinue'
  <2> SUFFICES ASSUME NEW k \in 1..Len(net'), net'[k].from > 0
               PROVE  IF k = 1 THEN /\ dst'[net'[k].index % Ring].index = net'[k].index
                                    /\ \A j \in 1..net'[k].from :
                                          dst'[net'[k].index % Ring].slice[j] = net'[k].index
                      ELSE net'[k - 1].index = net'[k].index /\ net'[k - 1].to = net'[k].from
    BY DEF WritesContinue, HasSlices
  <2>1. k + 1 \in 1..Len(net) /\ net'[k] = net[k + 1] /\ k + 1 # 1 /\ k + 1 - 1 = k
    BY <1>1, <1>3
  <2>2. net[k].index = net[k + 1].index /\ net[k].to = net[k + 1].from
    BY <2>1 DEF GrainsArrive, WritesContinue
  <2>3. k # 1 => k - 1 \in 1..Len(net) - 1 /\ k - 1 + 1 = k
    BY <1>1, <1>3
  <2>4. k # 1 => net'[k - 1] = net[k]
    BY <1>3, <2>3
  <2> QED
    BY <1>3, <1>14, <2>1, <2>2, <2>4
<1>20. RangeContinues'
  <2>1. ASSUME NEW n, SentUpTo(n), n > 0
        PROVE  IF Len(net') = 0
               THEN /\ dst'[app.index % Ring].index = app.index
                    /\ \A j \in 1..n : dst'[app.index % Ring].slice[j] = app.index
               ELSE net'[Len(net')].index = app.index /\ net'[Len(net')].to = n
    <3>1. net[Len(net)].index = app.index /\ net[Len(net)].to = n
      BY <1>1, <1>3, <2>1 DEF SentUpTo
    <3>2. CASE Len(net') = 0
      <4>1. Len(net) = 1
        BY <1>1, <1>3, <3>2
      <4>2. w.index = app.index /\ w.to = n
        BY <1>3, <3>1, <4>1
      <4> QED
        BY <1>14, <3>2, <4>2
    <3>3. CASE Len(net') # 0
      <4>1. Len(net') \in 1..Len(net) - 1 /\ Len(net') + 1 = Len(net)
        BY <1>1, <1>3, <3>3
      <4>2. net'[Len(net')] = net[Len(net)]
        BY <1>3, <4>1
      <4> QED
        BY <3>1, <3>3, <4>2
    <3> QED
      BY <3>2, <3>3
  <2>2. SentUpTo(app.start) => SentUpTo(app.start)'
    BY <1>2, <2>1 DEF SentUpTo, HasSlices
  <2>3. SentUpTo(app.got) => SentUpTo(app.got)'
    BY <1>2, <2>1 DEF SentUpTo, HasSlices
  <2>4. GrainIsThere(app.index, app.got) => GrainIsThere(app.index, app.got)'
    BY <1>2 DEF GrainIsThere
  <2> QED
    BY <1>2, <2>2, <2>3, <2>4 DEF GrainsArrive, RangeContinues
<1>21. AnnouncedIsThere'
  <2> SUFFICES ASSUME NEW k \in 1..Len(tcq')
               PROVE  /\ tcq'[k].index \in Nat /\ tcq'[k].slot = tcq'[k].index % Ring
                      /\ tcq'[k].end \in 0..Slices
                      /\ dst'[tcq'[k].index % Ring].index = tcq'[k].index
                      /\ \A j \in 1..tcq'[k].end :
                            dst'[tcq'[k].index % Ring].slice[j] = tcq'[k].index
    BY DEF AnnouncedIsThere, HasSlices
  <2>1. CASE k \in 1..Len(tcq)
    <3>1. /\ tcq[k].index \in Nat /\ tcq[k].slot = tcq[k].index % Ring /\ tcq[k].end \in 0..Slices
          /\ HasSlices(tcq[k].index, tcq[k].end)
      BY <2>1 DEF GrainsArrive, AnnouncedIsThere
    <3>2. tcq[k].slot = w.slot => tcq[k].index = w.index
      BY <1>2, <2>1 DEF TargetOverrun
    <3> QED
      BY <1>15, <1>16, <2>1, <3>1, <3>2
  <2>2. CASE k = Len(tcq) + 1
    <3>1. tcq'[k].index = w.index /\ tcq'[k].slot = w.slot /\ tcq'[k].end = w.to
      BY <1>16, <2>2
    <3>2. w.to \in 0..Slices
      BY <1>4, <1>6 DEF GrainIsThere
    <3> QED
      BY <1>4, <1>14, <3>1, <3>2
  <2> QED
    BY <1>16, <2>1, <2>2
<1> QED
  BY <1>2, <1>17, <1>18, <1>19, <1>20, <1>21 DEF GrainsArrive

\* The target commits the slices that were announced.
LEMMA TargetReadKeepsGrains ==
  ASSUME RDMInv, GrainsArrive, kind = "grain", TargetReadsGrain
  PROVE  GrainsArrive'
<1> DEFINE imm == Head(tcq)
<1>1. /\ UNCHANGED <<src, app, net>> /\ tcq # <<>> /\ tcq' = Tail(tcq)
      /\ dst' = [dst EXCEPT ![imm.slot].valid = imm.end]
      /\ last' = [index |-> dst'[imm.slot].index,
                  ok |-> /\ dst'[imm.slot].index = imm.index
                         /\ \A j \in 1..dst'[imm.slot].valid :
                               dst'[imm.slot].slice[j] = dst'[imm.slot].index]
  BY DEF TargetReadsGrain, readGrain, appVars
<1>2. /\ IsQueue(tcq)
      /\ dst \in [0..Ring - 1 -> [index : Nat, valid : Nat, slice : [1..Slices -> Nat]]]
  BY DEF GrainsArrive, GrainTypes
<1>3. /\ IsQueue(tcq') /\ Len(tcq) \in Nat /\ Len(tcq) >= 1 /\ Len(tcq') = Len(tcq) - 1
      /\ imm = tcq[1] /\ \A k \in 1..Len(tcq) - 1 : tcq'[k] = tcq[k + 1]
  <2>1. tcq' = Tail(tcq)
    BY <1>1
  <2>2. Len(tcq) \in Nat
    BY <1>2 DEF IsQueue
  <2>3. /\ IsQueue(Tail(tcq)) /\ Len(tcq) >= 1 /\ Len(Tail(tcq)) = Len(tcq) - 1
        /\ Head(tcq) = tcq[1] /\ \A k \in 1..Len(tcq) - 1 : Tail(tcq)[k] = tcq[k + 1]
    BY <1>1, <1>2, QueueTail, Zenon
  <2> QED
    BY <2>1, <2>2, <2>3, Zenon
<1>4. /\ imm.index \in Nat /\ imm.slot = imm.index % Ring /\ imm.end \in 0..Slices
      /\ HasSlices(imm.index, imm.end) /\ imm.slot \in 0..Ring - 1
  <2>1. 1 \in 1..Len(tcq)
    BY <1>3
  <2>2. /\ tcq[1].index \in Nat /\ tcq[1].slot = tcq[1].index % Ring /\ tcq[1].end \in 0..Slices
        /\ HasSlices(tcq[1].index, tcq[1].end)
    BY <2>1 DEF GrainsArrive, AnnouncedIsThere
  <2>3. tcq[1].slot \in 0..Ring - 1
    BY <2>2, RingSlots
  <2> QED
    BY <1>3, <2>2, <2>3
<1> HIDE DEF imm
<1>5. imm.end \in Nat
  BY <1>4, TransferAssumption DEF TransferAssumption
<1>6. /\ dst' \in [0..Ring - 1 -> [index : Nat, valid : Nat, slice : [1..Slices -> Nat]]]
      /\ dst'[imm.slot].valid = imm.end
      /\ \A s \in 0..Ring - 1 : dst'[s].index = dst[s].index /\ dst'[s].slice = dst[s].slice
  BY <1>1, <1>2, <1>4, <1>5
<1>7. ASSUME NEW index \in Nat, NEW n, HasSlices(index, n)
      PROVE  /\ dst'[index % Ring].index = index
             /\ \A j \in 1..n : dst'[index % Ring].slice[j] = index
  BY <1>6, <1>7, RingSlots DEF HasSlices
<1>8. last'.ok
  <2>1. /\ dst'[imm.slot].index = imm.index
        /\ \A j \in 1..imm.end : dst'[imm.slot].slice[j] = imm.index
    BY <1>4, <1>7
  <2>2. /\ dst'[imm.slot].index = imm.index
        /\ \A j \in 1..dst'[imm.slot].valid : dst'[imm.slot].slice[j] = dst'[imm.slot].index
    BY <1>6, <2>1
  <2> QED
    BY <1>1, <2>2
<1>9. GrainTypes' /\ WritesAreThere'
  BY <1>1, <1>3, <1>6 DEF GrainsArrive, GrainTypes, WritesAreThere, GrainIsThere
<1>10. WritesContinue'
  <2> SUFFICES ASSUME NEW k \in 1..Len(net), net[k].from > 0
               PROVE  IF k = 1 THEN /\ dst'[net[k].index % Ring].index = net[k].index
                                    /\ \A j \in 1..net[k].from :
                                          dst'[net[k].index % Ring].slice[j] = net[k].index
                      ELSE net[k - 1].index = net[k].index /\ net[k - 1].to = net[k].from
    BY <1>1 DEF WritesContinue, HasSlices
  <2>1. net[k].index \in Nat
    BY DEF GrainsArrive, WritesAreThere
  <2>2. IF k = 1 THEN HasSlices(net[k].index, net[k].from)
        ELSE net[k - 1].index = net[k].index /\ net[k - 1].to = net[k].from
    BY DEF GrainsArrive, WritesContinue
  <2> QED
    BY <1>7, <2>1, <2>2
<1>11. RangeContinues'
  <2>1. app.index \in Nat
    BY DEF RDMInv, RDMTypes
  <2>2. SentUpTo(app.start) => SentUpTo(app.start)'
    BY <1>1, <1>7, <2>1 DEF SentUpTo, HasSlices
  <2>3. SentUpTo(app.got) => SentUpTo(app.got)'
    BY <1>1, <1>7, <2>1 DEF SentUpTo, HasSlices
  <2>4. GrainIsThere(app.index, app.got) => GrainIsThere(app.index, app.got)'
    BY <1>1 DEF GrainIsThere
  <2> QED
    BY <1>1, <2>2, <2>3, <2>4 DEF GrainsArrive, RangeContinues
<1>12. AnnouncedIsThere'
  <2> SUFFICES ASSUME NEW k \in 1..Len(tcq')
               PROVE  /\ tcq'[k].index \in Nat /\ tcq'[k].slot = tcq'[k].index % Ring
                      /\ tcq'[k].end \in 0..Slices
                      /\ dst'[tcq'[k].index % Ring].index = tcq'[k].index
                      /\ \A j \in 1..tcq'[k].end :
                            dst'[tcq'[k].index % Ring].slice[j] = tcq'[k].index
    BY DEF AnnouncedIsThere, HasSlices
  <2>1. k + 1 \in 1..Len(tcq) /\ tcq'[k] = tcq[k + 1]
    BY <1>3
  <2>2. /\ tcq[k + 1].index \in Nat /\ tcq[k + 1].slot = tcq[k + 1].index % Ring
        /\ tcq[k + 1].end \in 0..Slices /\ HasSlices(tcq[k + 1].index, tcq[k + 1].end)
    BY <2>1 DEF GrainsArrive, AnnouncedIsThere
  <2> QED
    BY <1>7, <2>1, <2>2
<1> QED
  BY <1>8, <1>9, <1>10, <1>11, <1>12 DEF GrainsArrive

LEMMA NextGrainInv ==
  ASSUME RDMInv, GrainInv, [RDMNext]_rdmVars
  PROVE  GrainInv'
<1> SUFFICES ASSUME kind' = "grain", Undisturbed'
             PROVE  GrainsArrive'
  BY DEF GrainInv
<1>1. kind = "grain" /\ Undisturbed /\ GrainsArrive
  BY DisturbedGrows DEF Undisturbed, GrainInv
<1>2. CASE SourceWrites
  BY <1>1, <1>2, SourceWritesGrain
<1>3. CASE AppSetup \/ AppTooLate \/ AppRead \/ AppMakeProgress \/ AppExit \/ AppTransferNotReady
  BY <1>1, <1>3, AppStepsKeepGrains
<1>4. CASE AppTransferInvalid \/ AppTransferGrain \/ AppTransferSamples
  BY <1>1, <1>4, TransfersKeepGrains
<1>5. CASE AppDestroy
  BY <1>1, <1>5, DestroyKeepsGrains
<1>6. CASE Deliver
  BY <1>1, <1>6, DeliverKeepsGrains
<1>7. ~FailRDMWrite
  BY DEF FailRDMWrite, Undisturbed
<1>8. CASE TargetReadsGrain
  BY <1>1, <1>8, TargetReadKeepsGrains
<1>9. ~TargetReadsSamples
  BY <1>1 DEF TargetReadsSamples
<1>10. CASE UNCHANGED rdmVars
  <2>1. UNCHANGED <<src, app, net, tcq, dst, last>>
    BY <1>10 DEF rdmVars
  <2>2. app'.pc = "transfer" => GrainIsThere(app'.index, app'.got)
    BY <1>1, <2>1 DEF GrainsArrive, RangeContinues
  <2>3. app'.pc \in {"read", "transfer"} =>
            /\ app'.start = app.start /\ app'.index = app.index /\ app.pc \in {"read", "transfer"}
    BY <2>1
  <2> QED
    BY <1>1, <2>1, <2>2, <2>3, RangeKept
<1> QED
  BY <1>2, <1>3, <1>4, <1>5, <1>6, <1>7, <1>8, <1>9, <1>10 DEF RDMNext

LEMMA InitGrainInv ==
  ASSUME RDMInit
  PROVE  GrainInv
<1> SUFFICES ASSUME kind = "grain" PROVE GrainsArrive
  BY DEF GrainInv
<1>1. Len(net) = 0 /\ Len(tcq) = 0 /\ IsQueue(tcq)
  BY DEF RDMInit, IsQueue
<1>2. GrainTypes
  <2>1. src.valid = 0 /\ Slices \in Nat
    BY TransferAssumption DEF TransferAssumption, RDMInit
  <2>2. dst \in [0..Ring - 1 -> [index : Nat, valid : Nat, slice : [1..Slices -> Nat]]]
    BY DEF RDMInit
  <2> QED
    BY <1>1, <2>1, <2>2 DEF GrainTypes
<1>3. app.pc = "setup" /\ last.ok
  BY DEF RDMInit
<1> QED
  BY <1>1, <1>2, <1>3
  DEF GrainsArrive, WritesAreThere, WritesContinue, RangeContinues, AnnouncedIsThere

-----------------------------------------------------------------------------
\* Samples over the connectionless initiator: the cells of an entry.

\* Quotient and remainder, and multiples of a length.
LEMMA Division ==
  ASSUME NEW a \in Nat, NEW b \in Nat, b > 0
  PROVE  /\ a \div b \in Nat /\ a % b \in Nat /\ a % b < b
         /\ a = (a \div b) * b + (a % b)
  BY SMT

LEMMA Multiples ==
  ASSUME NEW b \in Nat, NEW p \in Nat, NEW q \in Nat, p + 1 <= q
  PROVE  p * b \in Nat /\ q * b \in Nat /\ p * b + b <= q * b
  BY SMT

LEMMA DivisionIs ==
  ASSUME NEW b \in Nat, b > 0, NEW q \in Nat, NEW s \in Nat, s < b
  PROVE  (q * b + s) % b = s /\ (q * b + s) \div b = q
<1> DEFINE a == q * b + s
           d == a \div b
<1>1. a \in Nat /\ q * b \in Nat
  BY SMT
<1>2. d \in Nat /\ a % b \in Nat /\ a % b < b /\ a = d * b + (a % b)
  BY <1>1, Division
<1>3. ~(d + 1 <= q)
  <2>1. SUFFICES ASSUME d + 1 <= q PROVE FALSE
    OBVIOUS
  <2>2. d * b \in Nat /\ d * b + b <= q * b
    BY <1>2, <2>1, Multiples
  <2> HIDE DEF d
  <2> QED
    BY <1>1, <1>2, <2>2
<1>4. ~(q + 1 <= d)
  <2>1. SUFFICES ASSUME q + 1 <= d PROVE FALSE
    OBVIOUS
  <2>2. d * b \in Nat /\ q * b + b <= d * b
    BY <1>2, <2>1, Multiples
  <2> HIDE DEF d
  <2> QED
    BY <1>1, <1>2, <2>2
<1>5. d = q
  <2> HIDE DEF d
  <2> QED
    BY <1>2, <1>3, <1>4
<1>6. a % b = s
  <2> DEFINE m == a % b
             p == q * b
  <2>1. m \in Nat /\ p \in Nat /\ p + s = p + m
    BY <1>1, <1>2, <1>5
  <2> HIDE DEF m, p
  <2> QED
    BY <2>1 DEF m
<1> QED
  BY <1>5, <1>6

\* Two indices less than a ring apart lie at different positions.
LEMMA SamePosition ==
  ASSUME NEW b \in Nat, b > 0, NEW x \in Nat, NEW y \in Nat, x < y + b, y < x + b, x % b = y % b
  PROVE  x = y
<1> DEFINE p == x \div b
           q == y \div b
           s == x % b
<1>1. /\ p \in Nat /\ s \in Nat /\ s < b /\ x = p * b + s
      /\ q \in Nat /\ y = q * b + s
  BY Division
<1>2. p * b \in Nat /\ q * b \in Nat
  BY <1>1
<1> HIDE DEF p, q, s
<1>3. CASE p = q
  BY <1>1, <1>2, <1>3
<1>4. CASE p + 1 <= q
  BY <1>1, <1>2, <1>4, Multiples
<1>5. CASE q + 1 <= p
  BY <1>1, <1>2, <1>5, Multiples
<1> QED
  BY <1>1, <1>3, <1>4, <1>5

\* The fragments of a batch are the positions of its indices, in order.
LEMMA FragmentsAreTheBatch ==
  ASSUME NEW head \in Nat, NEW len \in Nat, Count <= len, Count <= head
  PROVE  /\ fragmentStart(head, Count, len) \in Nat
         /\ fragmentLength(head, Count, len) \in 1..Count
         /\ \A i \in Nat : i < fragmentLength(head, Count, len) =>
                fragmentStart(head, Count, len) + i = (head - Count + i) % len
         /\ \A i \in Nat : i < Count - fragmentLength(head, Count, len) =>
                i = (head - Count + fragmentLength(head, Count, len) + i) % len
<1> DEFINE a == head - Count
           q == a \div len
           s == a % len
           p == q * len
           f == fragmentLength(head, Count, len)
<1>1. Count \in Nat /\ Count >= 1 /\ len > 0 /\ a \in Nat /\ head = a + Count
  BY TransferAssumption DEF TransferAssumption
<1>2. q \in Nat /\ s \in Nat /\ s < len /\ a = p + s /\ p \in Nat
  <2> HIDE DEF a
  <2> QED
    BY <1>1, Division
<1>3. \A t \in Nat : t < len => (p + t) % len = t
  <2> HIDE DEF q
  <2> QED
    BY <1>1, <1>2, DivisionIs
<1>4. \A t \in Nat : len <= t /\ t < 2 * len => (p + t) % len = t - len
  <2>1. SUFFICES ASSUME NEW t \in Nat, len <= t, t < 2 * len
                 PROVE  (p + t) % len = t - len
    OBVIOUS
  <2>2. ((q + 1) * len + (t - len)) % len = t - len
    <3>1. q + 1 \in Nat /\ t - len \in Nat /\ t - len < len
      BY <1>1, <1>2, <2>1
    <3> HIDE DEF q
    <3> QED
      BY <1>1, <3>1, DivisionIs
  <2>3. (q + 1) * len = p + len
    BY <1>1, <1>2
  <2>4. (q + 1) * len + (t - len) = p + t
    <3> HIDE DEF p, q
    <3> QED
      BY <1>1, <1>2, <2>1, <2>3
  <2> QED
    BY <2>2, <2>4
<1>5. fragmentStart(head, Count, len) = s
  <2>1. (p + (s + len)) % len = s
    <3> DEFINE t == s + len
    <3>1. t \in Nat /\ len <= t /\ t < 2 * len /\ t - len = s
      <4> HIDE DEF s, p
      <4> QED
        BY <1>2
    <3> HIDE DEF t
    <3>2. (p + t) % len = s
      BY <1>4, <3>1, Zenon
    <3> QED
      BY <3>2 DEF t
  <2>2. p + (s + len) = head + len - Count
    <3> HIDE DEF p, s
    <3> QED
      BY <1>1, <1>2
  <2> QED
    BY <2>1, <2>2 DEF fragmentStart
<1>6. head = p + (s + Count)
  <2> HIDE DEF p, s
  <2> QED
    BY <1>1, <1>2
<1>7. /\ f = IF s + Count < len THEN Count ELSE len - s
      /\ f \in 1..Count /\ s + f <= len
  <2>1. f = IF s < head % len THEN Count ELSE len - s
    BY <1>5 DEF fragmentLength
  <2> DEFINE t == s + Count
  <2>2. t \in Nat /\ t < 2 * len /\ head = p + t
    <3> HIDE DEF p, s
    <3> QED
      BY <1>1, <1>2, <1>6
  <2> HIDE DEF t
  <2>3. t < len => head % len = t
    BY <1>3, <2>2, Zenon
  <2>4. len <= t => head % len = t - len
    BY <1>4, <2>2, Zenon
  <2> HIDE DEF s, f, p
  <2> QED
    BY <1>1, <1>2, <2>1, <2>2, <2>3, <2>4 DEF t
<1> HIDE DEF a, s, f, p, q
<1>8. \A i \in Nat : i < f => s + i = (a + i) % len
  <2> SUFFICES ASSUME NEW i \in Nat, i < f PROVE s + i = (a + i) % len
    OBVIOUS
  <2>1. a + i = p + (s + i) /\ s + i \in Nat /\ s + i < len
    BY <1>1, <1>2, <1>7
  <2> QED
    BY <1>3, <2>1
<1>9. \A i \in Nat : i < Count - f => i = (a + f + i) % len
  <2> SUFFICES ASSUME NEW i \in Nat, i < Count - f PROVE i = (a + f + i) % len
    OBVIOUS
  <2>1. f = len - s
    BY <1>1, <1>2, <1>7
  <2>2. a + f + i = p + (len + i) /\ len + i \in Nat /\ len + i < 2 * len
    BY <1>1, <1>2, <1>7, <2>1
  <2> QED
    BY <1>1, <1>4, <2>2
<1> QED
  BY <1>2, <1>5, <1>7, <1>8, <1>9 DEF a, f

\* The index in its batch, counted from 1, that a cell belongs to.
SampleOf(k, head, len) ==
    LET first == fragmentLength(head, Count, len)
    IN  IF k <= first * Channels THEN ((k - 1) % first) + 1
        ELSE first + ((k - 1 - first * Channels) % (Count - first)) + 1

\* The cells of both fragments together are those of the batch.
LEMMA CellCount ==
  ASSUME NEW f \in 1..Count
  PROVE  /\ Count \in Nat /\ Channels \in Nat /\ Channels >= 1 /\ f \in Nat /\ Count - f \in Nat
         /\ f * Channels \in Nat /\ (Count - f) * Channels \in Nat /\ Count * Channels \in Nat
         /\ Count * Channels = f * Channels + (Count - f) * Channels
         /\ Count - f = 0 => (Count - f) * Channels = 0
<1>1. Count \in Nat /\ Channels \in Nat /\ Channels >= 1
  BY TransferAssumption DEF TransferAssumption
<1>2. f \in Nat /\ Count - f \in Nat
  BY <1>1
<1>3. ASSUME NEW a \in Nat, NEW b \in Nat, NEW c \in Nat
      PROVE  a * c \in Nat /\ b * c \in Nat /\ (a + b) * c = a * c + b * c /\ 0 * c = 0
  OBVIOUS
<1>4. f + (Count - f) = Count
  BY <1>1, <1>2
<1>5. f * Channels \in Nat /\ (Count - f) * Channels \in Nat
      /\ (f + (Count - f)) * Channels = f * Channels + (Count - f) * Channels /\ 0 * Channels = 0
  BY <1>1, <1>2, <1>3
<1> QED
  BY <1>1, <1>2, <1>4, <1>5

LEMMA CellsAreSamples ==
  ASSUME NEW head \in Nat, NEW len \in Nat, Count <= len, Count <= head,
         NEW k \in 1..(Count * Channels)
  PROVE  /\ SampleOf(k, head, len) \in 1..Count
         /\ cellAt(k, head, Count, len).pos = (head - Count + SampleOf(k, head, len) - 1) % len
<1> DEFINE f == fragmentLength(head, Count, len)
           s == fragmentStart(head, Count, len)
           m == f * Channels
           rest == k - 1 - m
           n == SampleOf(k, head, len)
<1>1. /\ s \in Nat /\ f \in 1..Count
      /\ \A i \in Nat : i < f => s + i = (head - Count + i) % len
      /\ \A i \in Nat : i < Count - f => i = (head - Count + f + i) % len
  BY FragmentsAreTheBatch
<1>2. cellAt(k, head, Count, len).pos = IF k <= m THEN s + ((k - 1) % f) ELSE rest % (Count - f)
  BY DEF cellAt
<1>3. n = IF k <= m THEN ((k - 1) % f) + 1 ELSE f + (rest % (Count - f)) + 1
  BY DEF SampleOf
<1> HIDE DEF f, s, n
<1>4. /\ Count \in Nat /\ Channels \in Nat /\ m \in Nat /\ Count - f \in Nat /\ f \in Nat
      /\ Count * Channels = m + (Count - f) * Channels
      /\ Count - f = 0 => (Count - f) * Channels = 0
      /\ (Count - f) * Channels \in Nat /\ Count * Channels \in Nat
  BY <1>1, CellCount
<1> HIDE DEF m
<1>5. CASE k <= m
  <2>1. k - 1 \in Nat /\ f > 0
    BY <1>1, <1>4
  <2>2. (k - 1) % f \in Nat /\ (k - 1) % f < f
    BY <1>4, <2>1, Division
  <2> DEFINE r == (k - 1) % f
  <2>3. n = r + 1 /\ cellAt(k, head, Count, len).pos = s + r
    BY <1>2, <1>3, <1>5
  <2> HIDE DEF r
  <2>4. r \in Nat /\ r < f
    BY <2>2 DEF r
  <2>5. s + r = (head - Count + r) % len
    BY <1>1, <2>4
  <2>6. head - Count + n - 1 = head - Count + r /\ n \in 1..Count
    BY <1>1, <1>4, <2>3, <2>4
  <2> QED
    BY <2>3, <2>5, <2>6 DEF n
<1>6. CASE ~(k <= m)
  <2>1. rest \in Nat /\ Count - f > 0
    BY <1>4, <1>6
  <2> DEFINE r == rest % (Count - f)
  <2>2. r \in Nat /\ r < Count - f
    BY <1>4, <2>1, Division
  <2>3. n = f + r + 1 /\ cellAt(k, head, Count, len).pos = r
    BY <1>2, <1>3, <1>6
  <2> HIDE DEF r, rest
  <2>4. r = (head - Count + f + r) % len
    BY <1>1, <2>2
  <2>5. head - Count + n - 1 = head - Count + f + r /\ n \in 1..Count
    BY <1>1, <1>4, <2>2, <2>3
  <2> QED
    BY <2>3, <2>4, <2>5 DEF n
<1> QED
  BY <1>5, <1>6

\* Row c of a table of rows of one length.
LEMMA RowOf ==
  ASSUME NEW w \in Nat, w > 0, NEW c \in 1..Channels, NEW i \in Nat, i < w
  PROVE  /\ (c - 1) * w + i \in Nat /\ (c - 1) * w + i < w * Channels
         /\ ((c - 1) * w + i) % w = i /\ ((c - 1) * w + i) \div w = c - 1
<1>1. Channels \in Nat /\ c \in Nat /\ c - 1 \in Nat /\ c - 1 + 1 <= Channels
  BY TransferAssumption DEF TransferAssumption
<1>2. (c - 1) * w \in Nat /\ Channels * w \in Nat /\ (c - 1) * w + w <= Channels * w
  BY <1>1, Multiples
<1>3. Channels * w = w * Channels
  BY <1>1
<1>4. (c - 1) * w + i \in Nat /\ (c - 1) * w + i < w * Channels
  <2> DEFINE x == (c - 1) * w
  <2> HIDE DEF x
  <2>1. x \in Nat /\ x + w <= Channels * w
    BY <1>2 DEF x
  <2>2. x + i \in Nat /\ x + i < w * Channels
    BY <1>2, <1>3, <2>1
  <2> QED
    BY <2>2 DEF x
<1> QED
  BY <1>1, <1>4, DivisionIs

\* Every sample of the batch has a cell in every channel.
LEMMA SamplesHaveCells ==
  ASSUME NEW head \in Nat, NEW len \in Nat, Count <= len, Count <= head,
         NEW c \in 1..Channels, NEW i \in 1..Count
  PROVE  \E k \in 1..(Count * Channels) :
             cellAt(k, head, Count, len) = [chan |-> c, pos |-> (head - Count + i - 1) % len]
<1> DEFINE f == fragmentLength(head, Count, len)
           s == fragmentStart(head, Count, len)
           m == f * Channels
<1>1. /\ s \in Nat /\ f \in 1..Count
      /\ \A j \in Nat : j < f => s + j = (head - Count + j) % len
      /\ \A j \in Nat : j < Count - f => j = (head - Count + f + j) % len
  BY FragmentsAreTheBatch
<1>2. \A k : cellAt(k, head, Count, len) =
          IF k <= m THEN [chan |-> ((k - 1) \div f) + 1, pos |-> s + ((k - 1) % f)]
          ELSE [chan |-> ((k - 1 - m) \div (Count - f)) + 1, pos |-> (k - 1 - m) % (Count - f)]
  BY DEF cellAt
<1> HIDE DEF f, s
<1>3. /\ Count \in Nat /\ Channels \in Nat /\ m \in Nat /\ Count - f \in Nat /\ f \in Nat /\ f > 0
      /\ Count * Channels = m + (Count - f) * Channels
      /\ (Count - f) * Channels \in Nat /\ Count * Channels \in Nat /\ c \in Nat
  BY <1>1, CellCount
<1>4. CASE i <= f
  <2> DEFINE j == i - 1
             x == (c - 1) * f + j
             k == x + 1
  <2>1. j \in Nat /\ j < f
    BY <1>3, <1>4
  <2>2. x \in Nat /\ x < f * Channels /\ x % f = j /\ x \div f = c - 1
    BY <1>3, <2>1, RowOf
  <2>3. s + j = (head - Count + j) % len /\ head - Count + j = head - Count + i - 1
    BY <1>1, <1>3, <2>1
  <2> HIDE DEF x
  <2>4. k - 1 = x /\ k <= m /\ k \in 1..(Count * Channels)
    BY <1>3, <2>2
  <2>5. cellAt(k, head, Count, len) = [chan |-> (x \div f) + 1, pos |-> s + (x % f)]
    BY <1>2, <2>4
  <2>6. (x \div f) + 1 = c
    BY <1>3, <2>2
  <2> QED
    BY <2>2, <2>3, <2>4, <2>5, <2>6
<1>5. CASE ~(i <= f)
  <2> DEFINE w == Count - f
             j == i - 1 - f
             x == (c - 1) * w + j
             k == m + x + 1
  <2>1. j \in Nat /\ j < w /\ w \in Nat /\ w > 0
    BY <1>3, <1>5
  <2> HIDE DEF w
  <2>2. x \in Nat /\ x < w * Channels /\ x % w = j /\ x \div w = c - 1
    BY <1>3, <2>1, RowOf
  <2>3. j = (head - Count + f + j) % len /\ head - Count + f + j = head - Count + i - 1
    BY <1>1, <1>3, <2>1 DEF w
  <2> HIDE DEF x, m
  <2>4. k - 1 - m = x /\ ~(k <= m) /\ k \in 1..(Count * Channels)
    BY <1>3, <2>2 DEF w
  <2>5. cellAt(k, head, Count, len) = [chan |-> (x \div w) + 1, pos |-> x % w]
    BY <1>2, <2>4 DEF w
  <2>6. (x \div w) + 1 = c
    BY <1>3, <2>2
  <2> QED
    BY <2>2, <2>3, <2>4, <2>5, <2>6
<1> QED
  BY <1>4, <1>5

\* Rings of one length put a batch into the same order; and there is only one
\* order for one channel.
LEMMA SameOrder ==
  ASSUME OrdersAgree, NEW head \in Nat, Count <= head, NEW k \in 1..(Count * Channels)
  PROVE  SampleOf(k, head, LenSrc) = SampleOf(k, head, LenDst)
<1>1. /\ LenSrc \in Nat /\ LenDst \in Nat /\ Count <= LenSrc /\ Count <= LenDst
  BY TransferAssumption DEF TransferAssumption
<1>2. ASSUME Channels = 1, NEW len \in Nat, Count <= len PROVE SampleOf(k, head, len) = k
  <2> DEFINE f == fragmentLength(head, Count, len)
  <2>1. f \in 1..Count
    BY <1>2, FragmentsAreTheBatch
  <2>2. SampleOf(k, head, len) =
            IF k <= f * Channels THEN ((k - 1) % f) + 1
            ELSE f + ((k - 1 - f * Channels) % (Count - f)) + 1
    BY DEF SampleOf
  <2> HIDE DEF f
  <2>3. f \in Nat /\ f > 0 /\ Count \in Nat /\ f * Channels = f /\ k \in Nat /\ k >= 1 /\ k <= Count
    BY <1>2, <2>1, CellCount
  <2>4. ASSUME NEW b \in Nat, b > 0, NEW x \in Nat, x < b PROVE x % b = x
    BY <2>4
  <2>5. CASE k <= f
    <3>1. k - 1 \in Nat /\ k - 1 < f
      BY <2>3, <2>5
    <3>2. (k - 1) % f = k - 1
      BY <2>3, <2>4, <3>1
    <3> QED
      BY <2>2, <2>3, <2>5, <3>2
  <2>6. CASE ~(k <= f)
    <3>1. k - 1 - f \in Nat /\ k - 1 - f < Count - f /\ Count - f \in Nat /\ Count - f > 0
      BY <2>3, <2>6
    <3>2. (k - 1 - f) % (Count - f) = k - 1 - f
      BY <2>4, <3>1
    <3> QED
      BY <2>2, <2>3, <2>6, <3>2
  <2> QED
    BY <2>5, <2>6
<1> QED
  BY <1>1, <1>2 DEF OrdersAgree

\* What the writes of a group cover: from the first cell to the last one.
LEMMA GroupCoversBatch ==
  ASSUME NEW head \in Nat, Count <= head
  PROVE  /\ writeCount(head) \in Nat /\ writeCount(head) >= 1
         /\ writeOffset(1, head) = 0
         /\ \A k \in Nat : k >= 1 => writeOffset(k, head) \in 0..(Count * Channels)
         /\ writeOffset(writeCount(head) + 1, head) = Count * Channels
<1> DEFINE f == fragmentLength(head, Count, LenSrc)
           g == Count - f
           l == sglLength(head)
           n == writeCount(head)
<1>1. /\ LenSrc \in Nat /\ Count <= LenSrc /\ IovLimit \in Nat /\ IovLimit >= 1
      /\ Count \in Nat /\ Channels \in Nat /\ Channels >= 1
  BY TransferAssumption DEF TransferAssumption
<1>2. f \in 1..Count
  BY <1>1, FragmentsAreTheBatch
<1>3. /\ f \in Nat /\ f <= Count /\ g \in Nat
      /\ f * Channels \in Nat /\ g * Channels \in Nat /\ Count * Channels \in Nat
      /\ Count * Channels = f * Channels + g * Channels
      /\ g = 0 => g * Channels = 0
  BY <1>2, CellCount
<1>4. l = 1 + (IF f < Count THEN 2 * Channels ELSE Channels)
  BY DEF sglLength
<1>5. \A i : cellsBefore(i, head) =
                IF i = 0 THEN 0 ELSE IF i - 1 <= Channels THEN (i - 1) * f
                ELSE Channels * f + (i - 1 - Channels) * g
  BY DEF cellsBefore
<1>6. \A k : writeOffset(k, head) =
                cellsBefore(IF (k - 1) * IovLimit < l THEN (k - 1) * IovLimit ELSE l, head)
  BY DEF writeOffset
<1>7. n = (l + IovLimit - 1) \div IovLimit
  BY DEF writeCount
<1>8. Channels * f = f * Channels /\ Channels * g = g * Channels
  BY <1>1, <1>3
<1>9. f < Count <=> g > 0
  BY <1>1, <1>3
<1> HIDE DEF f, g, l, n
<1>10. l \in Nat /\ l >= 1
  BY <1>1, <1>4
<1>11. ASSUME NEW a \in Nat, NEW b \in Nat, NEW w \in Nat, a <= b
       PROVE  a * w \in Nat /\ b * w \in Nat /\ a * w <= b * w
  BY <1>11
<1>12. ASSUME NEW i \in 0..l PROVE cellsBefore(i, head) \in 0..(Count * Channels)
  <2>1. CASE i = 0
    BY <1>3, <1>5, <2>1
  <2>2. CASE i # 0 /\ i - 1 <= Channels
    <3>1. i - 1 \in Nat
      BY <1>10, <2>2
    <3>2. (i - 1) * f \in Nat /\ (i - 1) * f <= Channels * f
      BY <1>1, <1>3, <1>11, <2>2, <3>1
    <3>3. cellsBefore(i, head) = (i - 1) * f
      BY <1>5, <2>2
    <3> DEFINE p == (i - 1) * f
    <3> HIDE DEF p
    <3>4. p \in Nat /\ p <= f * Channels
      BY <1>8, <3>2 DEF p
    <3>5. p \in 0..(Count * Channels)
      BY <1>3, <3>4
    <3> QED
      BY <3>3, <3>5 DEF p
  <2>3. CASE i # 0 /\ ~(i - 1 <= Channels)
    <3>1. i - 1 - Channels \in Nat /\ i - 1 - Channels <= Channels
      BY <1>1, <1>4, <1>10, <2>3
    <3>2. (i - 1 - Channels) * g \in Nat /\ (i - 1 - Channels) * g <= Channels * g
      BY <1>1, <1>3, <1>11, <3>1
    <3>3. cellsBefore(i, head) = Channels * f + (i - 1 - Channels) * g
      BY <1>5, <2>3
    <3> DEFINE p == (i - 1 - Channels) * g
    <3> HIDE DEF p
    <3>4. p \in Nat /\ p <= g * Channels /\ cellsBefore(i, head) = f * Channels + p
      BY <1>8, <3>2, <3>3 DEF p
    <3> QED
      BY <1>3, <3>4
  <2> QED
    BY <2>1, <2>2, <2>3
<1>13. cellsBefore(l, head) = Count * Channels
  <2>1. CASE f < Count
    <3>1. l - 1 = 2 * Channels /\ l # 0 /\ ~(l - 1 <= Channels) /\ l - 1 - Channels = Channels
      BY <1>1, <1>4, <2>1
    <3>2. cellsBefore(l, head) = Channels * f + Channels * g
      BY <1>5, <3>1
    <3> QED
      BY <1>3, <1>8, <3>2
  <2>2. CASE ~(f < Count)
    <3>1. l - 1 = Channels /\ l # 0 /\ f = Count
      BY <1>1, <1>3, <1>4, <2>2
    <3>2. cellsBefore(l, head) = Channels * f
      BY <1>1, <1>5, <3>1
    <3> QED
      BY <1>8, <3>1, <3>2
  <2> QED
    BY <2>1, <2>2
<1>14. ASSUME NEW k \in Nat, k >= 1 PROVE writeOffset(k, head) \in 0..(Count * Channels)
  <2>1. (k - 1) * IovLimit \in Nat
    BY <1>1, <1>11, <1>14
  <2> DEFINE p == (k - 1) * IovLimit
             i == IF p < l THEN p ELSE l
  <2>2. writeOffset(k, head) = cellsBefore(i, head)
    BY <1>6
  <2> HIDE DEF p
  <2>3. p \in Nat
    BY <2>1 DEF p
  <2>4. i \in 0..l
    BY <1>10, <2>3
  <2> HIDE DEF i
  <2> QED
    BY <1>12, <2>2, <2>4
<1>15. writeOffset(1, head) = 0
  <2>1. (1 - 1) * IovLimit = 0
    BY <1>1
  <2> QED
    BY <1>5, <1>6, <1>10, <2>1
<1>16. n \in Nat /\ n >= 1 /\ n * IovLimit \in Nat /\ n * IovLimit >= l
  <2> DEFINE a == l + IovLimit - 1
  <2>1. a \in Nat
    BY <1>1, <1>10
  <2>2. n \in Nat /\ a % IovLimit \in Nat /\ a % IovLimit < IovLimit /\ a = n * IovLimit + (a % IovLimit)
    BY <1>1, <1>7, <2>1, Division
  <2>3. n * IovLimit \in Nat
    BY <1>1, <2>2
  <2> DEFINE p == n * IovLimit
             r == a % IovLimit
  <2>4. p \in Nat /\ r \in Nat /\ r < IovLimit /\ l + IovLimit - 1 = p + r
    BY <2>2, <2>3
  <2> HIDE DEF a, p, r
  <2>5. p >= l
    BY <1>1, <1>10, <2>4
  <2>6. n # 0
    <3> SUFFICES ASSUME n = 0 PROVE FALSE
      OBVIOUS
    <3>1. p = 0
      BY <1>1 DEF p
    <3> QED
      BY <1>10, <2>5, <3>1
  <2> QED
    BY <2>2, <2>4, <2>5, <2>6 DEF p
<1>17. writeOffset(n + 1, head) = Count * Channels
  <2>1. (n + 1) - 1 = n
    BY <1>16
  <2> DEFINE p == ((n + 1) - 1) * IovLimit
             i == IF p < l THEN p ELSE l
  <2>2. p \in Nat /\ p >= l
    BY <1>16, <2>1
  <2>3. writeOffset(n + 1, head) = cellsBefore(i, head)
    BY <1>6
  <2> HIDE DEF p
  <2>4. i = l
    BY <1>10, <2>2
  <2> HIDE DEF i
  <2> QED
    BY <1>13, <2>3, <2>4
<1> QED
  BY <1>14, <1>15, <1>16, <1>17 DEF n

\* The source still has the samples of the last lap, and no others.
LEMMA SourceHasSample ==
  ASSUME src.head \in Nat, NEW x \in Nat, x < src.head, src.head <= x + LenSrc
  PROVE  SampleAt(x % LenSrc) = x
<1> DEFINE ks == {k \in 0..(src.head - 1) : k % LenSrc = x % LenSrc}
<1>1. LenSrc \in Nat /\ LenSrc > 0
  BY TransferAssumption DEF TransferAssumption
<1>2. x \in ks
  OBVIOUS
<1>3. ASSUME NEW j \in ks PROVE j <= x
  <2> SUFFICES ASSUME j > x PROVE FALSE
    BY <1>3
  <2>1. j \in Nat /\ j < src.head /\ j % LenSrc = x % LenSrc
    BY <1>3
  <2>2. x < j + LenSrc /\ j < x + LenSrc
    BY <1>1, <2>1
  <2>3. x = j
    BY <1>1, <2>1, <2>2, SamePosition
  <2> QED
    BY <2>1, <2>3
<1>4. \A k \in ks : k \in Nat
  OBVIOUS
<1>5. SampleAt(x % LenSrc) = CHOOSE k \in ks : \A j \in ks : j <= k
  BY DEF SampleAt
<1> HIDE DEF ks
<1>6. \A k \in ks : (\A j \in ks : j <= k) => k = x
  BY <1>2, <1>3, <1>4
<1>7. x \in ks /\ \A j \in ks : j <= x
  BY <1>2, <1>3
<1> DEFINE y == CHOOSE k \in ks : \A j \in ks : j <= k
<1>8. y \in ks /\ \A j \in ks : j <= y
  BY <1>7
<1> HIDE DEF y
<1>9. y = x
  BY <1>6, <1>8
<1> QED
  BY <1>5, <1>9 DEF y

\* Every announced entry has the header and the samples of its batch.

Entries == 0..EntryCount - 1

\* An entry has the header and the first n cells of a batch.
HasCells(e, index, n) ==
    /\ bounce[e].header = [head |-> index, count |-> Count]
    /\ \A k \in 1..n : bounce[e].data[k] = index - Count + SampleOf(k, index, LenSrc) - 1

SampleTypes ==
    /\ src.head >= LenSrc /\ remote.entry \in Entries
    /\ headers \in [Entries -> {None} \cup [head : Nat, count : {Count}]]
    /\ bounce \in [Entries -> [header : [head : Nat, count : Nat], data : [1..Count * Channels -> Nat]]]
    /\ IsQueue(tcq)

\* What is posted is in the source, or was there.
BatchesAreThere ==
    \A k \in 1..Len(net) :
        /\ net[k].entry \in Entries /\ net[k].index \in LenSrc..src.head
        /\ net[k].from \in 0..Count * Channels /\ net[k].to \in 0..Count * Channels
        /\ net[k].header => net[k].from = 0
        /\ net[k].imm => net[k].to = Count * Channels

\* A write without the header follows, in the fabric or in the entry, what
\* comes before it in its group.
GroupsContinue ==
    \A k \in 1..Len(net) : ~net[k].header =>
        IF k = 1 THEN HasCells(net[k].entry, net[k].index, net[k].from)
        ELSE /\ net[k - 1].entry = net[k].entry /\ net[k - 1].index = net[k].index
             /\ net[k - 1].to = net[k].from

BatchIsThere ==
    /\ app.pc \in {"read", "transfer", "progress"} => app.index >= LenSrc
    /\ app.pc = "transfer" => app.index <= src.head

EntriesAreThere ==
    \A k \in 1..Len(tcq) :
        /\ tcq[k].entry \in Entries /\ tcq[k].index \in Nat /\ tcq[k].index >= LenSrc
        /\ HasCells(tcq[k].entry, tcq[k].index, Count * Channels)

SamplesArrive ==
    /\ SampleTypes /\ BatchesAreThere /\ GroupsContinue /\ BatchIsThere
    /\ EntriesAreThere /\ (OrdersAgree => last.ok)

SampleInv == kind = "sample" /\ Undisturbed => SamplesArrive

LEMMA SampleConstants ==
  /\ LenSrc \in Nat /\ LenDst \in Nat /\ Count \in Nat /\ Channels \in Nat
  /\ Count >= 1 /\ Channels >= 1 /\ Count <= LenSrc /\ Count <= LenDst
  /\ Count * Channels \in Nat
<1>1. /\ LenSrc \in Nat /\ LenDst \in Nat /\ Count \in Nat /\ Channels \in Nat
      /\ Count >= 1 /\ Channels >= 1 /\ Count <= LenSrc /\ Count <= LenDst
  BY TransferAssumption DEF TransferAssumption
<1> QED
  BY <1>1

LEMMA FirstEntry ==
  /\ 0 \in Entries
  /\ \A e \in Nat : e % EntryCount \in Entries
<1>1. ASSUME NEW b \in Nat, b >= 1 PROVE 0 \in 0..b - 1 /\ \A e \in Nat : e % b \in 0..b - 1
  BY <1>1
<1> QED
  BY <1>1, EntryCountPositive DEF Entries

LEMMA QueueConcat ==
  ASSUME NEW q, IsQueue(q), NEW w, IsQueue(w)
  PROVE  /\ Len(q \o w) = Len(q) + Len(w)
         /\ \A k \in 1..Len(q) : (q \o w)[k] = q[k]
         /\ \A k \in 1..Len(w) : (q \o w)[Len(q) + k] = w[k]
<1> DEFINE S == {q[k] : k \in 1..Len(q)} \cup {w[k] : k \in 1..Len(w)}
<1>1. q \in Seq(S) /\ w \in Seq(S) /\ Len(q) \in Nat /\ Len(w) \in Nat
  BY QueueIn DEF IsQueue
<1> HIDE DEF S
<1> QED
  BY <1>1

\* The steps that leave the fabric and the entries alone.
LEMMA EntriesKept ==
  ASSUME RDMInv, SamplesArrive, UNCHANGED <<net, tcq, bounce, last>>,
         src'.head \in Nat, src'.head >= src.head,
         remote'.entry \in Entries,
         headers' = headers \/ headers' = [e \in Entries |-> None],
         BatchIsThere'
  PROVE  SamplesArrive'
<1>1. src.head \in Nat /\ LenSrc \in Nat
  BY SampleConstants DEF RDMInv, RDMTypes
<1>2. SampleTypes'
  <2>1. headers' \in [Entries -> {None} \cup [head : Nat, count : {Count}]]
    BY DEF SamplesArrive, SampleTypes
  <2>2. src'.head >= LenSrc
    BY <1>1 DEF SamplesArrive, SampleTypes
  <2> QED
    BY <2>1, <2>2 DEF SamplesArrive, SampleTypes, IsQueue
<1>3. BatchesAreThere'
  <2> SUFFICES ASSUME NEW k \in 1..Len(net) PROVE net[k].index \in LenSrc..src'.head
    BY DEF SamplesArrive, BatchesAreThere
  <2>1. net[k].index \in LenSrc..src.head
    BY DEF SamplesArrive, BatchesAreThere
  <2> QED
    BY <1>1, <2>1
<1>4. GroupsContinue' /\ EntriesAreThere'
  BY DEF SamplesArrive, GroupsContinue, EntriesAreThere, HasCells
<1> QED
  BY <1>2, <1>3, <1>4 DEF SamplesArrive

\* Neither progress nor the removal of a target changes the entry it is at.
LEMMA EntryIsKept ==
  ASSUME RDMInv, makeRDMProgress \/ removeRDMTarget
  PROVE  remote'.entry = remote.entry
<1>1. remote \in [st : {"Absent", "Idle", "Activated"}, token : Nat, pending : Int, entry : Nat]
  BY DEF RDMInv, RDMTypes
<1>2. ASSUME NEW r \in [st : {"Absent", "Idle", "Activated"}, token : Nat, pending : Int, entry : Nat], NEW c
      PROVE  handleCompletion(r, c).entry = r.entry
  BY <1>2 DEF handleCompletion
<1>3. /\ activateTarget(remote) \in [st : {"Absent", "Idle", "Activated"}, token : Nat, pending : Int, entry : Nat]
      /\ activateTarget(remote).entry = remote.entry
  BY <1>1 DEF activateTarget
<1>4. CASE makeRDMProgress
  BY <1>2, <1>3, <1>4 DEF makeRDMProgress
<1>5. CASE removeRDMTarget
  BY <1>1, <1>5 DEF removeRDMTarget
<1> QED
  BY <1>4, <1>5

LEMMA SourceWritesSamples ==
  ASSUME RDMInv, SamplesArrive, kind = "sample", SourceWrites
  PROVE  SamplesArrive'
<1>1. UNCHANGED <<app, remote, headers, net, tcq, bounce, last>> /\ src' = [src EXCEPT !.head = @ + Count]
  BY DEF SourceWrites, appVars, memVars
<1>2. src \in [head : Nat, valid : Nat, bad : SUBSET Nat] /\ Count \in Nat
  BY SampleConstants DEF RDMInv, RDMTypes
<1>3. src'.head = src.head + Count /\ src.head \in Nat
  BY <1>1, <1>2
<1>4. BatchIsThere'
  <2>1. app.index \in Nat
    BY DEF RDMInv, RDMTypes
  <2> QED
    BY <1>1, <1>2, <1>3, <2>1 DEF SamplesArrive, BatchIsThere
<1>5. src'.head \in Nat /\ src'.head >= src.head /\ remote'.entry \in Entries
  BY <1>1, <1>2, <1>3 DEF SamplesArrive, SampleTypes
<1> QED
  BY <1>1, <1>4, <1>5, EntriesKept

\* The demo's own steps: adding and leaving a target, reading and progress.
LEMMA AppStepsKeepSamples ==
  ASSUME RDMInv, SamplesArrive, kind = "sample",
         AppSetup \/ AppTooLate \/ AppRead \/ AppMakeProgress \/ AppExit
  PROVE  SamplesArrive'
<1>0. /\ app \in [pc : {"setup", "read", "transfer", "progress", "exit"}, adds : Nat, index : Nat,
                  start : Nat, end : Nat, got : Nat]
      /\ src.head \in Nat /\ src.head >= LenSrc /\ remote.entry \in Entries
      /\ LenSrc \in Nat /\ Count \in Nat
  BY SampleConstants DEF RDMInv, RDMTypes, SamplesArrive, SampleTypes
<1>1. /\ UNCHANGED <<src, headers, net, tcq, bounce, last>>
      /\ src'.head \in Nat /\ src'.head >= src.head
  <2>1. UNCHANGED <<src, headers, net, tcq, bounce, last>>
    BY DEF AppSetup, AppTooLate, AppRead, AppMakeProgress, AppExit, memVars
  <2> QED
    BY <1>0, <2>1
<1>2. CASE AppSetup
  <2>1. /\ app.pc = "setup"
        /\ addRDMTarget \/ makeRDMProgress
        /\ \/ app' = [app EXCEPT !.adds = @ + 1]
           \/ app' = [app EXCEPT !.pc = "read", !.index = src.head, !.start = 0, !.end = Batch]
           \/ app' = app
    BY <1>2 DEF AppSetup
  <2>2. remote'.entry \in Entries
    <3>1. CASE addRDMTarget
      BY <3>1, FirstEntry DEF addRDMTarget
    <3>2. CASE makeRDMProgress
      BY <1>0, <3>2, EntryIsKept
    <3> QED
      BY <2>1, <3>1, <3>2
  <2>3. app'.pc = "setup" \/ (app'.pc = "read" /\ app'.index = src.head)
    BY <1>0, <2>1
  <2>4. BatchIsThere'
    BY <1>0, <2>3 DEF BatchIsThere
  <2> QED
    BY <1>1, <2>2, <2>4, EntriesKept
<1>3. CASE AppTooLate
  <2>1. app' = [app EXCEPT !.index = src.head] /\ app.pc = "read" /\ remote' = remote
    BY <1>3 DEF AppTooLate
  <2>2. app'.pc = "read" /\ app'.index = src.head
    BY <1>0, <2>1
  <2>3. BatchIsThere'
    BY <1>0, <2>2 DEF BatchIsThere
  <2> QED
    BY <1>0, <1>1, <2>1, <2>3, EntriesKept
<1>4. CASE AppRead
  <2>1. /\ app.index <= src.head /\ app.pc = "read" /\ remote' = remote
        /\ app' = [app EXCEPT !.pc = "transfer", !.got = 0]
    BY <1>4 DEF AppRead
  <2>2. app'.pc = "transfer" /\ app'.index = app.index
    BY <1>0, <2>1
  <2>3. BatchIsThere'
    BY <1>0, <1>1, <2>1, <2>2 DEF BatchIsThere, SamplesArrive
  <2> QED
    BY <1>0, <1>1, <2>1, <2>3, EntriesKept
<1>5. CASE AppMakeProgress
  <2>1. /\ app.pc = "progress" /\ makeRDMProgress
        /\ app' = app \/ app' = [app EXCEPT !.pc = "read", !.index = @ + Count]
    BY <1>5 DEF AppMakeProgress, Advance
  <2>2. app.index \in Nat /\ app.index >= LenSrc
    BY <1>0, <2>1 DEF BatchIsThere, SamplesArrive
  <2>3. \/ app'.pc = "progress" /\ app'.index = app.index
        \/ app'.pc = "read" /\ app'.index = app.index + Count
    BY <1>0, <2>1
  <2>4. BatchIsThere'
    BY <1>0, <2>2, <2>3 DEF BatchIsThere
  <2>5. remote'.entry \in Entries
    BY <1>0, <2>1, EntryIsKept
  <2> QED
    BY <1>1, <2>4, <2>5, EntriesKept
<1>6. CASE AppExit
  <2>1. app' = [app EXCEPT !.pc = "exit"] /\ removeRDMTarget
    BY <1>6 DEF AppExit
  <2>2. app'.pc = "exit"
    BY <1>0, <2>1
  <2>3. BatchIsThere'
    BY <2>2 DEF BatchIsThere
  <2>4. remote'.entry \in Entries
    BY <1>0, <2>1, EntryIsKept
  <2> QED
    BY <1>1, <2>3, <2>4, EntriesKept
<1> QED
  BY <1>2, <1>3, <1>4, <1>5, <1>6

\* A group, or the part of one that was not refused, in the order of its cells.
LEMMA PostKeepsSamples ==
  ASSUME RDMInv, SamplesArrive, app.pc = "transfer", NEW n, postSamples(app.index, n),
         UNCHANGED <<src, tcq, bounce, last>>, remote'.entry \in Entries,
         app'.pc \in {"read", "progress"}, app'.index = app.index
  PROVE  SamplesArrive'
<1>0. /\ IsQueue(net) /\ Len(net) \in Nat /\ app.index \in Nat /\ app.index >= LenSrc
      /\ app.index <= src.head /\ src.head \in Nat /\ remote.entry \in Entries
      /\ LenSrc \in Nat /\ Count \in Nat /\ Count <= LenSrc /\ Count * Channels \in Nat
  BY SampleConstants DEF RDMInv, RDMTypes, IsQueue, SamplesArrive, SampleTypes, BatchIsThere
<1>1. n \in 0..writeCount(app.index)
      /\ headers' = [headers EXCEPT ![remote.entry] = [head |-> app.index, count |-> Count]]
  BY DEF postSamples
<1>2. /\ writeCount(app.index) \in Nat /\ writeOffset(1, app.index) = 0
      /\ \A k \in Nat : k >= 1 => writeOffset(k, app.index) \in 0..Count * Channels
      /\ writeOffset(writeCount(app.index) + 1, app.index) = Count * Channels
  <2>1. Count <= app.index
    BY <1>0
  <2> QED
    BY <1>0, <2>1, GroupCoversBatch
<1>3. n \in Nat
  BY <1>1, <1>2
<1>4. PICK w : /\ IsQueue(w) /\ Len(w) = n /\ net' = net \o w
               /\ \A k \in 1..n :
                     /\ w[k].entry = remote.entry /\ w[k].index = app.index
                     /\ w[k].header <=> k = 1
                     /\ w[k].imm => k = writeCount(app.index)
                     /\ w[k].from = writeOffset(k, app.index) /\ w[k].to = writeOffset(k + 1, app.index)
  <2> DEFINE c(k) == groupWrite(k, app.index)
             g == [k \in 1..n |-> c(k)]
  <2>1. net' = net \o g
    BY DEF postSamples, Posted
  <2>2. \A k \in 1..n :
           /\ g[k].entry = remote.entry /\ g[k].index = app.index
           /\ g[k].header <=> k = 1
           /\ g[k].imm => k = writeCount(app.index)
           /\ g[k].from = writeOffset(k, app.index) /\ g[k].to = writeOffset(k + 1, app.index)
    BY DEF groupWrite
  <2> HIDE DEF c
  <2>3. g \in Seq({c(k) : k \in 1..n}) /\ Len(g) = n
    BY <1>3
  <2>4. IsQueue(g)
    BY <2>3, QueueOf
  <2> HIDE DEF g
  <2>5. /\ IsQueue(g) /\ Len(g) = n /\ net' = net \o g
        /\ \A k \in 1..n :
              /\ g[k].entry = remote.entry /\ g[k].index = app.index
              /\ g[k].header <=> k = 1
              /\ g[k].imm => k = writeCount(app.index)
              /\ g[k].from = writeOffset(k, app.index) /\ g[k].to = writeOffset(k + 1, app.index)
    BY <2>1, <2>2, <2>3, <2>4
  <2> QED
    BY <2>5
<1>6. /\ Len(net') = Len(net) + n
      /\ \A k \in 1..Len(net) : net'[k] = net[k]
      /\ \A k \in 1..n : net'[Len(net) + k] = w[k]
  <2>1. IsQueue(net) /\ IsQueue(w)
    BY <1>0, <1>4
  <2>2. /\ Len(net \o w) = Len(net) + Len(w)
        /\ \A k \in 1..Len(net) : (net \o w)[k] = net[k]
        /\ \A k \in 1..Len(w) : (net \o w)[Len(net) + k] = w[k]
    BY ONLY <2>1, QueueConcat
  <2> QED
    BY <1>4, <2>2
<1>7. ASSUME NEW k \in 1..Len(net'), k \notin 1..Len(net)
      PROVE  k - Len(net) \in 1..n /\ net'[k] = w[k - Len(net)]
  <2>1. k \in 1..(Len(net) + n)
    BY <1>6
  <2>2. k - Len(net) \in 1..n /\ Len(net) + (k - Len(net)) = k
    BY <1>0, <1>3, <1>7, <2>1
  <2> QED
    BY <1>6, <2>2
<1>8. SampleTypes'
  <2>1. [head |-> app.index, count |-> Count] \in [head : Nat, count : {Count}]
    BY <1>0
  <2>2. headers' \in [Entries -> {None} \cup [head : Nat, count : {Count}]]
    BY <1>1, <2>1 DEF SamplesArrive, SampleTypes
  <2> QED
    BY <2>2 DEF SamplesArrive, SampleTypes, IsQueue
<1>9. BatchesAreThere'
  <2> SUFFICES ASSUME NEW k \in 1..Len(net')
               PROVE  /\ net'[k].entry \in Entries /\ net'[k].index \in LenSrc..src.head
                      /\ net'[k].from \in 0..Count * Channels /\ net'[k].to \in 0..Count * Channels
                      /\ net'[k].header => net'[k].from = 0
                      /\ net'[k].imm => net'[k].to = Count * Channels
    BY DEF BatchesAreThere
  <2>1. CASE k \in 1..Len(net)
    BY <1>6, <2>1 DEF SamplesArrive, BatchesAreThere
  <2>2. CASE k \notin 1..Len(net)
    <3> DEFINE j == k - Len(net)
    <3>1. j \in 1..n /\ net'[k] = w[j]
      BY <1>7, <2>2
    <3> HIDE DEF j
    <3>2. j \in Nat /\ j >= 1 /\ j + 1 \in Nat /\ j + 1 >= 1
      BY <1>3, <3>1
    <3>3. writeOffset(j, app.index) \in 0..Count * Channels /\ writeOffset(j + 1, app.index) \in 0..Count * Channels
      BY <1>2, <3>2
    <3>4. app.index \in LenSrc..src.head
      BY <1>0
    <3>5. /\ w[j].entry = remote.entry /\ w[j].index = app.index
          /\ w[j].header <=> j = 1
          /\ w[j].imm => j = writeCount(app.index)
          /\ w[j].from = writeOffset(j, app.index) /\ w[j].to = writeOffset(j + 1, app.index)
      BY <1>4, <3>1
    <3> QED
      BY <1>0, <1>2, <3>1, <3>3, <3>4, <3>5, Zenon
  <2> QED
    BY <2>1, <2>2
<1>10. GroupsContinue'
  <2> SUFFICES ASSUME NEW k \in 1..Len(net'), ~net'[k].header
               PROVE  IF k = 1 THEN HasCells(net'[k].entry, net'[k].index, net'[k].from)
                      ELSE /\ net'[k - 1].entry = net'[k].entry /\ net'[k - 1].index = net'[k].index
                           /\ net'[k - 1].to = net'[k].from
    BY DEF GroupsContinue, HasCells
  <2>1. CASE k \in 1..Len(net)
    <3>1. k # 1 => k - 1 \in 1..Len(net)
      BY <1>0, <2>1
    <3> QED
      BY <1>6, <2>1, <3>1 DEF SamplesArrive, GroupsContinue
  <2>2. CASE k \notin 1..Len(net)
    <3> DEFINE j == k - Len(net)
               i == j - 1
    <3>1. j \in 1..n /\ net'[k] = w[j]
      BY <1>7, <2>2
    <3>2. j # 1
      BY <1>4, <3>1
    <3>3. i \in 1..n /\ i + 1 = j /\ Len(net) + i = k - 1 /\ k # 1
      BY <1>0, <1>3, <3>1, <3>2
    <3> HIDE DEF i, j
    <3>4. net'[k - 1] = w[i]
      BY <1>6, <3>3
    <3>5. /\ w[j].entry = remote.entry /\ w[j].index = app.index /\ w[j].from = writeOffset(j, app.index)
      BY <1>4, <3>1
    <3>6. /\ w[i].entry = remote.entry /\ w[i].index = app.index /\ w[i].to = writeOffset(i + 1, app.index)
      BY <1>4, <3>3
    <3> QED
      BY <3>1, <3>3, <3>4, <3>5, <3>6
  <2> QED
    BY <2>1, <2>2
<1>11. BatchIsThere'
  BY <1>0 DEF BatchIsThere
<1>12. EntriesAreThere' /\ (OrdersAgree => last.ok)'
  BY DEF SamplesArrive, EntriesAreThere, HasCells, OrdersAgree
<1> QED
  BY <1>8, <1>9, <1>10, <1>11, <1>12 DEF SamplesArrive

LEMMA TransfersKeepSamples ==
  ASSUME RDMInv, SamplesArrive, kind = "sample", AppTransferSamples \/ AppTransferNotReady
  PROVE  SamplesArrive'
<1>0. /\ app \in [pc : {"setup", "read", "transfer", "progress", "exit"}, adds : Nat, index : Nat,
                  start : Nat, end : Nat, got : Nat]
      /\ remote \in [st : {"Absent", "Idle", "Activated"}, token : Nat, pending : Int, entry : Nat]
      /\ remote.entry \in Entries
  BY DEF RDMInv, RDMTypes, SamplesArrive, SampleTypes
<1>1. CASE AppTransferSamples
  <2> DEFINE n == writeCount(app.index)
  <2>1. /\ app.pc = "transfer" /\ postSamples(app.index, n) /\ UNCHANGED <<src, tcq, bounce, last>>
        /\ remote' = [remote EXCEPT !.pending = @ + n, !.entry = (@ + 1) % EntryCount]
        /\ app' = [app EXCEPT !.pc = "progress"]
    BY <1>1 DEF AppTransferSamples, transferSamples
  <2> HIDE DEF n
  <2>2. remote'.entry = (remote.entry + 1) % EntryCount /\ remote.entry + 1 \in Nat
    BY <1>0, <2>1
  <2>3. remote'.entry \in Entries
    BY <2>2, FirstEntry
  <2>4. app'.pc = "progress" /\ app'.index = app.index
    BY <1>0, <2>1
  <2> QED
    BY <2>1, <2>3, <2>4, PostKeepsSamples
<1>2. CASE AppTransferNotReady
  <2>1. PICK n : /\ app.pc = "transfer" /\ postSamples(app.index, n) /\ makeRDMProgress
                 /\ UNCHANGED <<src, tcq, bounce, last>>
                 /\ app' = [app EXCEPT !.pc = "read"]
    BY <1>2 DEF AppTransferNotReady
  <2>2. remote'.entry \in Entries
    BY <1>0, <2>1, EntryIsKept
  <2>3. app'.pc = "read" /\ app'.index = app.index
    BY <1>0, <2>1
  <2> QED
    BY <2>1, <2>2, <2>3, PostKeepsSamples
<1> QED
  BY <1>1, <1>2

LEMMA DestroyKeepsSamples ==
  ASSUME RDMInv, SamplesArrive, AppDestroy
  PROVE  SamplesArrive'
<1>1. /\ UNCHANGED <<src, remote, tcq, bounce, last>> /\ net' = <<>>
      /\ app' = [app EXCEPT !.pc = "setup"] /\ headers' = [e \in Entries |-> None]
  BY DEF AppDestroy, Entries
<1>2. app'.pc = "setup"
  BY <1>1 DEF RDMInv, RDMTypes
<1>3. Len(net') = 0
  BY <1>1
<1>4. SampleTypes'
  <2>1. headers' \in [Entries -> {None} \cup [head : Nat, count : {Count}]]
    BY <1>1
  <2> QED
    BY <1>1, <2>1 DEF SamplesArrive, SampleTypes, IsQueue
<1>5. BatchesAreThere' /\ GroupsContinue'
  BY <1>3 DEF BatchesAreThere, GroupsContinue
<1>6. BatchIsThere'
  BY <1>2 DEF BatchIsThere
<1>7. EntriesAreThere' /\ (OrdersAgree => last.ok)'
  BY <1>1 DEF SamplesArrive, EntriesAreThere, HasCells, OrdersAgree
<1> QED
  BY <1>4, <1>5, <1>6, <1>7 DEF SamplesArrive

\* The fabric executes a write that is not too late: the entry has what was sent.
LEMMA DeliverKeepsSamples ==
  ASSUME RDMInv, SamplesArrive, kind = "sample", Undisturbed', Deliver
  PROVE  SamplesArrive'
<1> DEFINE w == Head(net)
<1>1. IsQueue(net) /\ net # <<>> /\ Len(net) \in Nat
  BY DEF Deliver, RDMInv, RDMTypes, IsQueue
<1>2. /\ net' = Tail(net) /\ UNCHANGED <<src, app, remote, headers, last>>
      /\ bounce' = EntryWritten(w)
      /\ tcq' = IF w.imm THEN Append(tcq, [entry |-> w.entry, index |-> w.index]) ELSE tcq
      /\ ~SourceLapped(w) /\ ~TargetOverrun(w)
  BY DEF Deliver, appVars, Undisturbed
<1>3. /\ Len(net) >= 1 /\ Len(net') = Len(net) - 1 /\ w = net[1]
      /\ \A k \in 1..Len(net) - 1 : net'[k] = net[k + 1]
  BY <1>1, <1>2, QueueTail
<1>4. /\ LenSrc \in Nat /\ Count \in Nat /\ Count >= 1 /\ Count <= LenSrc /\ Count * Channels \in Nat
      /\ src.head \in Nat /\ IsQueue(tcq) /\ Len(tcq) \in Nat
      /\ headers \in [Entries -> {None} \cup [head : Nat, count : {Count}]]
      /\ bounce \in [Entries -> [header : [head : Nat, count : Nat], data : [1..Count * Channels -> Nat]]]
  BY SampleConstants DEF RDMInv, RDMTypes, IsQueue, SamplesArrive, SampleTypes
<1>5. /\ w.entry \in Entries /\ w.index \in LenSrc..src.head
      /\ w.from \in 0..Count * Channels /\ w.to \in 0..Count * Channels
      /\ w.header => w.from = 0
      /\ w.imm => w.to = Count * Channels
      /\ ~w.header => HasCells(w.entry, w.index, w.from)
  <2>1. 1 \in 1..Len(net)
    BY <1>1, <1>3
  <2>2. /\ net[1].entry \in Entries /\ net[1].index \in LenSrc..src.head
        /\ net[1].from \in 0..Count * Channels /\ net[1].to \in 0..Count * Channels
        /\ net[1].header => net[1].from = 0
        /\ net[1].imm => net[1].to = Count * Channels
    BY <2>1 DEF SamplesArrive, BatchesAreThere
  <2>3. ~net[1].header => HasCells(net[1].entry, net[1].index, net[1].from)
    BY <2>1 DEF SamplesArrive, GroupsContinue
  <2> QED
    BY <1>3, <2>2, <2>3
<1>6. /\ headers[w.entry].head = w.index /\ src.head <= w.index + LenSrc - Count
      /\ \A k \in 1..Len(tcq) : tcq[k].entry # w.entry
  <2>1. headers[w.entry].head = w.index /\ ~(src.head > w.index + LenSrc - Count)
    BY <1>2 DEF SourceLapped
  <2>2. \A k \in 1..Len(tcq) : tcq[k].entry # w.entry
    BY <1>2 DEF TargetOverrun
  <2>3. w.index \in Nat
    BY <1>4, <1>5
  <2> DEFINE x == w.index
  <2> HIDE DEF w
  <2> QED
    BY <1>4, <2>1, <2>2, <2>3
<1> HIDE DEF w
<1>7. w.index \in Nat /\ w.index >= LenSrc /\ Count <= w.index /\ w.index <= src.head
  BY <1>4, <1>5
<1>8. headers[w.entry] = [head |-> w.index, count |-> Count]
  <2>1. headers[w.entry] \in {None} \cup [head : Nat, count : {Count}]
    BY <1>4, <1>5
  <2>2. headers[w.entry] # None
    BY <1>4, <1>6, <1>7 DEF None
  <2> QED
    BY <1>6, <2>1, <2>2
<1>9. ASSUME NEW k \in 1..Count * Channels
      PROVE  SampleAt(cellAt(k, w.index, Count, LenSrc).pos) = w.index - Count + SampleOf(k, w.index, LenSrc) - 1
             /\ w.index - Count + SampleOf(k, w.index, LenSrc) - 1 \in Nat
  <2> DEFINE i == SampleOf(k, w.index, LenSrc)
             x == w.index - Count + i - 1
  <2>1. i \in 1..Count /\ cellAt(k, w.index, Count, LenSrc).pos = x % LenSrc
    BY <1>4, <1>7, CellsAreSamples
  <2>2. x \in Nat /\ x < src.head /\ src.head <= x + LenSrc
    <3>1. i \in 1..Count
      BY <2>1
    <3>2. /\ LenSrc \in Nat /\ Count \in Nat /\ src.head \in Nat /\ w.index \in Nat
          /\ Count <= w.index /\ w.index <= src.head
          /\ src.head <= w.index + LenSrc - Count
      BY <1>4, <1>6, <1>7
    <3> HIDE DEF i
    <3> QED
      BY <3>1, <3>2
  <2> HIDE DEF x
  <2>3. SampleAt(x % LenSrc) = x
    BY <1>4, <2>2, SourceHasSample
  <2>4. SampleAt(cellAt(k, w.index, Count, LenSrc).pos) = x
    BY <2>1, <2>3, Zenon
  <2> QED
    BY <2>2, <2>4 DEF x, i
<1> DEFINE old == bounce[w.entry]
           new == [header |-> IF w.header THEN headers[w.entry] ELSE old.header,
                   data |-> [k \in 1..(Count * Channels) |->
                               IF k > w.from /\ k <= w.to
                               THEN SampleAt(cellAt(k, w.index, Count, LenSrc).pos) ELSE old.data[k]]]
<1>10. bounce' = [bounce EXCEPT ![w.entry] = new]
  BY <1>2 DEF EntryWritten
<1>11. old \in [header : [head : Nat, count : Nat], data : [1..Count * Channels -> Nat]]
  BY <1>4, <1>5
<1>12. new.header = [head |-> w.index, count |-> Count]
  BY <1>5, <1>8 DEF HasCells
<1>13. ASSUME NEW k \in 1..Count * Channels
       PROVE  /\ new.data[k] \in Nat
              /\ k <= w.to => new.data[k] = w.index - Count + SampleOf(k, w.index, LenSrc) - 1
  <2>1. new.data[k] = IF k > w.from /\ k <= w.to
                      THEN SampleAt(cellAt(k, w.index, Count, LenSrc).pos) ELSE old.data[k]
    OBVIOUS
  <2>2. old.data[k] \in Nat
    BY <1>11
  <2>3. CASE k > w.from /\ k <= w.to
    BY <1>9, <2>1, <2>3
  <2>4. CASE ~(k > w.from /\ k <= w.to)
    <3>1. new.data[k] = old.data[k]
      BY <2>1, <2>4
    <3>2. ASSUME k <= w.to PROVE ~w.header /\ k \in 1..w.from
      BY <1>4, <1>5, <2>4, <3>2
    <3>3. ASSUME k <= w.to PROVE old.data[k] = w.index - Count + SampleOf(k, w.index, LenSrc) - 1
      <4>1. HasCells(w.entry, w.index, w.from) /\ k \in 1..w.from
        BY <1>5, <3>2, <3>3
      <4> QED
        BY <4>1 DEF HasCells
    <3> HIDE DEF new, old
    <3> QED
      BY <2>2, <3>1, <3>3
  <2> QED
    BY <2>3, <2>4
<1>14. new \in [header : [head : Nat, count : Nat], data : [1..Count * Channels -> Nat]]
  <2>1. new.header \in [head : Nat, count : Nat]
    BY <1>4, <1>7, <1>12
  <2>2. new.data = [k \in 1..Count * Channels |-> new.data[k]]
    OBVIOUS
  <2>3. new = [header |-> new.header, data |-> new.data]
    OBVIOUS
  <2> HIDE DEF new, old
  <2>4. new.data \in [1..Count * Channels -> Nat]
    BY <1>13, <2>2
  <2> QED
    BY <2>1, <2>3, <2>4
<1> HIDE DEF new, old
<1>15. /\ bounce' \in [Entries -> [header : [head : Nat, count : Nat], data : [1..Count * Channels -> Nat]]]
       /\ bounce'[w.entry] = new
       /\ \A e \in Entries : e # w.entry => bounce'[e] = bounce[e]
  BY <1>4, <1>5, <1>10, <1>14
\* The entry has the cells of its group up to this write; others stay as they are.
<1>16. /\ bounce'[w.entry].header = [head |-> w.index, count |-> Count]
       /\ \A k \in 1..w.to : bounce'[w.entry].data[k] = w.index - Count + SampleOf(k, w.index, LenSrc) - 1
  <2>1. \A k \in 1..w.to : k \in 1..Count * Channels /\ k <= w.to
    BY <1>4, <1>5
  <2> QED
    BY <1>12, <1>13, <1>15, <2>1
<1>17. /\ IsQueue(tcq')
       /\ \A k \in 1..Len(tcq') :
             \/ k \in 1..Len(tcq) /\ tcq'[k] = tcq[k]
             \/ w.imm /\ tcq'[k].entry = w.entry /\ tcq'[k].index = w.index
  <2>1. CASE w.imm
    <3> DEFINE c == [entry |-> w.entry, index |-> w.index]
    <3>1. tcq' = Append(tcq, c) /\ c.entry = w.entry /\ c.index = w.index
      BY <1>2, <2>1
    <3> HIDE DEF c
    <3>2. /\ IsQueue(Append(tcq, c)) /\ Len(Append(tcq, c)) = Len(tcq) + 1
          /\ \A k \in 1..Len(tcq) : Append(tcq, c)[k] = tcq[k]
          /\ Append(tcq, c)[Len(tcq) + 1] = c
      BY <1>4, QueueAppend
    <3> QED
      BY <1>4, <2>1, <3>1, <3>2
  <2>2. CASE ~w.imm
    BY <1>2, <1>4, <2>2
  <2> QED
    BY <2>1, <2>2
<1>18. SampleTypes'
  BY <1>2, <1>15, <1>17 DEF SampleTypes, SamplesArrive
<1>19. BatchesAreThere'
  <2> SUFFICES ASSUME NEW k \in 1..Len(net')
               PROVE  /\ net'[k].entry \in Entries /\ net'[k].index \in LenSrc..src.head
                      /\ net'[k].from \in 0..Count * Channels /\ net'[k].to \in 0..Count * Channels
                      /\ net'[k].header => net'[k].from = 0
                      /\ net'[k].imm => net'[k].to = Count * Channels
    BY <1>2 DEF BatchesAreThere
  <2>1. k + 1 \in 1..Len(net) /\ net'[k] = net[k + 1]
    BY <1>1, <1>3
  <2> QED
    BY <2>1 DEF SamplesArrive, BatchesAreThere
<1>20. GroupsContinue'
  <2> SUFFICES ASSUME NEW k \in 1..Len(net'), ~net'[k].header
               PROVE  IF k = 1
                      THEN /\ bounce'[net'[k].entry].header = [head |-> net'[k].index, count |-> Count]
                           /\ \A j \in 1..net'[k].from : bounce'[net'[k].entry].data[j] =
                                  net'[k].index - Count + SampleOf(j, net'[k].index, LenSrc) - 1
                      ELSE /\ net'[k - 1].entry = net'[k].entry /\ net'[k - 1].index = net'[k].index
                           /\ net'[k - 1].to = net'[k].from
    BY DEF GroupsContinue, HasCells
  <2>1. k + 1 \in 1..Len(net) /\ net'[k] = net[k + 1] /\ k + 1 # 1 /\ ((k + 1) - 1) = k
    BY <1>1, <1>3
  <2>2. /\ net[k].entry = net[k + 1].entry /\ net[k].index = net[k + 1].index
        /\ net[k].to = net[k + 1].from
    BY <2>1 DEF SamplesArrive, GroupsContinue
  <2>3. k # 1 => k - 1 \in 1..Len(net) - 1 /\ k - 1 + 1 = k
    BY <1>1, <1>3
  <2>4. k # 1 => net'[k - 1] = net[k]
    BY <1>3, <2>3
  <2>5. CASE k = 1
    <3>1. w.entry = net'[k].entry /\ w.index = net'[k].index /\ w.to = net'[k].from
      BY <1>3, <2>1, <2>2, <2>5
    <3> QED
      BY <1>16, <2>5, <3>1
  <2>6. CASE k # 1
    BY <2>1, <2>2, <2>4, <2>6
  <2> QED
    BY <2>5, <2>6
<1>21. BatchIsThere'
  BY <1>2 DEF SamplesArrive, BatchIsThere
<1>22. EntriesAreThere'
  <2> SUFFICES ASSUME NEW k \in 1..Len(tcq')
               PROVE  /\ tcq'[k].entry \in Entries /\ tcq'[k].index \in Nat /\ tcq'[k].index >= LenSrc
                      /\ bounce'[tcq'[k].entry].header = [head |-> tcq'[k].index, count |-> Count]
                      /\ \A j \in 1..Count * Channels : bounce'[tcq'[k].entry].data[j] =
                             tcq'[k].index - Count + SampleOf(j, tcq'[k].index, LenSrc) - 1
    BY DEF EntriesAreThere, HasCells
  <2>1. CASE k \in 1..Len(tcq) /\ tcq'[k] = tcq[k]
    <3>1. /\ tcq[k].entry \in Entries /\ tcq[k].index \in Nat /\ tcq[k].index >= LenSrc
          /\ HasCells(tcq[k].entry, tcq[k].index, Count * Channels)
      BY <2>1 DEF SamplesArrive, EntriesAreThere
    <3>2. bounce'[tcq[k].entry] = bounce[tcq[k].entry]
      BY <1>6, <1>15, <2>1, <3>1
    <3> QED
      BY <2>1, <3>1, <3>2 DEF HasCells
  <2>2. CASE w.imm /\ tcq'[k].entry = w.entry /\ tcq'[k].index = w.index
    BY <1>5, <1>7, <1>16, <2>2
  <2> QED
    BY <1>17, <2>1, <2>2
<1>23. (OrdersAgree => last.ok)'
  BY <1>2 DEF SamplesArrive, OrdersAgree
<1> QED
  BY <1>18, <1>19, <1>20, <1>21, <1>22, <1>23 DEF SamplesArrive

\* The target finds every sample of the batch, of every channel, at its place.
LEMMA TargetReadKeepsSamples ==
  ASSUME RDMInv, SamplesArrive, kind = "sample", TargetReadsSamples
  PROVE  SamplesArrive'
<1> DEFINE imm == Head(tcq)
           e == bounce[imm.entry]
<1>1. /\ UNCHANGED <<src, app, remote, headers, net, bounce>> /\ tcq # <<>>
      /\ \/ /\ e.header.count > 0 /\ dst' = unpack(e) /\ tcq' = Tail(tcq)
            /\ last' = [index |-> e.header.head,
                        ok |-> /\ e.header.head = imm.index
                               /\ \A k \in 1..e.header.count, c \in 1..Channels :
                                     dst'[c][(e.header.head - k) % LenDst] = e.header.head - k]
         \/ e.header.count = 0
  BY DEF TargetReadsSamples, appVars
<1>2. /\ LenSrc \in Nat /\ LenDst \in Nat /\ Count \in Nat /\ Channels \in Nat
      /\ Count >= 1 /\ Count <= LenSrc /\ Count <= LenDst
      /\ IsQueue(tcq) /\ Len(tcq) \in Nat
  BY SampleConstants DEF SamplesArrive, SampleTypes, IsQueue
<1>3. /\ IsQueue(Tail(tcq)) /\ Len(tcq) >= 1 /\ Len(Tail(tcq)) = Len(tcq) - 1
      /\ imm = tcq[1] /\ \A k \in 1..Len(tcq) - 1 : Tail(tcq)[k] = tcq[k + 1]
  BY <1>1, <1>2, QueueTail, Zenon
<1>4. /\ imm.index \in Nat /\ imm.index >= LenSrc
      /\ HasCells(imm.entry, imm.index, Count * Channels)
  <2>1. 1 \in 1..Len(tcq)
    BY <1>2, <1>3
  <2>2. /\ tcq[1].index \in Nat /\ tcq[1].index >= LenSrc
        /\ HasCells(tcq[1].entry, tcq[1].index, Count * Channels)
    BY <2>1 DEF SamplesArrive, EntriesAreThere
  <2> QED
    BY <1>3, <2>2
<1> HIDE DEF imm
<1>5. /\ e.header = [head |-> imm.index, count |-> Count]
      /\ \A k \in 1..Count * Channels : e.data[k] = imm.index - Count + SampleOf(k, imm.index, LenSrc) - 1
  BY <1>4 DEF HasCells
<1> HIDE DEF e
<1>6. e.header.head = imm.index /\ e.header.count = Count
  BY <1>5
<1>7. /\ dst' = unpack(e) /\ tcq' = Tail(tcq)
      /\ last' = [index |-> e.header.head,
                  ok |-> /\ e.header.head = imm.index
                         /\ \A k \in 1..e.header.count, c \in 1..Channels :
                               dst'[c][(e.header.head - k) % LenDst] = e.header.head - k]
  <2>1. ~(e.header.count = 0)
    BY <1>2, <1>6
  <2> QED
    BY <1>1, <2>1, Zenon
<1>8. ASSUME OrdersAgree, NEW k \in 1..Count, NEW c \in 1..Channels
      PROVE  dst'[c][(imm.index - k) % LenDst] = imm.index - k
  <2> DEFINE p == (imm.index - k) % LenDst
             at == {j \in 1..(Count * Channels) : cellAt(j, imm.index, Count, LenDst) = [chan |-> c, pos |-> p]}
             j0 == CHOOSE j \in at : TRUE
             i == Count - k + 1
  <2>1. /\ i \in 1..Count /\ imm.index - Count + i - 1 = imm.index - k
        /\ imm.index - k \in Nat /\ Count <= imm.index
    BY <1>2, <1>4
  <2>2. p \in 0..LenDst - 1
    <3>1. imm.index - k \in Nat /\ LenDst > 0
      BY <1>2, <2>1
    <3>2. p \in Nat /\ p < LenDst
      BY <1>2, <3>1, Division
    <3> HIDE DEF p
    <3> QED
      BY <1>2, <3>2
  <2>3. at # {}
    <3>1. PICK j \in 1..(Count * Channels) :
             cellAt(j, imm.index, Count, LenDst) = [chan |-> c, pos |-> (imm.index - Count + i - 1) % LenDst]
      <4>1. /\ imm.index \in Nat /\ LenDst \in Nat /\ Count <= LenDst /\ Count <= imm.index
            /\ c \in 1..Channels /\ i \in 1..Count
        BY <1>2, <1>4, <2>1
      <4> HIDE DEF i
      <4> QED
        BY ONLY <4>1, SamplesHaveCells
    <3>2. (imm.index - Count + i - 1) % LenDst = p
      BY <2>1
    <3>3. j \in at
      <4> HIDE DEF p, i
      <4> QED
        BY <3>1, <3>2
    <3> QED
      BY <3>3
  <2>4. dst'[c][p] = e.data[j0]
    <3> DEFINE cells(ch, pos) == {n \in 1..(e.header.count * Channels) :
                   cellAt(n, e.header.head, e.header.count, LenDst) = [chan |-> ch, pos |-> pos]}
    <3>1. unpack(e) = [ch \in 1..Channels |-> [pos \in 0..(LenDst - 1) |->
              IF cells(ch, pos) = {} THEN dst[ch][pos] ELSE e.data[CHOOSE n \in cells(ch, pos) : TRUE]]]
      BY DEF unpack
    <3>2. cells(c, p) = at
      BY <1>6
    <3> HIDE DEF cells, at, p
    <3>3. unpack(e)[c][p] = IF cells(c, p) = {} THEN dst[c][p] ELSE e.data[CHOOSE n \in cells(c, p) : TRUE]
      BY <2>2, <3>1
    <3>4. unpack(e)[c][p] = e.data[CHOOSE n \in at : TRUE]
      BY <2>3, <3>2, <3>3, Zenon
    <3> QED
      BY <1>7, <3>4 DEF at
  <2>5. j0 \in 1..(Count * Channels) /\ cellAt(j0, imm.index, Count, LenDst).pos = p
    <3>1. j0 \in at
      <4> HIDE DEF at
      <4> QED
        BY <2>3
    <3> HIDE DEF j0, p
    <3>2. j0 \in 1..(Count * Channels) /\ cellAt(j0, imm.index, Count, LenDst) = [chan |-> c, pos |-> p]
      BY <3>1
    <3> QED
      BY <3>2
  <2> HIDE DEF j0
  <2> DEFINE s == SampleOf(j0, imm.index, LenDst)
             x == imm.index - Count + s - 1
  <2>6. s \in 1..Count /\ cellAt(j0, imm.index, Count, LenDst).pos = x % LenDst
    BY <1>2, <1>4, <2>1, <2>5, CellsAreSamples
  <2>7. e.data[j0] = x
    <3>1. SampleOf(j0, imm.index, LenSrc) = s
      BY <1>4, <1>8, <2>1, <2>5, SameOrder
    <3>2. e.data[j0] = imm.index - Count + SampleOf(j0, imm.index, LenSrc) - 1
      BY <1>5, <2>5
    <3> HIDE DEF s
    <3> QED
      BY <3>1, <3>2
  <2> DEFINE y == imm.index - k
  <2>8. x \in Nat /\ x < y + LenDst /\ y < x + LenDst
    <3>1. s \in 1..Count
      BY <2>6
    <3>2. LenDst \in Nat /\ Count \in Nat /\ imm.index \in Nat /\ Count <= LenDst /\ Count <= imm.index
      BY <1>2, <1>4, <2>1
    <3> HIDE DEF s
    <3> QED
      BY <3>1, <3>2
  <2>9. x % LenDst = y % LenDst
    <3> HIDE DEF x
    <3> QED
      BY <2>5, <2>6
  <2>10. x = y
    <3>1. y \in Nat /\ LenDst \in Nat /\ LenDst > 0
      BY <1>2, <2>1
    <3> HIDE DEF x, y
    <3> QED
      BY <2>8, <2>9, <3>1, SamePosition
  <2> HIDE DEF x, p
  <2> QED
    BY <2>4, <2>7, <2>10 DEF p
<1>9. (OrdersAgree => last.ok)'
  <2>1. last'.ok = (/\ e.header.head = imm.index
                    /\ \A k \in 1..e.header.count, c \in 1..Channels :
                          dst'[c][(e.header.head - k) % LenDst] = e.header.head - k)
    BY <1>7
  <2>2. OrdersAgree => \A k \in 1..Count, c \in 1..Channels :
                          dst'[c][(imm.index - k) % LenDst] = imm.index - k
    BY <1>8
  <2>3. OrdersAgree => last'.ok
    BY <1>6, <2>1, <2>2, Zenon
  <2> QED
    BY <2>3 DEF OrdersAgree
<1>10. SampleTypes'
  BY <1>1, <1>3, <1>7 DEF SamplesArrive, SampleTypes
<1>11. BatchesAreThere' /\ GroupsContinue' /\ BatchIsThere'
  BY <1>1 DEF SamplesArrive, BatchesAreThere, GroupsContinue, BatchIsThere, HasCells
<1>12. EntriesAreThere'
  <2> SUFFICES ASSUME NEW k \in 1..Len(tcq')
               PROVE  /\ tcq'[k].entry \in Entries /\ tcq'[k].index \in Nat /\ tcq'[k].index >= LenSrc
                      /\ HasCells(tcq'[k].entry, tcq'[k].index, Count * Channels)
    BY <1>1 DEF EntriesAreThere, HasCells
  <2>1. k \in 1..Len(tcq) - 1 /\ k + 1 \in 1..Len(tcq)
    BY <1>2, <1>3, <1>7
  <2>2. tcq'[k] = tcq[k + 1]
    BY <1>3, <1>7, <2>1
  <2> QED
    BY <2>1, <2>2 DEF SamplesArrive, EntriesAreThere
<1> QED
  BY <1>9, <1>10, <1>11, <1>12, Zenon DEF SamplesArrive

LEMMA NextSampleInv ==
  ASSUME RDMInv, SampleInv, [RDMNext]_rdmVars
  PROVE  SampleInv'
<1> SUFFICES ASSUME kind' = "sample", Undisturbed'
             PROVE  SamplesArrive'
  BY DEF SampleInv
<1>1. kind = "sample" /\ Undisturbed /\ SamplesArrive
  BY DisturbedGrows DEF Undisturbed, SampleInv
<1>2. CASE SourceWrites
  BY <1>1, <1>2, SourceWritesSamples
<1>3. CASE AppSetup \/ AppTooLate \/ AppRead \/ AppMakeProgress \/ AppExit
  BY <1>1, <1>3, AppStepsKeepSamples
<1>4. CASE AppTransferSamples \/ AppTransferNotReady
  BY <1>1, <1>4, TransfersKeepSamples
<1>5. ~(AppTransferInvalid \/ AppTransferGrain)
  BY <1>1 DEF AppTransferInvalid, AppTransferGrain
<1>6. CASE AppDestroy
  BY <1>1, <1>6, DestroyKeepsSamples
<1>7. CASE Deliver
  BY <1>1, <1>7, DeliverKeepsSamples
<1>8. ~FailRDMWrite
  BY DEF FailRDMWrite, Undisturbed
<1>9. CASE TargetReadsSamples
  BY <1>1, <1>9, TargetReadKeepsSamples
<1>10. ~TargetReadsGrain
  BY <1>1 DEF TargetReadsGrain
<1>11. CASE UNCHANGED rdmVars
  <2>1. UNCHANGED <<src, app, remote, headers, net, tcq, bounce, last>>
    BY <1>11 DEF rdmVars
  <2>2. BatchIsThere'
    BY <1>1, <2>1 DEF SamplesArrive, BatchIsThere
  <2>3. src.head \in Nat /\ src'.head \in Nat /\ src'.head >= src.head /\ remote'.entry \in Entries
    BY <1>1, <2>1 DEF RDMInv, RDMTypes, SamplesArrive, SampleTypes
  <2> QED
    BY <1>1, <2>1, <2>2, <2>3, EntriesKept
<1> QED
  BY <1>2, <1>3, <1>4, <1>5, <1>6, <1>7, <1>8, <1>9, <1>10, <1>11 DEF RDMNext

LEMMA InitSampleInv ==
  ASSUME RDMInit
  PROVE  SampleInv
<1> SUFFICES ASSUME kind = "sample" PROVE SamplesArrive
  BY DEF SampleInv
<1>1. Len(net) = 0 /\ Len(tcq) = 0 /\ IsQueue(tcq)
  BY DEF RDMInit, IsQueue
<1>2. SampleTypes
  <2>1. src.head = LenSrc /\ LenSrc \in Nat /\ remote.entry = 0
    BY SampleConstants DEF RDMInit
  <2>2. /\ headers = [e \in Entries |-> None]
        /\ bounce = [e \in Entries |-> [header |-> None, data |-> [k \in 1..(Count * Channels) |-> 0]]]
    BY DEF RDMInit, Entries
  <2>3. None \in [head : Nat, count : Nat]
    BY DEF None
  <2>4. headers \in [Entries -> {None} \cup [head : Nat, count : {Count}]]
    BY <2>2
  <2>5. bounce \in [Entries -> [header : [head : Nat, count : Nat], data : [1..Count * Channels -> Nat]]]
    BY <2>2, <2>3
  <2> QED
    <3>1. src.head >= LenSrc
      BY <2>1
    <3>2. remote.entry \in Entries
      BY <2>1, FirstEntry
    <3> QED
      BY <1>1, <2>4, <2>5, <3>1, <3>2, Zenon DEF SampleTypes
<1>3. app.pc = "setup" /\ last.ok
  BY DEF RDMInit
<1> QED
  BY <1>1, <1>2, <1>3
  DEF SamplesArrive, BatchesAreThere, GroupsContinue, BatchIsThere, EntriesAreThere

(* The target never touches what arrives ("GrainInfo and media payload was       *)
(* already written by the remote endpoint"): what it commits is the grain or the *)
(* batch that was announced, and all of its valid slices or samples of every     *)
(* channel.  For rings, grains, batches, channels and iov limits of every size,  *)
(* through partial batches, refused posts and targets that are added again, as   *)
(* long as nothing happens that the protocols do not guard against and an entry  *)
(* is emptied in the order in which it was filled (transferGrain,                *)
(* transferSamples, the two ingress protocols, AudioBounceBuffer::unpack).       *)
THEOREM CommittedIsTransferred == RDMSpec => []CommittedDataWasTransferred
<1> DEFINE TransferInv == RDMInv /\ GrainInv /\ SampleInv /\ kind \in {"grain", "sample"}
<1>1. RDMInit => TransferInv
  <2>1. RDMInit => kind \in {"grain", "sample"}
    BY DEF RDMInit
  <2> QED
    BY <2>1, InitRDMInv, InitGrainInv, InitSampleInv
<1>2. TransferInv /\ [RDMNext]_rdmVars => TransferInv'
  BY NextRDMInv, NextGrainInv, NextSampleInv, DisturbedGrows
<1>3. TransferInv => CommittedDataWasTransferred
  <2> SUFFICES ASSUME TransferInv, Undisturbed, kind = "sample" => OrdersAgree
               PROVE  last.ok
    BY DEF Undisturbed, CommittedDataWasTransferred
  <2>1. CASE kind = "grain"
    BY <2>1 DEF GrainInv, GrainsArrive
  <2>2. CASE kind = "sample"
    BY <2>2 DEF SampleInv, SamplesArrive
  <2> QED
    BY <2>1, <2>2
<1> QED
  BY <1>1, <1>2, <1>3, PTL DEF RDMSpec
=============================================================================
