---------------------------- MODULE RegistryProofs ----------------------------
(* Proofs about the two registries of the library: the readers of a flow        *)
(* synchronization group, and the watches of the domain watcher.                *)
(* FlowSyncGroup, for groups of every size: the list never holds a reader twice *)
(* or one that was removed, and reordering it under the iterator skips no flow  *)
(* that stays in it.  DomainWatcher, for any number of flows, writers,          *)
(* generations and descriptors: a registered flow stays watched and no watch    *)
(* outlives its records, whatever happens to the flow between the two halves of *)
(* addFlow or to the other writers of the flow.                                 *)
EXTENDS FlowSyncGroup, DomainWatcher, WellFoundedInduction, TLAPS

(* --- Lists --------------------------------------------------------------- *)

Less == {ss \in Nat \X Nat : ss[1] < ss[2]}

(* A set of positions has a first one.                                      *)
LEMMA FirstOf ==
  ASSUME NEW T, T \subseteq Nat, T # {}
  PROVE  Min(T) \in T
<1>1. IsWellFoundedOn(Less, Nat)
  BY NatLessThanWellFounded, Zenon DEF OpToRel, Less
<1>2. PICK x \in T : \A y \in T : ~ (<<y, x>> \in Less)
  BY <1>1, WFMin
<1>3. \A y \in T : ~ (y < x)
  BY <1>2 DEF Less
<1>4. \A y \in T : x <= y
  BY <1>3
<1> QED BY <1>4 DEF Min

Distinct(s) == \A i, j \in 1 .. Len(s) : s[i] = s[j] => i = j

(* The search of an entry stops at it.                                      *)
LEMMA Found ==
  ASSUME NEW s \in Seq(Readers), NEW p \in 1 .. Len(s), Distinct(s), NEW r, s[p] = r
  PROVE  {i \in 1 .. Len(s) : s[i] = r} # {} /\ Min({i \in 1 .. Len(s) : s[i] = r}) = p
<1> DEFINE I == {i \in 1 .. Len(s) : s[i] = r}
<1>1. Len(s) \in Nat
  OBVIOUS
<1>2. I = {p}
  BY DEF Distinct
<1>3. I \subseteq Nat /\ I # {}
  BY <1>1, <1>2
<1>4. Min(I) = p
  <2> HIDE DEF I
  <2> QED BY <1>2, <1>3, FirstOf
<1> QED BY <1>3, <1>4

(* ++iterator leads to the next entry, or to the end behind the last one.   *)
LEMMA NextOfIs ==
  ASSUME NEW s \in Seq(Readers), NEW p \in 1 .. Len(s), Distinct(s)
  PROVE  NextOf(s, s[p]) = IF p = Len(s) THEN End ELSE s[p + 1]
<1>1. SelectInSeq(s, LAMBDA e : e = s[p]) = p
  BY Found DEF SelectInSeq
<1>2. NextOf(s, s[p]) = IF p + 1 > Len(s) THEN End ELSE s[p + 1]
  BY <1>1 DEF NextOf
<1>3. p + 1 > Len(s) <=> p = Len(s)
  OBVIOUS
<1> QED BY <1>2, <1>3

(* Two lists in a row.                                                      *)
LEMMA ConcatIs ==
  ASSUME NEW a \in Seq(Readers), NEW b \in Seq(Readers)
  PROVE  a \o b \in Seq(Readers) /\ Len(a \o b) = Len(a) + Len(b)
OBVIOUS

(* One entry is taken out, the others keep their order.                     *)
LEMMA RemoveAtIs ==
  ASSUME NEW s \in Seq(Readers), NEW p \in 1 .. Len(s)
  PROVE  /\ RemoveAt(s, p) \in Seq(Readers)
         /\ Len(RemoveAt(s, p)) = Len(s) - 1
         /\ \A k \in 1 .. (Len(s) - 1) :
              RemoveAt(s, p)[k] = IF k < p THEN s[k] ELSE s[k + 1]
<1> DEFINE a == SubSeq(s, 1, p - 1)
           b == SubSeq(s, p + 1, Len(s))
<1>1. Len(s) \in Nat /\ p \in Nat /\ p >= 1 /\ p <= Len(s)
  OBVIOUS
<1>2. a \in Seq(Readers) /\ Len(a) = p - 1 /\ \A k \in 1 .. (p - 1) : a[k] = s[k]
  BY <1>1
<1>3. b \in Seq(Readers) /\ Len(b) = Len(s) - p /\ \A k \in 1 .. (Len(s) - p) : b[k] = s[p + k]
  BY <1>1
<1> HIDE DEF a, b
<1>4. /\ a \o b \in Seq(Readers) /\ Len(a \o b) = Len(s) - 1
      /\ \A k \in 1 .. (Len(s) - 1) : (a \o b)[k] = IF k < p THEN s[k] ELSE s[k + 1]
  <2>1. a \o b \in Seq(Readers) /\ Len(a \o b) = Len(s) - 1
    <3>1. a \o b \in Seq(Readers) /\ Len(a \o b) = Len(a) + Len(b)
      BY <1>2, <1>3, ConcatIs
    <3> QED BY <1>1, <1>2, <1>3, <3>1
  <2>2. ASSUME NEW k \in 1 .. (Len(s) - 1)
        PROVE  (a \o b)[k] = IF k < p THEN s[k] ELSE s[k + 1]
    <3>1. CASE k < p
      <4>1. (a \o b)[k] = a[k]
        BY <1>1, <1>2, <1>3, <3>1
      <4> QED BY <1>1, <1>2, <3>1, <4>1
    <3>2. CASE ~(k < p)
      <4>1. (a \o b)[k] = b[k - (p - 1)]
        BY <1>1, <1>2, <1>3, <3>2
      <4>2. k - (p - 1) \in 1 .. (Len(s) - p) /\ p + (k - (p - 1)) = k + 1
        BY <1>1, <3>2
      <4> QED BY <1>3, <3>2, <4>1, <4>2
    <3> QED BY <3>1, <3>2
  <2> QED BY <2>1, <2>2
<1> QED BY <1>4 DEF RemoveAt, a, b

(* A list without repetitions, and the readers in it.                       *)
Listed(s) == {s[i] : i \in 1 .. Len(s)}

(* erase_after takes the reader out and adds or doubles none.               *)
LEMMA RemoveFirstIs ==
  ASSUME NEW s \in Seq(Readers), NEW r \in Readers, Distinct(s)
  PROVE  /\ RemoveFirst(s, r) \in Seq(Readers) /\ Distinct(RemoveFirst(s, r))
         /\ Listed(RemoveFirst(s, r)) \subseteq Listed(s) \ {r}
<1>1. CASE ~\E i \in 1 .. Len(s) : s[i] = r
  BY <1>1 DEF RemoveFirst, Listed
<1>2. CASE \E i \in 1 .. Len(s) : s[i] = r
  <2>1. PICK p \in 1 .. Len(s) : s[p] = r
    BY <1>2
  <2> DEFINE t == RemoveAt(s, p)
  <2>2. RemoveFirst(s, r) = t
    <3>1. SelectInSeq(s, LAMBDA e : e = r) = p
      BY <2>1, Found DEF SelectInSeq
    <3> QED BY <1>2, <3>1 DEF RemoveFirst
  <2>3. /\ t \in Seq(Readers) /\ Len(t) = Len(s) - 1
        /\ \A k \in 1 .. (Len(s) - 1) : t[k] = IF k < p THEN s[k] ELSE s[k + 1]
    BY RemoveAtIs
  <2> HIDE DEF t
  <2>4. Len(s) \in Nat
    OBVIOUS
  <2>5. \A k \in 1 .. Len(t) :
          \E i \in 1 .. Len(s) : /\ i # p /\ t[k] = s[i]
                                 /\ i = IF k < p THEN k ELSE k + 1
    <3>1. ASSUME NEW k \in 1 .. Len(t)
          PROVE  \E i \in 1 .. Len(s) : /\ i # p /\ t[k] = s[i]
                                        /\ i = IF k < p THEN k ELSE k + 1
      <4> DEFINE i == IF k < p THEN k ELSE k + 1
      <4>1. i \in 1 .. Len(s) /\ i # p
        BY <2>3, <2>4
      <4>2. t[k] = s[i]
        BY <2>3, <2>4
      <4> QED BY <4>1, <4>2
    <3> QED BY <3>1
  <2>6. Distinct(t)
    <3>1. SUFFICES ASSUME NEW k \in 1 .. Len(t), NEW l \in 1 .. Len(t), t[k] = t[l]
                   PROVE  k = l
      BY DEF Distinct
    <3>2. PICK i \in 1 .. Len(s) : t[k] = s[i] /\ i = IF k < p THEN k ELSE k + 1
      BY <2>5
    <3>3. PICK j \in 1 .. Len(s) : t[l] = s[j] /\ j = IF l < p THEN l ELSE l + 1
      BY <2>5
    <3>4. i = j
      BY <3>1, <3>2, <3>3 DEF Distinct
    <3> QED BY <2>3, <2>4, <3>2, <3>3, <3>4
  <2>7. Listed(t) \subseteq Listed(s) \ {r}
    <3>1. SUFFICES ASSUME NEW k \in 1 .. Len(t)
                   PROVE  t[k] \in Listed(s) \ {r}
      BY DEF Listed
    <3>2. PICK i \in 1 .. Len(s) : i # p /\ t[k] = s[i]
      BY <2>5
    <3>3. s[i] # r
      BY <2>1, <3>2 DEF Distinct
    <3> QED BY <3>2, <3>3 DEF Listed
  <2> QED BY <2>2, <2>3, <2>6, <2>7
<1> QED BY <1>1, <1>2

(* emplace_after at the end adds a reader that the list does not hold.      *)
LEMMA AppendIs ==
  ASSUME NEW s \in Seq(Readers), NEW r \in Readers, Distinct(s), ~Contains(s, r)
  PROVE  /\ Append(s, r) \in Seq(Readers) /\ Distinct(Append(s, r))
         /\ Listed(Append(s, r)) \subseteq Listed(s) \cup {r}
<1> DEFINE t == Append(s, r)
<1>1. /\ t \in Seq(Readers) /\ Len(t) = Len(s) + 1 /\ Len(s) \in Nat
      /\ \A k \in 1 .. Len(s) : t[k] = s[k]
      /\ t[Len(s) + 1] = r
  OBVIOUS
<1> HIDE DEF t
<1>2. \A k \in 1 .. Len(t) : k \in 1 .. Len(s) \/ k = Len(s) + 1
  BY <1>1
<1>3. \A k \in 1 .. Len(s) : s[k] # r
  BY DEF Contains
<1>4. Distinct(t)
  BY <1>1, <1>2, <1>3 DEF Distinct
<1>5. Listed(t) \subseteq Listed(s) \cup {r}
  BY <1>1, <1>2 DEF Listed
<1> QED BY <1>1, <1>4, <1>5 DEF t

(* splice_after moves the entry behind the iterator to the front, or empties *)
(* the list behind its last entry; it neither adds nor doubles any.          *)
LEMMA SpliceIs ==
  ASSUME NEW s \in Seq(Readers), NEW p \in 1 .. Len(s), Distinct(s)
  PROVE  LET t == SpliceToFront(s, s[p])
         IN  /\ t \in Seq(Readers) /\ Distinct(t) /\ Listed(t) \subseteq Listed(s)
             /\ IF p = Len(s) THEN t = <<>> ELSE Len(t) > 0 /\ t[1] = s[p + 1]
<1> DEFINE t == SpliceToFront(s, s[p])
<1>1. Len(s) \in Nat /\ NextOf(s, s[p]) = IF p = Len(s) THEN End ELSE s[p + 1]
  BY NextOfIs
<1>2. CASE p = Len(s)
  <2>1. t = <<>>
    BY <1>1, <1>2 DEF SpliceToFront
  <2>2. Len(t) = 0 /\ t \in Seq(Readers)
    BY <2>1
  <2> HIDE DEF t
  <2>3. Distinct(t) /\ Listed(t) = {}
    BY <2>2 DEF Distinct, Listed
  <2> QED BY <1>2, <2>1, <2>2, <2>3 DEF t
<1>3. CASE p # Len(s)
  <2> DEFINE r == s[p + 1]
             u == RemoveFirst(s, r)
  <2>1. p + 1 \in 1 .. Len(s)
    BY <1>1, <1>3
  <2>2. r \in Readers /\ r \in Listed(s)
    BY <2>1 DEF Listed
  <2>3. t = <<r>> \o u
    BY <1>1, <1>3, <2>2, GroupAssumption DEF SpliceToFront
  <2>4. u \in Seq(Readers) /\ Distinct(u) /\ Listed(u) \subseteq Listed(s) \ {r}
    BY <2>2, RemoveFirstIs
  <2> HIDE DEF r, u, t
  <2>5. /\ t \in Seq(Readers) /\ Len(t) = Len(u) + 1 /\ Len(u) \in Nat /\ t[1] = r
        /\ \A k \in 2 .. Len(t) : t[k] = u[k - 1]
    BY <2>2, <2>3, <2>4
  <2>6. \A k \in 1 .. Len(t) : k = 1 \/ (k - 1 \in 1 .. Len(u) /\ t[k] = u[k - 1])
    BY <2>5
  <2>7. \A k \in 1 .. Len(u) : u[k] \in Listed(s) /\ u[k] # r
    BY <2>4 DEF Listed
  <2>8. Distinct(t)
    <3>1. SUFFICES ASSUME NEW k \in 1 .. Len(t), NEW l \in 1 .. Len(t), t[k] = t[l]
                   PROVE  k = l
      BY DEF Distinct
    <3>2. CASE k = 1 \/ l = 1
      BY <2>5, <2>6, <2>7, <3>1, <3>2
    <3>3. CASE k # 1 /\ l # 1
      <4>1. k - 1 = l - 1
        BY <2>4, <2>6, <3>1, <3>3 DEF Distinct
      <4> QED BY <4>1
    <3> QED BY <3>2, <3>3
  <2>9. Listed(t) \subseteq Listed(s)
    <3>1. SUFFICES ASSUME NEW k \in 1 .. Len(t) PROVE t[k] \in Listed(s)
      BY DEF Listed
    <3> QED BY <2>2, <2>5, <2>6, <2>7
  <2>10. Len(t) > 0
    BY <2>5
  <2> QED BY <1>3, <2>5, <2>8, <2>9, <2>10 DEF t, r
<1> QED BY <1>2, <1>3

(* --- The invariant ------------------------------------------------------- *)

GroupTypes ==
  /\ readers \in Seq(Readers) /\ members \in SUBSET Readers
  /\ head \in [Readers -> Nat] /\ originTime \in Nat
  /\ pc \in {"idle", "loop", "blocked"}
  /\ it \in Readers \cup {End} /\ current \in Readers \cup {End}

(* The entries that the loop has left behind; all of them once it = End.    *)
BeforeIterator(k) == \A j \in 1 .. k : readers[j] # it

(* What the walk has seen: every entry before the iterator has arrived, but *)
(* for the one that is waited for, which is right before the iterator.      *)
Walk ==
  /\ pc = "loop" =>
       /\ it # End => it \in Listed(readers)
       /\ \A k \in 1 .. Len(readers) : BeforeIterator(k) => Arrived(readers[k])
  /\ pc = "blocked" =>
       /\ \E p \in 1 .. Len(readers) :
            readers[p] = current /\ it = IF p = Len(readers) THEN End ELSE readers[p + 1]
       /\ \A k \in 1 .. Len(readers) :
            BeforeIterator(k) => Arrived(readers[k]) \/ readers[k] = current

Settled == status = "OK" => /\ pc = "idle"
                            /\ \A k \in 1 .. Len(readers) : Arrived(readers[k])

GroupInv ==
  /\ GroupTypes
  /\ Distinct(readers) /\ Listed(readers) \subseteq members
  /\ Walk
  /\ Settled

(* Nothing is listed in the initial state.                                  *)
LEMMA InitGroupInv == Init => GroupInv
<1>1. SUFFICES ASSUME Init PROVE GroupInv
  OBVIOUS
<1>2. readers \in Seq(Readers) /\ Len(readers) = 0
  BY <1>1 DEF Init
<1>3. GroupTypes
  BY <1>1, <1>2 DEF Init, GroupTypes
<1>4. Distinct(readers) /\ Listed(readers) \subseteq members
  BY <1>2 DEF Distinct, Listed
<1>5. Walk /\ Settled
  BY <1>1 DEF Init, Walk, Settled
<1> QED BY <1>3, <1>4, <1>5 DEF GroupInv

(* timestampToIndex yields an index.                                        *)
LEMMA IndexType ==
  ASSUME NEW r \in Readers, NEW t \in Nat
  PROVE  timestampToIndex(r, t) \in Int
<1>1. Period[r] \in Nat /\ 2 * Period[r] > 0
  BY GroupAssumption
<1> DEFINE n == 2 * t + Period[r]
           d == 2 * Period[r]
<1>2. n \in Nat /\ d \in Nat /\ d > 0
  BY <1>1
<1> HIDE DEF n, d
<1>3. n \div d \in Int
  BY <1>2
<1> QED BY <1>3 DEF timestampToIndex, n, d

(* The clock and the writers of the flows: what has arrived stays there.    *)
LEMMA FlowStep ==
  ASSUME GroupInv, UNCHANGED <<readers, members, callVars>>,
         head' \in [Readers -> Nat], \A r \in Readers : head[r] <= head'[r]
  PROVE  GroupInv'
<1>1. GroupTypes'
  BY DEF GroupInv, GroupTypes, callVars
<1>2. \A k \in 1 .. Len(readers) : readers[k] \in Readers
  BY DEF GroupInv, GroupTypes
<1>3. \A r \in Readers : Arrived(r) => Arrived(r)'
  <2>1. SUFFICES ASSUME NEW r \in Readers, Arrived(r) PROVE Arrived(r)'
    OBVIOUS
  <2>2. timestampToIndex(r, originTime) \in Int
    BY IndexType DEF GroupInv, GroupTypes
  <2>3. timestampToIndex(r, originTime)' = timestampToIndex(r, originTime)
    BY DEF timestampToIndex, callVars
  <2>4. head[r] \in Nat /\ head'[r] \in Nat /\ head[r] <= head'[r]
    BY DEF GroupInv, GroupTypes
  <2> QED BY <2>1, <2>2, <2>3, <2>4 DEF Arrived
<1>4. Walk'
  BY <1>2, <1>3 DEF GroupInv, Walk, BeforeIterator, callVars
<1>5. Settled'
  BY <1>2, <1>3 DEF GroupInv, Settled, callVars
<1>6. Distinct(readers)' /\ (Listed(readers) \subseteq members)'
  BY DEF GroupInv, Distinct, Listed
<1> QED BY <1>1, <1>4, <1>5, <1>6 DEF GroupInv

(* Between two calls the list may change: nothing is claimed of it then.    *)
LEMMA ListStep ==
  ASSUME GroupInv, pc = "idle", status' = "NONE",
         UNCHANGED <<head, pc, originTime, it, current>>,
         readers' \in Seq(Readers), members' \in SUBSET Readers,
         Distinct(readers'), Listed(readers') \subseteq members'
  PROVE  GroupInv'
<1>1. GroupTypes'
  BY DEF GroupInv, GroupTypes
<1>2. Walk' /\ Settled'
  BY DEF Walk, Settled
<1> QED BY <1>1, <1>2 DEF GroupInv

(* addReader and removeReader change the list by one reader at most.        *)
LEMMA MembershipStep ==
  ASSUME GroupInv, NEW r \in Readers,
         removeReader(r) \/ \E n \in 1 .. TotalSlices : addReader(r, n)
  PROVE  GroupInv'
<1>0. /\ readers \in Seq(Readers) /\ members \in SUBSET Readers
      /\ Distinct(readers) /\ Listed(readers) \subseteq members
  BY DEF GroupInv, GroupTypes
<1>1. CASE removeReader(r)
  <2>1. /\ RemoveFirst(readers, r) \in Seq(Readers) /\ Distinct(RemoveFirst(readers, r))
        /\ Listed(RemoveFirst(readers, r)) \subseteq members \ {r}
    BY <1>0, RemoveFirstIs
  <2> QED BY <1>0, <1>1, <2>1, ListStep DEF removeReader, flowVars
<1>2. ASSUME NEW n \in 1 .. TotalSlices, addReader(r, n) PROVE GroupInv'
  <2>1. CASE Contains(readers, r)
    BY <1>0, <1>2, <2>1, ListStep DEF addReader, flowVars
  <2>2. CASE ~Contains(readers, r)
    <3>1. /\ Append(readers, r) \in Seq(Readers) /\ Distinct(Append(readers, r))
          /\ Listed(Append(readers, r)) \subseteq members \cup {r}
      BY <1>0, <2>2, AppendIs
    <3> QED BY <1>0, <1>2, <2>2, <3>1, ListStep DEF addReader, flowVars
  <2> QED BY <2>1, <2>2
<1> QED BY <1>1, <1>2

(* The walk begins in front of the first entry.                             *)
LEMMA BeginStep ==
  ASSUME GroupInv, NEW t \in Times, waitForDataAt(t)
  PROVE  GroupInv'
<1>1. /\ UNCHANGED <<readers, members, head>> /\ pc' = "loop" /\ status' = "NONE"
      /\ originTime' = t /\ current' = End
      /\ it' = IF readers = <<>> THEN End ELSE Head(readers)
  BY DEF waitForDataAt, groupVars, flowVars
<1>2. readers \in Seq(Readers) /\ t \in Nat
  BY GroupAssumption DEF GroupInv, GroupTypes, Times
<1>3. CASE readers = <<>>
  <2>1. Len(readers) = 0
    BY <1>3
  <2>2. GroupTypes' /\ Settled'
    BY <1>1, <1>2, <1>3 DEF GroupInv, GroupTypes, Settled
  <2>3. Walk'
    BY <1>1, <1>3, <2>1 DEF Walk
  <2> QED BY <1>1, <2>2, <2>3 DEF GroupInv, Distinct, Listed
<1>4. CASE readers # <<>>
  <2>1. Len(readers) > 0 /\ Len(readers) \in Nat /\ it' = readers[1] /\ readers[1] \in Readers
    BY <1>1, <1>2, <1>4
  <2>2. GroupTypes' /\ Settled'
    BY <1>1, <1>2, <2>1 DEF GroupInv, GroupTypes, Settled
  <2>3. Walk'
    BY <1>1, <2>1 DEF Walk, BeforeIterator, Listed
  <2> QED BY <1>1, <2>2, <2>3 DEF GroupInv, Distinct, Listed
<1> QED BY <1>3, <1>4

(* A call that returns MXL_STATUS_OK has walked the whole list.             *)
LEMMA LoopEndsStep ==
  ASSUME GroupInv, LoopEnds
  PROVE  GroupInv'
<1>1. /\ pc = "loop" /\ it = End /\ pc' = "idle" /\ status' = "OK" /\ it' = End /\ current' = End
      /\ UNCHANGED <<readers, members, head, originTime>>
  BY DEF LoopEnds, Return, groupVars, flowVars
<1>2. \A k \in 1 .. Len(readers) : readers[k] \in Readers
  BY DEF GroupInv, GroupTypes
<1>3. \A k \in 1 .. Len(readers) : BeforeIterator(k)
  <2>1. SUFFICES ASSUME NEW k \in 1 .. Len(readers), NEW j \in 1 .. k
                 PROVE  readers[j] # it
    BY DEF BeforeIterator
  <2>2. j \in 1 .. Len(readers)
    BY DEF GroupInv, GroupTypes
  <2> QED BY <1>1, <1>2, <2>2, GroupAssumption
<1>4. \A k \in 1 .. Len(readers) : Arrived(readers[k])'
  BY <1>1, <1>3 DEF GroupInv, Walk, Arrived, timestampToIndex
<1>5. GroupTypes'
  BY <1>1 DEF GroupInv, GroupTypes
<1>6. Walk' /\ Settled'
  BY <1>1, <1>4 DEF Walk, Settled
<1> QED BY <1>1, <1>5, <1>6 DEF GroupInv, Distinct, Listed

(* A wait that fails makes the call fail.                                   *)
LEMMA WaitFailsStep ==
  ASSUME GroupInv, WaitFails
  PROVE  GroupInv'
<1>1. /\ pc' = "idle" /\ status' = "ERROR" /\ it' = End /\ current' = End
      /\ UNCHANGED <<readers, members, head, originTime>>
  BY DEF WaitFails, Return, groupVars, flowVars
<1>2. GroupTypes'
  BY <1>1 DEF GroupInv, GroupTypes
<1>3. Walk' /\ Settled'
  BY <1>1 DEF Walk, Settled
<1> QED BY <1>1, <1>2, <1>3 DEF GroupInv, Distinct, Listed

(* The loop takes one entry: it has arrived, or it is waited for.           *)
LEMMA VisitStep ==
  ASSUME GroupInv, Visit
  PROVE  GroupInv'
<1>1. /\ pc = "loop" /\ it # End /\ current' = it /\ it' = NextOf(readers, it)
      /\ pc' = IF timestampToIndex(it, originTime) > head[it] THEN "blocked" ELSE "loop"
      /\ UNCHANGED <<readers, members, head, originTime, status>>
  BY DEF Visit, groupVars, flowVars
<1>2. /\ readers \in Seq(Readers) /\ Len(readers) \in Nat /\ Distinct(readers)
      /\ it \in Readers /\ head[it] \in Nat /\ originTime \in Nat
      /\ \A k \in 1 .. Len(readers) : readers[k] \in Readers
  BY <1>1 DEF GroupInv, GroupTypes
<1>3. PICK p \in 1 .. Len(readers) : readers[p] = it
  BY <1>1 DEF GroupInv, Walk, Listed
<1>4. it' = IF p = Len(readers) THEN End ELSE readers[p + 1]
  BY <1>1, <1>2, <1>3, NextOfIs
<1>5. it' # End => it' \in Listed(readers)
  BY <1>2, <1>4 DEF Listed
<1>6. ASSUME NEW k \in 1 .. Len(readers), BeforeIterator(k)'
      PROVE  Arrived(readers[k]) \/ k = p
  <2>1. k <= p
    <3>1. SUFFICES ASSUME p + 1 <= k PROVE FALSE
      BY <1>2
    <3>2. p + 1 \in 1 .. k /\ p # Len(readers)
      BY <1>2, <3>1
    <3> QED BY <1>1, <1>4, <1>6, <3>2 DEF BeforeIterator
  <2>2. CASE k < p
    <3>1. BeforeIterator(k)
      <4>1. SUFFICES ASSUME NEW j \in 1 .. k PROVE readers[j] # it
        BY DEF BeforeIterator
      <4>2. j \in 1 .. Len(readers) /\ j # p
        BY <1>2, <2>2
      <4> QED BY <1>2, <1>3, <4>2 DEF Distinct
    <3> QED BY <1>1, <3>1 DEF GroupInv, Walk
  <2> QED BY <1>2, <2>1, <2>2
<1>7. \A r \in Readers : Arrived(r)' = Arrived(r)
  BY <1>1 DEF Arrived, timestampToIndex
<1>8. pc' = "loop" => Arrived(it)
  <2>1. timestampToIndex(it, originTime) \in Int
    BY <1>2, IndexType
  <2> QED BY <1>1, <1>2, <2>1 DEF Arrived
<1>9. \A k \in 1 .. Len(readers) :
        BeforeIterator(k)' => Arrived(readers[k])' \/ (pc' = "blocked" /\ readers[k] = current')
  BY <1>1, <1>2, <1>3, <1>6, <1>7, <1>8
<1>10. Walk'
  BY <1>1, <1>3, <1>4, <1>5, <1>9 DEF Walk
<1>11. GroupTypes'
  BY <1>1, <1>2, <1>4 DEF GroupInv, GroupTypes
<1>12. Settled'
  BY <1>1 DEF GroupInv, Settled
<1> QED BY <1>1, <1>10, <1>11, <1>12 DEF GroupInv, Distinct, Listed

(* The wait for an entry succeeded.  When the entry behind it, where the    *)
(* iterator points, moves to the front, the walk starts over; when the list *)
(* is lost, nothing is left to claim.                                       *)
LEMMA WaitSucceedsStep ==
  ASSUME GroupInv, WaitSucceeds
  PROVE  GroupInv'
<1>1. /\ pc = "blocked" /\ pc' = "loop" /\ Available(current, timestampToIndex(current, originTime))
      /\ UNCHANGED <<members, head, originTime, it, current, status>>
      /\ readers' = readers \/ readers' = SpliceToFront(readers, current)
  BY DEF WaitSucceeds, flowVars
<1>2. /\ readers \in Seq(Readers) /\ Len(readers) \in Nat /\ Distinct(readers)
      /\ originTime \in Nat
      /\ \A k \in 1 .. Len(readers) : readers[k] \in Readers
  BY DEF GroupInv, GroupTypes
<1>3. PICK p \in 1 .. Len(readers) :
        readers[p] = current /\ it = IF p = Len(readers) THEN End ELSE readers[p + 1]
  BY <1>1 DEF GroupInv, Walk
<1>4. \A r \in Readers : Arrived(r)' = Arrived(r)
  BY <1>1 DEF Arrived, timestampToIndex
<1>5. Arrived(current)
  <2>1. current \in Readers /\ head[current] \in Nat
    BY <1>2, <1>3 DEF GroupInv, GroupTypes
  <2>2. timestampToIndex(current, originTime) \in Int
    BY <1>2, <2>1, IndexType
  <2> QED BY <1>1, <2>1, <2>2 DEF Available, Arrived
<1>6. CASE readers' = readers
  <2>1. it # End => it \in Listed(readers)
    BY <1>2, <1>3 DEF Listed
  <2>2. \A k \in 1 .. Len(readers) : BeforeIterator(k) => Arrived(readers[k])
    BY <1>1, <1>5 DEF GroupInv, Walk
  <2>3. Walk'
    BY <1>1, <1>2, <1>4, <1>6, <2>1, <2>2 DEF Walk, BeforeIterator, Listed
  <2>4. GroupTypes' /\ Settled'
    BY <1>1, <1>6 DEF GroupInv, GroupTypes, Settled
  <2> QED BY <1>1, <1>6, <2>3, <2>4 DEF GroupInv, Distinct, Listed
<1>7. CASE readers' = SpliceToFront(readers, current)
  <2>1. /\ readers' \in Seq(Readers) /\ Distinct(readers') /\ Listed(readers') \subseteq Listed(readers)
        /\ IF p = Len(readers) THEN readers' = <<>> ELSE Len(readers') > 0 /\ readers'[1] = readers[p + 1]
    BY <1>2, <1>3, <1>7, SpliceIs
  <2>2. Len(readers') \in Nat
    BY <2>1
  <2>3. CASE p = Len(readers)
    <3>1. it' = End /\ Len(readers') = 0
      BY <1>1, <1>3, <2>1, <2>3
    <3> QED BY <1>1, <2>1, <3>1 DEF GroupInv, GroupTypes, Walk, Settled
  <2>4. CASE p # Len(readers)
    <3>1. it' = readers'[1] /\ 1 \in 1 .. Len(readers')
      BY <1>1, <1>3, <2>1, <2>2, <2>4
    <3>2. \A k \in 1 .. Len(readers') : ~BeforeIterator(k)'
      BY <2>2, <3>1 DEF BeforeIterator
    <3>3. it' \in Listed(readers')
      BY <3>1 DEF Listed
    <3>4. Walk'
      BY <1>1, <3>2, <3>3 DEF Walk
    <3>5. GroupTypes' /\ Settled'
      BY <1>1, <2>1 DEF GroupInv, GroupTypes, Settled
    <3> QED BY <1>1, <2>1, <3>4, <3>5 DEF GroupInv
  <2> QED BY <2>3, <2>4
<1> QED BY <1>1, <1>6, <1>7

(* The invariant holds in every reachable state.                            *)
LEMMA GroupInvHolds == Spec => []GroupInv
<1>1. GroupInv /\ [Next]_vars => GroupInv'
  <2>1. SUFFICES ASSUME GroupInv, [Next]_vars PROVE GroupInv'
    OBVIOUS
  <2>2. head \in [Readers -> Nat]
    BY <2>1 DEF GroupInv, GroupTypes
  <2>3. CASE UNCHANGED <<groupVars, head, callVars>>
    BY <2>1, <2>2, <2>3, FlowStep DEF groupVars
  <2>4. CASE Tick
    BY <2>3, <2>4 DEF Tick, flowVars
  <2>5. ASSUME NEW r \in Readers, NEW n \in 1 .. TotalSlices, Produce(r, n)
        PROVE  GroupInv'
    <3>1. head' = [head EXCEPT ![r] = head[r] + 1] /\ UNCHANGED <<groupVars, callVars>>
      BY <2>5 DEF Produce
    <3>2. head' \in [Readers -> Nat] /\ \A s \in Readers : head[s] <= head'[s]
      BY <2>2, <3>1
    <3> QED BY <2>1, <3>1, <3>2, FlowStep DEF groupVars
  <2>6. ASSUME NEW r \in Readers, NEW n \in 1 .. TotalSlices, ProduceSlices(r, n)
        PROVE  GroupInv'
    BY <2>3, <2>6 DEF ProduceSlices
  <2>7. ASSUME NEW r \in Readers,
               removeReader(r) \/ \E n \in 1 .. TotalSlices : addReader(r, n)
        PROVE  GroupInv'
    BY <2>1, <2>7, MembershipStep
  <2>8. CASE \E t \in Times : waitForDataAt(t)
    BY <2>1, <2>8, BeginStep
  <2>9. CASE CallStep
    BY <2>1, <2>9, LoopEndsStep, VisitStep, WaitSucceedsStep, WaitFailsStep DEF CallStep
  <2>10. CASE UNCHANGED vars
    BY <2>3, <2>10 DEF vars, flowVars
  <2> QED BY <2>1, <2>4, <2>5, <2>6, <2>7, <2>8, <2>9, <2>10 DEF Next
<1> QED BY <1>1, InitGroupInv, PTL DEF Spec

(* --- Results ------------------------------------------------------------- *)

(* Whatever is added, removed and reordered, in whichever order: the list   *)
(* of FlowSynchronizationGroup holds no reader twice and none that the      *)
(* client has removed.                                                      *)
THEOREM ListAlwaysHoldsMembersOnce == Spec => []ListHoldsMembersOnce
<1>1. GroupInv => ListHoldsMembersOnce
  BY DEF GroupInv, GroupTypes, ListHoldsMembersOnce, Distinct, Listed, ToSet
<1> QED BY <1>1, GroupInvHolds, PTL

(* MXL_STATUS_OK of waitForDataAt is true of every flow that the list still *)
(* holds: moving an entry to the front under the iterator skips none.       *)
THEOREM ListedFlowsAlwaysArrive == Spec => []ListedFlowsHaveArrived
<1>1. GroupInv => ListedFlowsHaveArrived
  BY DEF GroupInv, GroupTypes, Settled, ListedFlowsHaveArrived, ToSet
<1> QED BY <1>1, GroupInvHolds, PTL

-----------------------------------------------------------------------------
\* The watches: DomainWatcher.

Types ==
    /\ disk \in [Flows -> Nat] /\ files \in [Flows -> SUBSET FlowFiles]
    /\ nextWd \in Nat
    /\ writer \in [Writers -> [pc : {"none", "add", "open", "ready"}, id : Flows, wd : Nat, gen : Nat]]
    /\ watches \subseteq [wd : Nat, id : Flows, fw : Writers, data : [id : Flows, gen : Nat],
                          watched : Nat]
    /\ DOMAIN inotify \subseteq Nat
    /\ \A d \in DOMAIN inotify : inotify[d] \in [id : Flows, gen : Nat]

\* The mutex is held exactly between the two halves of addFlow.
MutexInv ==
    /\ mutex = "free" \/ mutex \in Writers
    /\ \A w \in Writers : writer[w].pc = "open" <=> mutex = w

\* The kernel watches only inodes that are, or were, in the domain.
KernelInv ==
    \A d \in DOMAIN inotify : d < nextWd /\ inotify[d].gen <= disk[inotify[d].id]

\* Every record is that of one finished writer, and of its flow.
RecordInv ==
    /\ \A r \in watches :
          /\ writer[r.fw].pc = "ready" /\ writer[r.fw].id = r.id
          /\ r.wd < nextWd /\ r.data.id = r.id /\ r.data.gen <= disk[r.id]
          /\ r.wd \in DOMAIN inotify => inotify[r.wd] = [id |-> r.id, gen |-> r.watched]
    /\ \A r, s \in watches : r.fw = s.fw => r = s

\* What a writer knows in the middle of addFlow: its watch is there for as long
\* as the file is.
OpenInv ==
    \A w \in Writers : writer[w].pc = "open" =>
        LET i == [id |-> writer[w].id, gen |-> writer[w].gen]
            d == writer[w].wd
        IN  /\ d < nextWd /\ i.gen <= disk[i.id]
            /\ d \in DOMAIN inotify => inotify[d] = i
            /\ Linked(i) => d \in DOMAIN inotify

\* A watch of a flow that is there has a record, or is stranded, or the writer
\* that holds the mutex is about to store its record; no stranded watch has one.
OwnerInv ==
    /\ \A d \in DOMAIN inotify : Whole(inotify[d]) =>
           \/ \E r \in watches : r.wd = d
           \/ d \in stranded
           \/ \E w \in Writers : writer[w].pc = "open" /\ writer[w].wd = d
    /\ \A r \in watches : r.wd \notin stranded

IInv == Types /\ MutexInv /\ KernelInv /\ RecordInv /\ OpenInv /\ OwnerInv /\ RegisteredFlowIsWatched

\* What dropping watches does to the kernel's table.
LEMMA DropFacts ==
    ASSUME NEW f, NEW gone
    PROVE  /\ DOMAIN Drop(f, gone) = DOMAIN f \ gone
           /\ \A x \in DOMAIN f \ gone : Drop(f, gone)[x] = f[x]
BY DEF Drop

\* Steps that touch neither the bookkeeping nor the kernel's table.
LEMMA FrameStep ==
    ASSUME IInv, UNCHANGED <<disk, files, watches, inotify, nextWd, mutex, writer, stranded>>
    PROVE  IInv'
BY DEF IInv, Types, MutexInv, KernelInv, RecordInv, OpenInv, OwnerInv,
       RegisteredFlowIsWatched, Linked, Whole, Current

\* A writer that begins has no record yet.
LEMMA CreateWriterStep ==
    ASSUME IInv, NEW w \in Writers, CreateWriter(w)
    PROVE  IInv'
<1> USE WatcherAssumption DEF IInv, Types
<1>a. /\ writer[w].pc = "none"
      /\ \E id \in Flows : writer' = [writer EXCEPT ![w] = [pc |-> "add", id |-> id, wd |-> 0, gen |-> 0]]
      /\ UNCHANGED <<disk, files, watches, inotify, nextWd, mutex, stranded>>
    BY DEF CreateWriter, fsVars, kernelVars
<1>1. Types'
    BY <1>a
<1>2. MutexInv'
    BY <1>a DEF MutexInv
<1>3. KernelInv'
    BY <1>a DEF KernelInv
<1>4. RecordInv'
    BY <1>a DEF RecordInv
<1>5. OpenInv'
    BY <1>a DEF OpenInv, Linked, Current
<1>6. OwnerInv'
    BY <1>a DEF OwnerInv, Whole, Current
<1>7. RegisteredFlowIsWatched'
    BY <1>a DEF RegisteredFlowIsWatched, Linked, Current
<1> QED BY <1>1, <1>2, <1>3, <1>4, <1>5, <1>6, <1>7

\* A removal takes files away and no watch.
LEMMA UnlinkStep ==
    ASSUME IInv, NEW id \in Flows, NEW f \in FlowFiles, Unlink(id, f)
    PROVE  IInv'
<1> USE WatcherAssumption DEF IInv, Types
<1>a. /\ files' = [files EXCEPT ![id] = @ \ {f}]
      /\ UNCHANGED <<disk, watches, inotify, nextWd, mutex, writer, stranded>>
    BY DEF Unlink
<1>b. \A i : (Linked(i)' => Linked(i)) /\ (Whole(i)' => Whole(i))
    BY <1>a DEF Linked, Whole, Current, FlowFiles
<1>1. Types'
    BY <1>a
<1>2. MutexInv'
    BY <1>a DEF MutexInv
<1>3. KernelInv'
    BY <1>a DEF KernelInv
<1>4. RecordInv'
    BY <1>a DEF RecordInv
<1>5. OpenInv'
    BY <1>a, <1>b DEF OpenInv
<1>6. OwnerInv'
    BY <1>a, <1>b DEF OwnerInv
<1>7. RegisteredFlowIsWatched'
    BY <1>a, <1>b DEF RegisteredFlowIsWatched
<1> QED BY <1>1, <1>2, <1>3, <1>4, <1>5, <1>6, <1>7

\* The kernel drops the watch of a file that is gone: nobody relies on it.
LEMMA FreeInodeStep ==
    ASSUME IInv, NEW d \in DOMAIN inotify, FreeInode(d)
    PROVE  IInv'
<1> USE WatcherAssumption DEF IInv, Types
<1>a. ~Linked(inotify[d]) /\ UNCHANGED <<disk, files, watches, nextWd, mutex, writer, stranded>>
    BY DEF FreeInode, fsVars
<1>b. DOMAIN inotify' = DOMAIN inotify \ {d} /\ \A x \in DOMAIN inotify' : inotify'[x] = inotify[x]
    <2> DEFINE gone == {d}
    <2>1. inotify' = Drop(inotify, gone)
        BY DEF FreeInode, EndWatch
    <2> HIDE DEF gone
    <2>2. DOMAIN inotify' = DOMAIN inotify \ gone /\ \A x \in DOMAIN inotify \ gone : inotify'[x] = inotify[x]
        BY <2>1, DropFacts
    <2> QED BY <2>2 DEF gone
<1>c. \A i : (Linked(i)' <=> Linked(i)) /\ (Whole(i)' <=> Whole(i))
    BY <1>a DEF Linked, Whole, Current
<1>1. Types'
    BY <1>a, <1>b
<1>2. MutexInv'
    BY <1>a DEF MutexInv
<1>3. KernelInv'
    BY <1>a, <1>b DEF KernelInv
<1>4. RecordInv'
    BY <1>a, <1>b DEF RecordInv
<1>5. OpenInv'
    BY <1>a, <1>b, <1>c DEF OpenInv
<1>6. OwnerInv'
    BY <1>a, <1>b, <1>c DEF OwnerInv
<1>7. RegisteredFlowIsWatched'
    BY <1>a, <1>b, <1>c DEF RegisteredFlowIsWatched
<1> QED BY <1>1, <1>2, <1>3, <1>4, <1>5, <1>6, <1>7

\* A new generation has no watch yet, and no record or writer is of it.
LEMMA CreateFlowStep ==
    ASSUME IInv, NEW id \in Flows, CreateFlow(id)
    PROVE  IInv'
<1> USE WatcherAssumption DEF IInv, Types
<1>a. /\ files[id] = {} /\ files' = [files EXCEPT ![id] = FlowFiles]
      /\ disk' = [disk EXCEPT ![id] = @ + 1]
      /\ UNCHANGED <<watches, inotify, nextWd, mutex, writer, stranded>>
    BY DEF CreateFlow, kernelVars
<1>b. \A i \in [id : Flows, gen : Nat] : i.gen <= disk[i.id] =>
          (Linked(i)' => Linked(i)) /\ (Whole(i)' => Whole(i)) /\ i.gen <= disk'[i.id]
    BY <1>a DEF Linked, Whole, Current, FlowFiles
<1>1. Types'
    BY <1>a
<1>2. MutexInv'
    BY <1>a DEF MutexInv
<1>3. KernelInv'
    BY <1>a, <1>b DEF KernelInv
<1>4. RecordInv'
    BY <1>a, <1>b DEF RecordInv
<1>5. OpenInv'
    <2>1. \A w \in Writers :
              [id |-> writer[w].id, gen |-> writer[w].gen] \in [id : Flows, gen : Nat]
        OBVIOUS
    <2> QED BY <1>a, <1>b, <2>1 DEF OpenInv
<1>6. OwnerInv'
    BY <1>a, <1>b DEF OwnerInv, KernelInv
<1>7. RegisteredFlowIsWatched'
    BY <1>a, <1>b DEF RegisteredFlowIsWatched, RecordInv
<1> QED BY <1>1, <1>2, <1>3, <1>4, <1>5, <1>6, <1>7

\* The first half of addFlow: the descriptor of the inode, new or shared.  There is
\* no equal record, because a writer that begins has none.
LEMMA addFlowStep ==
    ASSUME IInv, NEW w \in Writers, addFlow(w)
    PROVE  IInv'
<1> USE WatcherAssumption DEF IInv, Types
<1> DEFINE id == writer[w].id
           same == {wd \in DOMAIN inotify : inotify[wd] = Current(id)}
           watching(d) == [writer EXCEPT ![w] = [pc |-> "open", id |-> id, wd |-> d, gen |-> disk[id]]]
<1>a. /\ writer[w].pc = "add" /\ mutex = "free"
      /\ {r \in watches : r.id = id /\ r.fw = w} = {}
    BY DEF addFlow, RecordInv
<1>b. UNCHANGED <<disk, files, watches, stranded>>
    BY DEF addFlow, fsVars
<1>u. \A i : (Linked(i)' <=> Linked(i)) /\ (Whole(i)' <=> Whole(i))
    BY <1>b DEF Linked, Whole, Current
<1>c. \A r \in watches : r.fw # w
    BY <1>a DEF RecordInv
<1>1. CASE writer' = [writer EXCEPT ![w].pc = "none"] /\ UNCHANGED <<inotify, nextWd, mutex>>
    <2>1. Types' BY <1>1, <1>b DEF Types
    <2>2. MutexInv' BY <1>1, <1>a DEF MutexInv
    <2>3. KernelInv' BY <1>1, <1>b DEF KernelInv, Current
    <2>4. RecordInv' BY <1>1, <1>b, <1>c DEF RecordInv
    <2>5. OpenInv' BY <1>1, <1>b, <1>u DEF OpenInv
    <2>6. OwnerInv' BY <1>1, <1>a, <1>b, <1>u DEF OwnerInv
    <2>7. RegisteredFlowIsWatched' BY <1>1, <1>b, <1>u DEF RegisteredFlowIsWatched
    <2> QED BY <2>1, <2>2, <2>3, <2>4, <2>5, <2>6, <2>7
<1>2. ASSUME NEW d \in Nat, writer' = watching(d), mutex' = w,
             nextWd' \in Nat, nextWd <= nextWd', d < nextWd',
             \A x \in DOMAIN inotify : x \in DOMAIN inotify' /\ inotify'[x] = inotify[x],
             DOMAIN inotify' = DOMAIN inotify \cup {d},
             d \in DOMAIN inotify \/ d = nextWd, inotify'[d] = Current(id)
      PROVE  IInv'
    <2>1. Types'
        <3>1. Current(id) \in [id : Flows, gen : Nat] /\ disk[id] \in Nat
            BY DEF Current
        <3>2. \A x \in DOMAIN inotify' : x \in Nat /\ inotify'[x] \in [id : Flows, gen : Nat]
            BY <1>2, <3>1
        <3>3. writer' \in [Writers -> [pc : {"none", "add", "open", "ready"}, id : Flows,
                                      wd : Nat, gen : Nat]]
            BY <1>2, <3>1
        <3> QED BY <1>2, <1>b, <3>2, <3>3
    <2>2. MutexInv' BY <1>2, <1>a DEF MutexInv
    <2>3. KernelInv' BY <1>2, <1>b DEF KernelInv, Current
    <2>4. RecordInv'
        <3>0. \A r \in watches : r.wd # nextWd
            <4> SUFFICES ASSUME NEW r \in watches PROVE r.wd # nextWd
                OBVIOUS
            <4>1. r.wd < nextWd
                BY DEF RecordInv
            <4>2. r.wd \in Nat /\ nextWd \in Nat
                OBVIOUS
            <4> QED BY <4>1, <4>2
        <3>1. \A r \in watches : r.wd \in DOMAIN inotify' => r.wd \in DOMAIN inotify
            BY <1>2, <3>0
        <3>2. \A r \in watches :
                  r.wd \in DOMAIN inotify' => inotify'[r.wd] = [id |-> r.id, gen |-> r.watched]
            BY <1>2, <3>1 DEF RecordInv
        <3> QED BY <1>2, <1>b, <1>c, <3>2 DEF RecordInv
    <2>5. OpenInv' BY <1>2, <1>a, <1>b, <1>u DEF OpenInv, MutexInv, Current
    <2>6. OwnerInv'
        <3>1. \A x \in DOMAIN inotify : Whole(inotify[x]) =>
                  x \in stranded \/ \E r \in watches : r.wd = x
            BY <1>a DEF OwnerInv, MutexInv
        <3>2. writer'[w].pc = "open" /\ writer'[w].wd = d
            BY <1>2
        <3> QED BY <1>2, <1>b, <1>u, <3>1, <3>2 DEF OwnerInv
    <2>7. RegisteredFlowIsWatched' BY <1>2, <1>b, <1>u DEF RegisteredFlowIsWatched
    <2> QED BY <2>1, <2>2, <2>3, <2>4, <2>5, <2>6, <2>7
<1>3. CASE /\ same # {} /\ UNCHANGED <<inotify, nextWd>>
           /\ \E d \in same : writer' = watching(d) /\ mutex' = w
    <2>1. PICK d \in same : writer' = watching(d) /\ mutex' = w
        BY <1>3
    <2>2. d \in DOMAIN inotify /\ d < nextWd /\ inotify[d] = Current(id)
        BY <2>1 DEF KernelInv, Current
    <2>u. inotify' = inotify /\ nextWd' = nextWd
        BY <1>3
    <2>3. /\ d \in Nat /\ nextWd' \in Nat /\ nextWd <= nextWd' /\ d < nextWd'
          /\ \A x \in DOMAIN inotify : x \in DOMAIN inotify' /\ inotify'[x] = inotify[x]
          /\ DOMAIN inotify' = DOMAIN inotify \cup {d}
          /\ d \in DOMAIN inotify \/ d = nextWd
          /\ inotify'[d] = Current(id)
        <3>1. d \in Nat /\ nextWd' \in Nat /\ nextWd <= nextWd' /\ d < nextWd'
            BY <2>2, <2>u
        <3>2. DOMAIN inotify' = DOMAIN inotify \cup {d}
            BY <2>2, <2>u
        <3> HIDE DEF id
        <3> QED BY <2>2, <2>u, <3>1, <3>2, Zenon
    <2> HIDE DEF same, watching, id
    <2> QED BY <1>2, <2>1, <2>2, <2>3, Zenon
<1>4. CASE /\ inotify' = Add(inotify, nextWd, Current(id))
           /\ nextWd' = nextWd + 1 /\ writer' = watching(nextWd) /\ mutex' = w
    <2>1. nextWd \notin DOMAIN inotify
        BY DEF KernelInv
    <2>2. /\ DOMAIN inotify' = DOMAIN inotify \cup {nextWd} /\ inotify'[nextWd] = Current(id)
          /\ \A x \in DOMAIN inotify : inotify'[x] = inotify[x]
        <3> DEFINE v == Current(id)
        <3>1. inotify' = Add(inotify, nextWd, v)
            BY <1>4
        <3>2. /\ DOMAIN inotify' = DOMAIN inotify \cup {nextWd} /\ inotify'[nextWd] = v
              /\ \A x \in DOMAIN inotify : x # nextWd => inotify'[x] = inotify[x]
            <4> HIDE DEF v
            <4> QED BY <3>1 DEF Add
        <3> QED BY <2>1, <3>2
    <2>3. /\ nextWd \in Nat /\ nextWd' \in Nat /\ nextWd <= nextWd' /\ nextWd < nextWd'
          /\ \A x \in DOMAIN inotify : x \in DOMAIN inotify' /\ inotify'[x] = inotify[x]
          /\ nextWd \in DOMAIN inotify \/ nextWd = nextWd
        BY <1>4, <2>2
    <2> HIDE DEF watching, id
    <2> QED BY <1>2, <1>4, <2>2, <2>3, Zenon
<1>5. \/ writer' = [writer EXCEPT ![w].pc = "none"] /\ UNCHANGED <<inotify, nextWd, mutex>>
      \/ /\ same # {} /\ UNCHANGED <<inotify, nextWd>>
         /\ \E d \in same : writer' = watching(d) /\ mutex' = w
      \/ /\ inotify' = Add(inotify, nextWd, Current(id))
         /\ nextWd' = nextWd + 1 /\ writer' = watching(nextWd) /\ mutex' = w
    BY <1>a DEF addFlow
<1> QED BY <1>1, <1>3, <1>4, <1>5

\* The second half of addFlow.  When it throws, the flow is not whole any more, or
\* its watch has a record, or it is stranded.
LEMMA mapFlowDataStep ==
    ASSUME IInv, NEW w \in Writers, mapFlowData(w)
    PROVE  IInv'
<1> USE WatcherAssumption DEF IInv, Types
<1> DEFINE id == writer[w].id
           record == [wd |-> writer[w].wd, id |-> id, fw |-> w, data |-> Current(id),
                      watched |-> writer[w].gen]
<1>a. /\ writer[w].pc = "open" /\ mutex = w /\ mutex' = "free"
      /\ UNCHANGED <<disk, files, inotify, nextWd>>
    BY DEF mapFlowData, fsVars, kernelVars
<1>b. \A r \in watches : r.fw # w
    BY <1>a DEF RecordInv
<1>c. \A v \in Writers : v # w => writer[v].pc # "open"
    BY <1>a DEF MutexInv
<1>u. \A i : (Linked(i)' <=> Linked(i)) /\ (Whole(i)' <=> Whole(i))
    BY <1>a DEF Linked, Whole, Current
<1>1. CASE /\ watches' = watches \cup {record}
           /\ stranded' = stranded \ {writer[w].wd}
           /\ writer' = [writer EXCEPT ![w] = Leaves(w, "ready")]
    <2>0. record \in [wd : Nat, id : Flows, fw : Writers, data : [id : Flows, gen : Nat],
                      watched : Nat]
        BY DEF Current
    <2>1. Types' BY <1>1, <1>a, <2>0 DEF Leaves
    <2>2. MutexInv' BY <1>1, <1>a, <1>c DEF MutexInv, Leaves
    <2>3. KernelInv' BY <1>1, <1>a DEF KernelInv
    <2>4. RecordInv' BY <1>1, <1>a, <1>b DEF RecordInv, OpenInv, Current, Leaves
    <2>5. OpenInv' BY <1>1, <1>a, <1>c, <1>u DEF OpenInv, Leaves
    <2>6. OwnerInv'
        <3>1. \A d \in DOMAIN inotify : Whole(inotify[d]) =>
                  d = record.wd \/ d \in stranded \/ \E r \in watches : r.wd = d
            BY <1>c DEF OwnerInv
        <3>2. record.wd = writer[w].wd
            OBVIOUS
        <3> HIDE DEF record
        <3> QED BY <1>1, <1>a, <1>u, <3>1, <3>2 DEF OwnerInv
    <2>7. RegisteredFlowIsWatched'
        BY <1>1, <1>a, <1>u DEF RegisteredFlowIsWatched, OpenInv, KernelInv, Current
    <2> QED BY <2>1, <2>2, <2>3, <2>4, <2>5, <2>6, <2>7
<1>2. CASE /\ stranded' = IF "data" \in files[id] /\ ~\E r \in watches : r.wd = writer[w].wd
                          THEN stranded \cup {writer[w].wd} ELSE stranded
           /\ writer' = [writer EXCEPT ![w] = Leaves(w, "none")] /\ UNCHANGED watches
    <2>0. ASSUME writer[w].wd \in DOMAIN inotify, Whole(inotify[writer[w].wd])
          PROVE  "data" \in files[id]
        <3>1. inotify[writer[w].wd] = [id |-> id, gen |-> writer[w].gen]
            BY <2>0, <1>a, Zenon DEF OpenInv
        <3> QED BY <2>0, <3>1 DEF Whole, FlowFiles
    <2>1. Types' BY <1>2, <1>a DEF Leaves
    <2>2. MutexInv' BY <1>2, <1>a, <1>c DEF MutexInv, Leaves
    <2>3. KernelInv' BY <1>2, <1>a DEF KernelInv
    <2>4. RecordInv' BY <1>2, <1>a, <1>b DEF RecordInv, Leaves
    <2>5. OpenInv' BY <1>2, <1>a, <1>c, <1>u DEF OpenInv, Leaves
    <2>6. OwnerInv' BY <1>2, <1>a, <1>c, <1>u, <2>0 DEF OwnerInv
    <2>7. RegisteredFlowIsWatched' BY <1>2, <1>a, <1>u DEF RegisteredFlowIsWatched
    <2> QED BY <2>1, <2>2, <2>3, <2>4, <2>5, <2>6, <2>7
<1> QED BY <1>1, <1>2 DEF mapFlowData

\* A record goes, and its watch only when no other record has the descriptor.
LEMMA removeFlowStep ==
    ASSUME IInv, NEW w \in Writers, removeFlow(w)
    PROVE  IInv'
<1> USE WatcherAssumption DEF IInv, Types
<1>a. /\ writer[w].pc = "ready" /\ mutex = "free"
      /\ writer' = [writer EXCEPT ![w].pc = "none"]
      /\ UNCHANGED <<disk, files, nextWd, mutex, stranded>>
    BY DEF removeFlow, CanRemove, fsVars
<1>b. \A v \in Writers : writer[v].pc # "open"
    BY <1>a DEF MutexInv
<1>c. PICK r \in watches :
          /\ r.fw = w /\ watches' = watches \ {r}
          /\ IF r.wd \in DOMAIN inotify /\ ~\E x \in watches \ {r} : x.wd = r.wd
             THEN inotify' = Drop(inotify, {r.wd}) ELSE inotify' = inotify
    BY DEF removeFlow, EndWatch
<1>d. \A x \in watches' : x \in watches /\ x # r /\ x.fw # w
    BY <1>c DEF RecordInv
<1>e. /\ \A d \in DOMAIN inotify' : d \in DOMAIN inotify /\ inotify'[d] = inotify[d]
      /\ \A x \in watches' : x.wd \in DOMAIN inotify => x.wd \in DOMAIN inotify'
      /\ \A d \in DOMAIN inotify' : d = r.wd => \E x \in watches' : x.wd = d
    <2>1. CASE r.wd \in DOMAIN inotify /\ ~\E x \in watches \ {r} : x.wd = r.wd
        <3>1. /\ DOMAIN inotify' = DOMAIN inotify \ {r.wd}
              /\ \A x \in DOMAIN inotify' : inotify'[x] = inotify[x]
            <4> DEFINE gone == {r.wd}
            <4>1. inotify' = Drop(inotify, gone)
                BY <1>c, <2>1
            <4> HIDE DEF gone
            <4>2. /\ DOMAIN inotify' = DOMAIN inotify \ gone
                  /\ \A x \in DOMAIN inotify \ gone : inotify'[x] = inotify[x]
                BY <4>1, DropFacts
            <4> QED BY <4>2 DEF gone
        <3> QED BY <1>c, <2>1, <3>1
    <2>2. CASE ~(r.wd \in DOMAIN inotify /\ ~\E x \in watches \ {r} : x.wd = r.wd)
        BY <1>c, <2>2
    <2> QED BY <2>1, <2>2
<1>u. \A i : (Linked(i)' <=> Linked(i)) /\ (Whole(i)' <=> Whole(i))
    BY <1>a DEF Linked, Whole, Current
<1>1. Types'
    <2>1. /\ DOMAIN inotify' \subseteq Nat
          /\ \A d \in DOMAIN inotify' : inotify'[d] \in [id : Flows, gen : Nat]
        BY <1>e
    <2> QED BY <1>a, <1>d, <2>1
<1>2. MutexInv' BY <1>a, <1>b DEF MutexInv
<1>3. KernelInv' BY <1>a, <1>e DEF KernelInv
<1>4. RecordInv' BY <1>a, <1>d, <1>e DEF RecordInv
<1>5. OpenInv' BY <1>a, <1>b DEF OpenInv
<1>6. OwnerInv'
    <2>1. \A d \in DOMAIN inotify' : Whole(inotify[d]) =>
              d \in stranded \/ \E x \in watches' : x.wd = d
        BY <1>b, <1>c, <1>e DEF OwnerInv
    <2> QED BY <1>a, <1>d, <1>e, <1>u, <2>1 DEF OwnerInv
<1>7. RegisteredFlowIsWatched' BY <1>a, <1>d, <1>e, <1>u DEF RegisteredFlowIsWatched
<1> QED BY <1>1, <1>2, <1>3, <1>4, <1>5, <1>6, <1>7

\* All parts together are inductive.
LEMMA IInvHolds == WatcherSpec => []IInv
<1>1. WatcherInit => IInv
    <2> SUFFICES ASSUME WatcherInit PROVE IInv
        OBVIOUS
    <2>1. DOMAIN inotify = {}
        BY DEF WatcherInit
    <2>2. /\ watches = {} /\ mutex = "free" /\ disk = [id \in Flows |-> 1]
          /\ files = [id \in Flows |-> FlowFiles] /\ nextWd = 1
        BY DEF WatcherInit
    <2>3. (CHOOSE id \in Flows : TRUE) \in Flows
        BY WatcherAssumption
    <2>4. /\ writer \in [Writers -> [pc : {"none", "add", "open", "ready"}, id : Flows,
                                    wd : Nat, gen : Nat]]
          /\ \A w \in Writers : writer[w].pc = "none"
        BY <2>3 DEF WatcherInit
    <2> QED BY <2>1, <2>2, <2>4, WatcherAssumption
        DEF IInv, Types, MutexInv, KernelInv, RecordInv, OpenInv, OwnerInv,
            RegisteredFlowIsWatched
<1>2. IInv /\ [WatcherNext]_watcherVars => IInv'
    <2> SUFFICES ASSUME IInv, [WatcherNext]_watcherVars PROVE IInv'
        OBVIOUS
    <2>1. ASSUME NEW w \in Writers,
                 CreateWriter(w) \/ addFlow(w) \/ mapFlowData(w) \/ removeFlow(w)
          PROVE  IInv'
        BY <2>1, CreateWriterStep, addFlowStep, mapFlowDataStep, removeFlowStep
    <2>2. ASSUME NEW id \in Flows, CreateFlow(id) \/ \E f \in FlowFiles : Unlink(id, f)
          PROVE  IInv'
        BY <2>2, CreateFlowStep, UnlinkStep
    <2>3. ASSUME NEW d \in DOMAIN inotify, FreeInode(d)
          PROVE  IInv'
        BY <2>3, FreeInodeStep
    <2>4. ASSUME NEW i \in Inodes, Touch(i)
          PROVE  IInv'
        BY <2>4, FrameStep DEF Touch, fsVars
    <2>5. CASE checkRunning \/ processEvents \/ epollReturnsNothing \/ processEventBuffer
        BY <2>5, FrameStep DEF checkRunning, processEvents, epollReturnsNothing,
           processEventBuffer, fsVars, kernelVars
    <2>6. CASE stop \/ signalStop \/ UNCHANGED watcherVars
        BY <2>6, FrameStep DEF stop, signalStop, watcherVars, fsVars, kernelVars
    <2> QED BY <2>1, <2>2, <2>3, <2>4, <2>5, <2>6 DEF WatcherNext
<1> QED BY <1>1, <1>2, PTL DEF WatcherSpec

\* As long as its flow is there, a record that mapped the generation it watches has
\* its watch, whoever else is registered, removed or created again (removeFlow).
THEOREM FlowsStayWatched == WatcherSpec => []RegisteredFlowIsWatched
<1>1. IInv => RegisteredFlowIsWatched
    BY DEF IInv
<1> QED BY <1>1, IInvHolds, PTL

\* No descriptor stays behind: while the mutex is free, every watch of a flow that is
\* there belongs to a record, also after an addFlow that threw because the flow was
\* being removed, except exactly those that a mapping which failed for another reason
\* has stranded since their last record (addFlow, mapFlowData, removeFlow).
THEOREM WatchesAreOwned == WatcherSpec => []NoWatchIsLeaked
<1>1. IInv => NoWatchIsLeaked
    BY WatcherAssumption DEF IInv, OwnerInv, MutexInv, NoWatchIsLeaked
<1> QED BY <1>1, IInvHolds, PTL
=============================================================================
