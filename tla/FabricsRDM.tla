------------------------------ MODULE FabricsRDM ------------------------------
(* The connectionless half of the fabrics library with both transfer protocols, *)
(* driven the way mxl-fabrics-demo drives it: a source flow whose writer goes    *)
(* on, the demo's initiator (flow reader + RDMInitiator), a fabric that writes   *)
(* remote memory, and the demo's target (RDMTarget + flow writer).  The layout   *)
(* of the flow selects the protocol: grains go straight into the ring of the     *)
(* target, samples through the entries of a bounce buffer.  A slice or a sample  *)
(* of a flow is abstracted to the index it belongs to.                           *)
EXTENDS Initiator, Integers, Sequences, FiniteSets

CONSTANTS
    Ring, Slices, Batch,         \* grains: ring size, slices per grain and per batch
    LenSrc, LenDst, Count,       \* samples: channel buffer lengths, samples per batch
    Channels, IovLimit,          \* samples: channels; entries of one write (tx iov_limit)
    MaxGrain, MaxSample,         \* bounds: last index the source writes
    MaxAdds                      \* bound: runs of the initiator

ASSUME TransferAssumption ==
    /\ {Ring, Slices, Batch, LenSrc, LenDst, Count, Channels, IovLimit} \subseteq Nat \ {0}
    /\ Batch <= Slices /\ Count <= LenSrc /\ Count <= LenDst
    /\ {MaxGrain, MaxSample, MaxAdds, MaxFaults} \subseteq Nat

VARIABLES
    kind,      \* layout of the flow: "grain" or "sample"
    src,       \* source flow: head index, valid slices of the head, invalid grains
    app,       \* AppInitator: control state, index, slice range
    remote,    \* RDMInitiatorTarget: state, token, pending writes, bounce entry
    headers,   \* RMASampleEgressProtocol._entryHeaders
    net,       \* fabric: posted writes that have not been executed, in order
    tcq,       \* completion queue of the target: immediate data
    dst,       \* target flow memory
    bounce,    \* target: entries of the bounce buffer
    last,      \* what the target committed last, with the memory it covers
    disturbed  \* what happened that the protocols do not guard against

rdmVars == <<kind, src, app, remote, headers, net, cq, tcq, dst, bounce, last, progress,
          faults, disturbed>>

None == [head |-> 0, count |-> 0]

(* --- Layout and geometry ------------------------------------------------- *)

\* makeAudioBounceBuffer: the entries together hold the history of the target.
EntryCount == (LenDst + Count - 1) \div Count

\* getMutableMultiBufferSlices: the offset and the length of the first fragment
\* of a batch; the second one begins at offset 0 and may be empty.
fragmentStart(head, count, len) == (head + len - count) % len
fragmentLength(head, count, len) ==
    IF fragmentStart(head, count, len) < head % len THEN count
    ELSE len - fragmentStart(head, count, len)

\* The order of the cells of an entry, fragment by fragment and in each of them
\* channel by channel: which channel cell k is of, and which offset in its ring.
cellAt(k, head, count, len) ==
    LET first == fragmentLength(head, count, len)
        rest == k - 1 - first * Channels
    IN  IF k <= first * Channels
        THEN [chan |-> ((k - 1) \div first) + 1,
              pos |-> fragmentStart(head, count, len) + ((k - 1) % first)]
        ELSE [chan |-> (rest \div (count - first)) + 1, pos |-> rest % (count - first)]

\* makeScatterGatherList with the header in front: one element per fragment and
\* channel, an absent fragment has none; and the cells of its first n elements.
sglLength(head) == 1 + (IF fragmentLength(head, Count, LenSrc) < Count THEN 2 * Channels ELSE Channels)
cellsBefore(n, head) ==
    LET first == fragmentLength(head, Count, LenSrc)
    IN  IF n = 0 THEN 0
        ELSE IF n - 1 <= Channels THEN (n - 1) * first
        ELSE Channels * first + (n - 1 - Channels) * (Count - first)

\* Endpoint::write of a group: as many writes as the iov limit asks for, and the
\* number of cells that end before write k.
writeCount(head) == (sglLength(head) + IovLimit - 1) \div IovLimit
writeOffset(k, head) ==
    cellsBefore(IF (k - 1) * IovLimit < sglLength(head) THEN (k - 1) * IovLimit ELSE sglLength(head), head)

\* Write k of the group for a batch that ends at a head; the first one has the
\* header, the last one announces the entry.
groupWrite(k, head) ==
    [token |-> remote.token, entry |-> remote.entry, index |-> head,
     header |-> k = 1, imm |-> k = writeCount(head),
     from |-> writeOffset(k, head), to |-> writeOffset(k + 1, head)]

\* Source memory: the latest index below the head that lies at a position.
SampleAt(pos) == LET ks == {k \in 0..(src.head - 1) : k % LenSrc = pos}
                 IN  CHOOSE k \in ks : \A j \in ks : j <= k
GrainIn(slot) == LET gs == {g \in 0..src.head : g % Ring = slot}
                 IN  CHOOSE g \in gs : \A j \in gs : j <= g
ValidOf(g) == IF g = src.head THEN src.valid ELSE Slices
SliceIn(slot, j) == LET g == GrainIn(slot) IN IF j <= ValidOf(g) THEN g ELSE g - Ring

RDMInit ==
    /\ kind \in {"grain", "sample"}
    /\ src = IF kind = "grain" THEN [head |-> Ring, valid |-> 0, bad |-> {}]
                               ELSE [head |-> LenSrc, valid |-> 0, bad |-> {}]
    /\ app = [pc |-> "setup", adds |-> 0, index |-> 0, start |-> 0, end |-> Batch, got |-> 0]
    /\ remote = [st |-> "Absent", token |-> 0, pending |-> 0, entry |-> 0]
    /\ headers = [e \in 0..(EntryCount - 1) |-> None]
    /\ net = <<>> /\ cq = <<>> /\ tcq = <<>>
    /\ dst = IF kind = "grain"
             THEN [s \in 0..(Ring - 1) |-> [index |-> 0, valid |-> 0, slice |-> [j \in 1..Slices |-> 0]]]
             ELSE [c \in 1..Channels |-> [p \in 0..(LenDst - 1) |-> 0]]
    /\ bounce = [e \in 0..(EntryCount - 1) |-> [header |-> None, data |-> [k \in 1..(Count * Channels) |-> 0]]]
    /\ last = [index |-> 0, ok |-> TRUE] /\ progress = "none"
    /\ faults = 0 /\ disturbed = {}

appVars == <<app, remote, headers>>
memVars == <<net, cq, tcq, dst, bounce, last>>

(* --- The source flow goes on (the writer of DiscreteFlow, ContinuousFlow) -- *)

SourceWrites ==
    /\ \/ /\ kind = "grain" /\ src.valid < Slices
          /\ src' = [src EXCEPT !.valid = @ + 1]
       \/ /\ kind = "grain" /\ src.valid < Slices
          /\ src' = [src EXCEPT !.valid = Slices, !.bad = @ \cup {src.head}]
       \/ /\ kind = "grain" /\ src.valid = Slices /\ src.head < MaxGrain
          /\ src' = [src EXCEPT !.head = @ + 1, !.valid = 0]
       \/ /\ kind = "sample" /\ src.head < MaxSample
          /\ src' = [src EXCEPT !.head = @ + Count]
    /\ UNCHANGED <<kind, progress, faults, disturbed, appVars, memVars>>

(* --- RDMInitiator -------------------------------------------------------- *)

Posted(w) == net' = net \o w

\* RDMInitiatorTarget::hasPendingWork of the one target, none when there is none.
targetHasPendingWork(r) == r.st = "Idle" \/ (r.st = "Activated" /\ r.pending # 0)

activateTarget(r) == IF r.st = "Idle" THEN [r EXCEPT !.st = "Activated"] ELSE r

\* A completion of an unknown token is dropped, a failed one only logged.
handleCompletion(r, c) ==
    IF r.st = "Activated" /\ c.token = r.token /\ c.ok
    THEN [r EXCEPT !.pending = Dec(@)] ELSE r

addRDMTarget ==
    remote' = [st |-> "Idle", token |-> app.adds + 1, pending |-> 0, entry |-> 0]

\* The target is erased at once, with whatever is pending.
removeRDMTarget == remote' = [remote EXCEPT !.st = "Absent", !.pending = 0]

\* activateIdleEndpoints and one completion: the result MakeProgress returns.
makeRDMProgress ==
    /\ remote' = LET r == activateTarget(remote)
                 IN  IF cq = <<>> THEN r ELSE handleCompletion(r, Head(cq))
    /\ cq' = IF cq = <<>> THEN cq ELSE Tail(cq)
    /\ progress' = IF targetHasPendingWork(remote') THEN "NOT_READY" ELSE "OK"

(* --- Egress protocols ---------------------------------------------------- *)

\* RMAGrainEgressProtocol::transferGrain: one write; the header goes with slice 0.
transferRMAGrain(index, start, end) ==
    /\ Posted(<<[token |-> remote.token, slot |-> index % Ring, index |-> index,
                 from |-> start, to |-> end]>>)
    /\ remote' = [remote EXCEPT !.pending = @ + 1]

\* Mutant of transferSamples: the writes of a group are counted as one.
transferSamplesCountsOnce(head, n) ==
    /\ n = writeCount(head)
    /\ headers' = [headers EXCEPT ![remote.entry] = [head |-> head, count |-> Count]]
    /\ Posted([k \in 1..n |-> groupWrite(k, head)])
    /\ remote' = [remote EXCEPT !.pending = @ + 1, !.entry = (@ + 1) % EntryCount]
    /\ disturbed' = disturbed

\* The part of transferSamples before the count: the header of the entry is set,
\* then n writes of the group are posted, all of them unless one is refused.
postSamples(head, n) ==
    /\ n \in 0..writeCount(head)
    /\ headers' = [headers EXCEPT ![remote.entry] = [head |-> head, count |-> Count]]
    /\ Posted([k \in 1..n |-> groupWrite(k, head)])
    /\ disturbed' = IF n \in 1..(writeCount(head) - 1) THEN disturbed \cup {"partial"} ELSE disturbed

\* RMASampleEgressProtocol::transferSamples: the writes are counted, and the
\* entry left behind, only when all n of them have been posted.
transferSamples(head, n) ==
    /\ n = writeCount(head)
    /\ postSamples(head, n)
    /\ remote' = [remote EXCEPT !.pending = @ + n, !.entry = (@ + 1) % EntryCount]

(* --- AppInitator of the demo --------------------------------------------- *)

\* setup: a target is added, then progress is made until it is activated.
AppSetup ==
    /\ app.pc = "setup"
    /\ \/ /\ remote.st = "Absent" /\ app.adds < MaxAdds
          /\ addRDMTarget
          /\ app' = [app EXCEPT !.adds = @ + 1]
          /\ UNCHANGED <<cq, progress>>
       \/ /\ remote.st # "Absent"
          /\ makeRDMProgress
          /\ app' = IF progress' = "OK"
                    THEN [app EXCEPT !.pc = "read", !.index = src.head, !.start = 0, !.end = Batch]
                    ELSE app
    /\ UNCHANGED <<kind, src, headers, net, tcq, dst, bounce, last, faults, disturbed>>

\* Too late: on to the current index; the slice range stays what it was.
AppTooLate ==
    /\ app.pc = "read"
    /\ app.index + (IF kind = "grain" THEN Ring ELSE LenSrc - Count + 1) <= src.head
    /\ app' = [app EXCEPT !.index = src.head]
    /\ disturbed' = IF kind = "grain" /\ app.start # 0 THEN disturbed \cup {"jumped"} ELSE disturbed
    /\ UNCHANGED <<kind, src, remote, headers, memVars, progress, faults>>

\* The grain has the slices asked for, or the batch of samples is there.
AppRead ==
    /\ app.pc = "read" /\ app.index <= src.head
    /\ app.index + (IF kind = "grain" THEN Ring ELSE LenSrc - Count + 1) > src.head
    /\ kind = "grain" => ValidOf(app.index) >= app.end
    /\ app' = [app EXCEPT !.pc = "transfer", !.got = IF kind = "grain" THEN ValidOf(app.index) ELSE 0]
    /\ UNCHANGED <<kind, src, remote, headers, memVars, progress, faults, disturbed>>

\* An invalid grain: only its header, whatever was sent of it before, and on to
\* the next grain without waiting, without resetting the slice range and without
\* a look at the status, so that a refused post loses the header.
AppTransferInvalid ==
    /\ app.pc = "transfer" /\ kind = "grain" /\ app.index \in src.bad
    /\ \/ transferRMAGrain(app.index, 0, 0) /\ faults' = faults
       \/ faults < MaxFaults /\ faults' = faults + 1 /\ UNCHANGED <<remote, net>>
    /\ app' = [app EXCEPT !.pc = "read", !.index = @ + 1]
    /\ disturbed' = IF app.start # 0 THEN disturbed \cup {"jumped"} ELSE disturbed
    /\ progress' = "none"
    /\ UNCHANGED <<kind, src, headers, cq, tcq, dst, bounce, last>>

AppTransferGrain ==
    /\ app.pc = "transfer" /\ kind = "grain" /\ app.index \notin src.bad
    /\ transferRMAGrain(app.index, app.start, app.got)
    /\ app' = [app EXCEPT !.pc = "progress"]
    /\ progress' = "none"
    /\ UNCHANGED <<kind, src, headers, cq, tcq, dst, bounce, last, faults, disturbed>>

AppTransferSamples ==
    /\ app.pc = "transfer" /\ kind = "sample"
    /\ transferSamples(app.index, writeCount(app.index))
    /\ app' = [app EXCEPT !.pc = "progress"]
    /\ progress' = "none"
    /\ UNCHANGED <<kind, src, cq, tcq, dst, bounce, last, faults>>

\* The work queue is full (EAGAIN): the demo reads the same data again, for
\* samples after some progress; writes of a split transfer that were posted
\* before stay posted.
AppTransferNotReady ==
    /\ app.pc = "transfer" /\ faults < MaxFaults
    /\ faults' = faults + 1
    /\ app' = [app EXCEPT !.pc = "read"]
    /\ \/ /\ kind = "grain" /\ app.index \notin src.bad
          /\ progress' = "none" /\ UNCHANGED <<remote, headers, net, cq, disturbed>>
       \/ /\ kind = "sample"
          /\ \E n \in 0..(writeCount(app.index) - 1) : postSamples(app.index, n)
          /\ makeRDMProgress
    /\ UNCHANGED <<kind, src, tcq, dst, bounce, last>>

\* Mutant of Advance: the next slice range begins one too late.
AdvanceSkipsSlice ==
    CASE kind = "sample" -> [app EXCEPT !.pc = "read", !.index = @ + Count]
      [] kind = "grain" /\ app.got # Slices ->
           [app EXCEPT !.pc = "read", !.start = app.got + 1, !.end = Slices]
      [] OTHER -> [app EXCEPT !.pc = "read", !.start = 0, !.end = Batch, !.index = @ + 1]

\* The range of the next transfer, after a partial and after a whole grain.
Advance ==
    CASE kind = "sample" -> [app EXCEPT !.pc = "read", !.index = @ + Count]
      [] kind = "grain" /\ app.got # Slices ->
           [app EXCEPT !.pc = "read", !.start = app.got,
                       !.end = IF app.got + Batch < Slices THEN app.got + Batch ELSE Slices]
      [] OTHER -> [app EXCEPT !.pc = "read", !.start = 0, !.end = Batch, !.index = @ + 1]

\* Until everything is complete, or for two seconds.
AppMakeProgress ==
    /\ app.pc = "progress"
    /\ makeRDMProgress
    /\ \/ app' = Advance
       \/ progress' = "NOT_READY" /\ app' = app
    /\ UNCHANGED <<kind, src, headers, net, tcq, dst, bounce, last, faults, disturbed>>

\* The destructor: remove the target and make progress once, which has nothing
\* to wait for; then close the endpoint with the writes that are on the way.
AppExit ==
    /\ app.pc = "read" /\ remote.st # "Absent"
    /\ removeRDMTarget /\ app' = [app EXCEPT !.pc = "exit"]
    /\ cq' = IF cq = <<>> THEN cq ELSE Tail(cq)
    /\ progress' = "OK"
    /\ UNCHANGED <<kind, src, headers, net, tcq, dst, bounce, last, faults, disturbed>>

AppDestroy ==
    /\ app.pc = "exit"
    /\ app' = [app EXCEPT !.pc = "setup"]
    /\ net' = <<>> /\ cq' = <<>> /\ progress' = "none"
    /\ headers' = [e \in 0..(EntryCount - 1) |-> None]
    /\ UNCHANGED <<kind, src, remote, tcq, dst, bounce, last, faults, disturbed>>

(* --- The fabric executes a posted write ---------------------------------- *)

\* Grains: the slices the source has there now, the header with the first.
GrainWritten(w) ==
    [dst EXCEPT ![w.slot] =
        [index |-> IF w.from = 0 THEN GrainIn(w.slot) ELSE @.index,
         valid |-> IF w.from = 0 THEN ValidOf(GrainIn(w.slot)) ELSE @.valid,
         slice |-> [j \in 1..Slices |-> IF j > w.from /\ j <= w.to THEN SliceIn(w.slot, j) ELSE @.slice[j]]]]

\* Samples: the cells of the write, the header with the first.
EntryWritten(w) ==
    LET e == bounce[w.entry]
    IN  [bounce EXCEPT ![w.entry] =
            [header |-> IF w.header THEN headers[w.entry] ELSE e.header,
             data |-> [k \in 1..(Count * Channels) |->
                           IF k > w.from /\ k <= w.to
                           THEN SampleAt(cellAt(k, w.index, Count, LenSrc).pos) ELSE e.data[k]]]]

\* The source has moved on below the write; or the target has not read yet what
\* the write replaces.
SourceLapped(w) ==
    IF kind = "grain" THEN GrainIn(w.slot) # w.index
    ELSE \/ headers[w.entry].head # w.index
         \/ src.head > w.index + LenSrc - Count
TargetOverrun(w) ==
    IF kind = "grain" THEN \E k \in 1..Len(tcq) : tcq[k].slot = w.slot /\ tcq[k].index # w.index
    ELSE \E k \in 1..Len(tcq) : tcq[k].entry = w.entry

Deliver ==
    /\ net # <<>>
    /\ LET w == Head(net)
       IN  /\ net' = Tail(net)
           /\ cq' = Append(cq, [token |-> w.token, ok |-> TRUE])
           /\ IF kind = "grain"
              THEN /\ dst' = GrainWritten(w) /\ UNCHANGED bounce
                   /\ tcq' = Append(tcq, [slot |-> w.slot, end |-> w.to, index |-> w.index])
              ELSE /\ bounce' = EntryWritten(w) /\ UNCHANGED dst
                   /\ tcq' = IF w.imm THEN Append(tcq, [entry |-> w.entry, index |-> w.index]) ELSE tcq
           /\ disturbed' = disturbed \cup (IF SourceLapped(w) THEN {"lapped"} ELSE {})
                                     \cup (IF TargetOverrun(w) THEN {"overrun"} ELSE {})
    /\ UNCHANGED <<kind, src, appVars, last, progress, faults>>

FailRDMWrite ==
    /\ net # <<>> /\ faults < MaxFaults
    /\ faults' = faults + 1
    /\ net' = Tail(net)
    /\ cq' = Append(cq, [token |-> Head(net).token, ok |-> FALSE])
    /\ disturbed' = disturbed \cup {"failed"}
    /\ UNCHANGED <<kind, src, appVars, tcq, dst, bounce, last, progress>>

(* --- RDMTarget, ingress protocols and AppTarget -------------------------- *)

\* RMAGrainIngressProtocol::read: the end slice of the immediate data becomes
\* the valid count, the index is what the header in the slot says.
readGrain(imm) == [dst EXCEPT ![imm.slot].valid = imm.end]

\* AudioBounceBuffer::unpack: the cells in order, by the fragments of the target.
unpack(entry) ==
    LET cells(c, p) == {k \in 1..(entry.header.count * Channels) :
                           cellAt(k, entry.header.head, entry.header.count, LenDst) = [chan |-> c, pos |-> p]}
    IN  [c \in 1..Channels |-> [p \in 0..(LenDst - 1) |->
            IF cells(c, p) = {} THEN dst[c][p] ELSE entry.data[CHOOSE k \in cells(c, p) : TRUE]]]

\* readGrain, openGrain, commitGrain of the demo: what readers of the target
\* flow now see of the grain is the grain that was announced.
TargetReadsGrain ==
    /\ kind = "grain" /\ tcq # <<>>
    /\ LET imm == Head(tcq)
       IN  /\ dst' = readGrain(imm)
           /\ last' = LET g == dst'[imm.slot]
                      IN  [index |-> g.index,
                           ok |-> /\ g.index = imm.index
                                  /\ \A j \in 1..g.valid : g.slice[j] = g.index]
    /\ tcq' = Tail(tcq)
    /\ UNCHANGED <<kind, src, appVars, net, cq, bounce, progress, faults, disturbed>>

\* An entry whose header was never written has count 0: the length of its second
\* fragment wraps around and the copy leaves the buffer, the target is gone.
TargetReadsSamples ==
    /\ kind = "sample" /\ tcq # <<>>
    /\ LET e == bounce[Head(tcq).entry]
       IN  \/ /\ e.header.count > 0
              /\ dst' = unpack(e)
              /\ last' = [index |-> e.header.head,
                          ok |-> /\ e.header.head = Head(tcq).index
                                 /\ \A k \in 1..e.header.count, c \in 1..Channels :
                                       dst'[c][(e.header.head - k) % LenDst] = e.header.head - k]
              /\ tcq' = Tail(tcq)
           \/ /\ e.header.count = 0
              /\ last' = [index |-> 0, ok |-> FALSE] /\ tcq' = <<>> /\ UNCHANGED dst
    /\ UNCHANGED <<kind, src, appVars, net, cq, bounce, progress, faults, disturbed>>

RDMNext ==
    \/ SourceWrites
    \/ AppSetup \/ AppTooLate \/ AppRead
    \/ AppTransferInvalid \/ AppTransferGrain \/ AppTransferSamples \/ AppTransferNotReady
    \/ AppMakeProgress \/ AppExit \/ AppDestroy
    \/ Deliver \/ FailRDMWrite
    \/ TargetReadsGrain \/ TargetReadsSamples

RDMSpec == RDMInit /\ [][RDMNext]_rdmVars

(* --- Properties ---------------------------------------------------------- *)

\* Nothing happened that the protocols do not guard against: no ring was lapped,
\* no write failed or was posted in part, and the reader did not jump in the
\* middle of a grain.
Undisturbed == disturbed \cap {"jumped", "lapped", "overrun", "partial", "failed"} = {}

\* An entry is filled in the order of the source's fragments and emptied in the
\* order of the target's; these agree for rings that wrap at the same indices.
OrdersAgree == Channels = 1 \/ LenSrc = LenDst

(* The demo's target commits without touching the data ("GrainInfo and media    *)
(* payload was already written by the remote endpoint"): what it commits is the *)
(* grain or the batch that was announced and all of its valid slices or samples *)
(* of every channel, in partial batches, after retries and re-added targets, as *)
(* long as the transfer is undisturbed and an entry is emptied in the order in  *)
(* which it was filled.                                                         *)
CommittedDataWasTransferred == Undisturbed /\ (kind = "sample" => OrdersAgree) => last.ok

(* MakeProgress returns MXL_STATUS_OK only when every write of the target that  *)
(* is still added has been executed and its completion consumed, unless a group *)
(* of writes was posted in part and so left out of the count.                   *)
OkMeansExecuted ==
    progress = "OK" /\ remote.st # "Absent" /\ "partial" \notin disturbed =>
        \A k \in 1..Len(net) : net[k].token # remote.token
=============================================================================
