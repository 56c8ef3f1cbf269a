------------------------------ MODULE FabricsRC ------------------------------
(* The connection-oriented half of the fabrics library: one RCInitiator with    *)
(* its endpoints, the RCTargets they connect to, and the C functions through    *)
(* which an application drives them.  The initiator runs on one thread: a call  *)
(* of MakeProgress is a sequence of steps (activate, drain the completion       *)
(* queue, drain the event queue, evict) between which the fabric and the        *)
(* targets go on.  libfabric itself is external: it routes connection requests, *)
(* completes or fails posted writes and reports closed connections.             *)
EXTENDS Initiator, Integers, Sequences, FiniteSets

CONSTANTS
    Targets,        \* the receiving ends (TargetInfo) an application knows
    MaxEndpoints,   \* bound: addTarget calls
    GroupWrites,    \* writes that a batch of samples is split into, at most
    MaxWrites       \* bound: writes that the transfers post to an endpoint

ASSUME FabricsAssumption ==
    /\ Targets # {}
    /\ MaxEndpoints \in Nat \ {0}
    /\ GroupWrites \in Nat \ {0}
    /\ MaxWrites \in Nat
    /\ MaxFaults \in Nat

VARIABLES
    ep,        \* RCInitiator._targets by creation order; "Evicted" once erased
    eq,        \* event queue of the initiator
    pc, mode,  \* where the initiator's thread is, and in which MakeProgress call
    target,    \* RCTarget per target
    link,      \* fabric: connection of each endpoint
    wire,      \* fabric: number of posted writes of each endpoint in flight
    sent       \* writes posted so far, each counted once for all endpoints

vars == <<ep, cq, eq, pc, mode, progress, target, link, wire, sent, faults>>

EventKinds == {"connreq", "connected", "shutdown", "error"}
EpStates == {"Idle", "Connecting", "Connected", "Flushing", "Done", "Evicted"}
TargetStates == {"WaitForConnectionRequest", "WaitForConnection", "Connected"}

Ids == 1..Len(ep)
Live == {i \in Ids : ep[i].st # "Evicted"}   \* RCInitiator._targets

(* --- RCInitiatorEndpoint: one operator per method ------------------------ *)

\* A new endpoint is Idle since the epoch, so that it is activated at once.
\* History: uncounted is the number of writes of groups that were posted in part.
newEndpoint(t) == [to |-> t, st |-> "Idle", elapsed |-> TRUE, pending |-> 0, flush |-> 0,
                   uncounted |-> 0]

\* Mutant of restart: the endpoint waits for an answer it has not asked for.
restartConnecting(e) == [e EXCEPT !.st = "Connecting"]

\* The idle timer starts again; the protocol keeps its pending count.
restart(e) == [e EXCEPT !.st = "Idle", !.elapsed = FALSE]

endpointHasPendingWork(e) ==
    \/ e.st \in {"Idle", "Connecting", "Flushing"}
    \/ e.st = "Connected" /\ e.pending # 0

shutdown(e) ==
    CASE e.st \in {"Idle", "Connecting"} -> [e EXCEPT !.st = "Done"]
      [] e.st = "Connected" -> [e EXCEPT !.st = "Flushing", !.flush = e.pending, !.pending = 0]
      [] OTHER -> e

\* Mutant of terminate: a flush ends only when every write has completed.
terminateFlushed(e) == IF e.st = "Flushing" /\ e.flush = 0 THEN [e EXCEPT !.st = "Done"] ELSE e

terminate(e) == IF e.st = "Flushing" THEN [e EXCEPT !.st = "Done"] ELSE e

activate(e) == IF e.st = "Idle" /\ e.elapsed THEN [e EXCEPT !.st = "Connecting"] ELSE e

consumeEvent(e, kind) ==
    CASE e.st = "Connecting" /\ kind \in {"error", "shutdown"} -> restart(e)
      [] e.st = "Connecting" /\ kind = "connected" -> [e EXCEPT !.st = "Connected"]
      [] e.st = "Connected" /\ kind = "error" -> restart(e)
      [] e.st = "Connected" /\ kind = "shutdown" ->
           [e EXCEPT !.st = "Flushing", !.flush = e.pending, !.pending = 0]
      [] e.st = "Flushing" /\ kind = "error" -> [e EXCEPT !.st = "Done"]
      [] OTHER -> e

\* Mutant of handleCompletionData: one completion stands for all writes.
handleCompletionAll(e) ==
    CASE e.st = "Connected" -> [e EXCEPT !.pending = 0]
      [] e.st = "Flushing" -> [e EXCEPT !.flush = 0]
      [] OTHER -> e

handleCompletionData(e) ==
    CASE e.st = "Connected" -> [e EXCEPT !.pending = Dec(e.pending)]
      [] e.st = "Flushing" -> [e EXCEPT !.flush = Dec(e.flush)]
      [] OTHER -> e

\* A failed completion is logged and nothing else.
handleCompletionError(e) == e

consumeCompletion(e, ok) == IF ok THEN handleCompletionData(e) ELSE handleCompletionError(e)

(* --- The fabric below the endpoints (libfabric, external) ---------------- *)

\* Closing or shutting down an endpoint closes its connection; a peer that has
\* one gets an event: shutdown, or error when the connection was not yet up.
PeerClosed(tg, closing) ==
    [t \in Targets |->
        IF tg[t].peer \in closing /\ tg[t].st # "WaitForConnectionRequest"
        THEN [tg[t] EXCEPT !.ev = Append(@, IF link[tg[t].peer] = "up" THEN "shutdown" ELSE "error")]
        ELSE [tg[t] EXCEPT !.req = @ \ closing]]

\* Endpoint::close and Endpoint::shutdown as the fabric sees them.
CloseLinks(closing) ==
    /\ link' = [i \in Ids |-> IF i \in closing THEN "none" ELSE link[i]]
    /\ target' = PeerClosed(target, {i \in closing : link[i] # "none"})

\* An endpoint object is destroyed when a restart replaces it and when its state
\* becomes Done: it is closed and its events are gone.  Nothing is left on the way
\* of one that is replaced; what another had on the way may still complete or fail.
DestroyDropped(events) ==
    LET dropped == {i \in Ids : ep'[i].st # ep[i].st /\ ep'[i].st \in {"Idle", "Done"}}
    IN  /\ CloseLinks(dropped)
        /\ eq' = SelectSeq(events, LAMBDA x : x.id \notin dropped)
        /\ wire' = [i \in Ids |-> IF i \in dropped /\ ep'[i].st = "Idle" THEN 0 ELSE wire[i]]

(* --- RCTarget ------------------------------------------------------------ *)

\* A listener with its event queue: connection requests, in the order in which
\* the fabric happens to route them, so that any may be the first.
makeListener == [st |-> "WaitForConnectionRequest", peer |-> 0, req |-> {},
                 ev |-> <<>>, comp |-> 0]

Init ==
    /\ ep = <<>> /\ cq = <<>> /\ eq = <<>>
    /\ pc = "app" /\ mode = "NonBlocking" /\ progress = "none"
    /\ target = [t \in Targets |-> makeListener]
    /\ link = <<>> /\ wire = <<>>
    /\ sent = 0 /\ faults = 0

(* --- RCInitiator: the calls that do not make progress -------------------- *)

addTarget(t) ==
    /\ Len(ep) < MaxEndpoints
    /\ ep' = Append(ep, newEndpoint(t))
    /\ link' = Append(link, "none")
    /\ wire' = Append(wire, 0)

\* Any endpoint of the target: the map is unordered and two may have the same.
\* A connected endpoint is shut down in the fabric and kept for the flush, one
\* that is idle or connecting is destroyed at once.
removeTarget(t) ==
    \E i \in Live :
        /\ ep[i].to = t
        /\ ep' = [ep EXCEPT ![i] = shutdown(@)]
        /\ IF ep[i].st = "Connected" THEN CloseLinks({i}) /\ UNCHANGED <<eq, wire>>
                                     ELSE DestroyDropped(eq)

connected == {i \in Live : ep[i].st = "Connected"}

\* Posts to every connected endpoint, in no certain order.  When a post fails the
\* exception leaves the loop, and the endpoints before it have their write.
transferGrain(posted) ==
    /\ ep' = [i \in Ids |-> IF i \in posted THEN [ep[i] EXCEPT !.pending = @ + 1] ELSE ep[i]]
    /\ wire' = [i \in Ids |-> IF i \in posted THEN wire[i] + 1 ELSE wire[i]]

\* The same with a group of n writes for each endpoint, counted when all of them
\* are posted: the endpoint whose post fails has m of them, which nobody counts.
transferSampleGroup(posted, n, refused, m) ==
    /\ ep' = [i \in Ids |-> CASE i \in posted -> [ep[i] EXCEPT !.pending = @ + n]
                              [] i \in refused -> [ep[i] EXCEPT !.uncounted = @ + m]
                              [] OTHER -> ep[i]]
    /\ wire' = [i \in Ids |-> CASE i \in posted -> wire[i] + n
                                [] i \in refused -> wire[i] + m
                                [] OTHER -> wire[i]]

mxlFabricsInitiatorAddTarget ==
    /\ pc = "app" /\ progress' = "none"
    /\ \E t \in Targets : addTarget(t)
    /\ UNCHANGED <<cq, eq, pc, mode, target, sent, faults>>

mxlFabricsInitiatorRemoveTarget ==
    /\ pc = "app" /\ progress' = "none"
    /\ \E t \in Targets : removeTarget(t)
    /\ UNCHANGED <<cq, pc, mode, sent, faults>>

mxlFabricsInitiatorTransferGrain ==
    /\ pc = "app" /\ progress' = "none"
    /\ sent < MaxWrites /\ sent' = sent + 1
    /\ connected # {}
    /\ \E posted \in SUBSET connected : transferGrain(posted)
    /\ UNCHANGED <<cq, eq, pc, mode, target, link, faults>>

mxlFabricsInitiatorTransferSamples ==
    /\ pc = "app" /\ progress' = "none"
    /\ connected # {}
    /\ \E n \in 1..GroupWrites, posted \in SUBSET connected :
          /\ sent + n <= MaxWrites /\ sent' = sent + n
          /\ \/ posted = connected /\ transferSampleGroup(posted, n, {}, 0)
             \/ \E i \in connected \ posted, m \in 0..(n - 1) : transferSampleGroup(posted, n, {i}, m)
    /\ UNCHANGED <<cq, eq, pc, mode, target, link, faults>>

(* --- RCInitiator::makeProgress and makeProgressBlocking ------------------ *)

hasPendingWork == \E i \in Live : endpointHasPendingWork(ep[i])

activateIdleEndpoints ==
    /\ ep' = [i \in Ids |-> activate(ep[i])]
    /\ link' = [i \in Ids |-> IF activate(ep[i]) # ep[i] THEN "request" ELSE link[i]]

terminateAll == ep' = [i \in Ids |-> terminate(ep[i])]

\* The call, up to the first queue: it throws when there is no target.
makeProgress ==
    IF Live = {}
    THEN /\ pc' = "app" /\ progress' = "INTERRUPTED"
         /\ UNCHANGED <<ep, link>>
    ELSE /\ activateIdleEndpoints
         /\ pc' = "cq" /\ progress' = "none"

mxlFabricsInitiatorMakeProgress ==
    /\ pc = "app"
    /\ mode' \in {"NonBlocking", "Short", "Long"}
    /\ makeProgress
    /\ UNCHANGED <<cq, eq, target, wire, sent, faults>>

pollCQ ==
    /\ pc = "cq"
    /\ IF cq = <<>>
       THEN /\ terminateAll /\ DestroyDropped(eq)
            /\ pc' = "eq" /\ cq' = cq
       ELSE LET c == Head(cq)
            IN  /\ ep' = IF c.id \in Live THEN [ep EXCEPT ![c.id] = consumeCompletion(@, c.ok)] ELSE ep
                /\ cq' = Tail(cq) /\ UNCHANGED <<eq, pc, target, link, wire>>
    /\ UNCHANGED <<mode, progress, sent, faults>>

\* One event.
pollEQ ==
    /\ pc = "eq" /\ eq # <<>>
    /\ LET e == Head(eq)
       IN  ep' = IF e.id \in Live THEN [ep EXCEPT ![e.id] = consumeEvent(@, e.kind)] ELSE ep
    /\ DestroyDropped(Tail(eq))
    /\ UNCHANGED <<cq, pc, mode, progress, sent, faults>>

evictDeadEndpoints ==
    ep' = [i \in Ids |-> IF ep[i].st = "Done" THEN [ep[i] EXCEPT !.st = "Evicted"] ELSE ep[i]]

\* The event queue is empty: evict, then return or block on the queue.
finishProgress ==
    /\ pc = "eq" /\ eq = <<>>
    /\ evictDeadEndpoints
    /\ LET pending == hasPendingWork'
           result == IF pending THEN "NOT_READY" ELSE "OK"
       IN  \/ /\ mode = "NonBlocking" \/ (mode = "Long" /\ ~pending)
              /\ pc' = "app" /\ progress' = result
           \/ /\ mode = "Long" /\ pending          \* the deadline has passed
              /\ pc' = "app" /\ progress' = result
           \/ /\ mode = "Short" \/ (mode = "Long" /\ pending)
              /\ pc' = "block" /\ UNCHANGED progress
    /\ UNCHANGED <<cq, eq, mode, target, link, wire, sent, faults>>

\* After the wait a short call returns, a long one starts over.
returnOrLoop ==
    IF mode = "Long"
    THEN pc' = "loop" /\ UNCHANGED progress
    ELSE pc' = "app" /\ progress' = IF hasPendingWork' THEN "NOT_READY" ELSE "OK"

startOver ==
    /\ pc = "loop"
    /\ makeProgress
    /\ UNCHANGED <<cq, eq, mode, target, wire, sent, faults>>

\* A completion of an endpoint that is not in the map dereferences end().
blockOnCQ ==
    /\ pc = "block"
    /\ \/ /\ cq = <<>> /\ cq' = cq
          /\ terminateAll /\ DestroyDropped(eq)
          /\ returnOrLoop
       \/ /\ cq # <<>> /\ Head(cq).id \in Live
          /\ ep' = [ep EXCEPT ![Head(cq).id] = consumeCompletion(@, Head(cq).ok)]
          /\ returnOrLoop
          /\ cq' = Tail(cq) /\ UNCHANGED <<eq, target, link, wire>>
       \/ /\ cq # <<>> /\ Head(cq).id \notin Live
          /\ pc' = "crashed" /\ cq' = Tail(cq)
          /\ UNCHANGED <<ep, eq, target, link, wire, progress>>
    /\ UNCHANGED <<mode, sent, faults>>

\* A zero timeout makes the short call poll a second time instead of blocking.
blockOnCQZero ==
    /\ pc = "block" /\ mode = "Short"
    /\ mode' = "NonBlocking"
    /\ makeProgress
    /\ UNCHANGED <<cq, eq, target, wire, sent, faults>>

Initiator == pollCQ \/ pollEQ \/ finishProgress \/ blockOnCQ \/ startOver

(* --- RCTarget::readNext, one disjunct per state -------------------------- *)

\* Mutant of acceptRequest: the listener stays open behind the connection.
acceptKeepsListening(t) ==
    /\ target[t].st = "WaitForConnectionRequest"
    /\ \E i \in target[t].req :
          /\ target' = [target EXCEPT ![t].peer = i, ![t].req = @ \ {i}]
          /\ link' = [link EXCEPT ![i] = "accepted"]
    /\ UNCHANGED <<eq>>

acceptRequest(t) ==
    /\ target[t].st = "WaitForConnectionRequest"
    /\ \E i \in target[t].req :
          /\ target' = [target EXCEPT ![t] = [makeListener EXCEPT !.st = "WaitForConnection", !.peer = i]]
          /\ link' = [j \in Ids |-> CASE j = i -> "accepted"
                                      [] j # i /\ j \in target[t].req -> "refused"
                                      [] OTHER -> link[j]]
    /\ UNCHANGED <<eq>>

\* Any event but Connected is taken from the queue and forgotten.
awaitConnected(t) ==
    /\ target[t].st = "WaitForConnection" /\ target[t].ev # <<>>
    /\ target' = [target EXCEPT ![t].ev = Tail(@),
                                ![t].st = IF Head(target[t].ev) = "connected" THEN "Connected" ELSE @]
    /\ UNCHANGED <<link, eq>>

\* readQueues takes a completion and an event at once, readQueuesBlocking an
\* event or a completion; a shutdown drops the completion read with it.
readConnected(t) ==
    /\ target[t].st = "Connected"
    /\ target[t].ev # <<>> \/ target[t].comp > 0
    /\ LET tg == target[t]
           ev == IF tg.ev = <<>> THEN "none" ELSE Head(tg.ev)
           rest == IF tg.ev = <<>> THEN <<>> ELSE Tail(tg.ev)
       IN  IF ev = "shutdown"
           THEN target' = [target EXCEPT ![t] = makeListener]
           ELSE \E n \in {0, 1} :
                    /\ n <= tg.comp /\ (ev = "none" => n = 1)
                    /\ target' = [target EXCEPT ![t].ev = rest, ![t].comp = @ - n]
    /\ UNCHANGED <<link, eq>>

mxlFabricsTargetReadGrain(t) ==
    /\ acceptRequest(t) \/ awaitConnected(t) \/ readConnected(t)
    /\ UNCHANGED <<ep, cq, pc, mode, progress, wire, sent, faults>>

(* --- Steps of the fabric and of time ------------------------------------- *)

\* A request reaches a listening target, or is refused.
RouteRequest(i) ==
    /\ link[i] = "request"
    /\ LET t == ep[i].to
       IN  IF target[t].st = "WaitForConnectionRequest"
           THEN /\ target' = [target EXCEPT ![t].req = @ \cup {i}]
                /\ link' = [link EXCEPT ![i] = "queued"]
           ELSE /\ link' = [link EXCEPT ![i] = "refused"] /\ UNCHANGED target
    /\ UNCHANGED <<ep, cq, eq, pc, mode, progress, wire, sent, faults>>

ReportRefusal(i) ==
    /\ link[i] = "refused"
    /\ link' = [link EXCEPT ![i] = "none"]
    /\ eq' = Append(eq, [id |-> i, kind |-> "error"])
    /\ UNCHANGED <<ep, cq, pc, mode, progress, target, wire, sent, faults>>

Establish(i) ==
    /\ link[i] = "accepted"
    /\ link' = [link EXCEPT ![i] = "up"]
    /\ eq' = Append(eq, [id |-> i, kind |-> "connected"])
    /\ target' = [target EXCEPT ![ep[i].to].ev = Append(@, "connected")]
    /\ UNCHANGED <<ep, cq, pc, mode, progress, wire, sent, faults>>

\* FI_DELIVERY_COMPLETE: the write is in the target's memory, and its completion
\* there, before the initiator's completion is queued.  Only the last write of a
\* group has immediate data, the others complete at the initiator alone.
CompleteWrite(i) ==
    /\ wire[i] > 0 /\ link[i] = "up"
    /\ wire' = [wire EXCEPT ![i] = @ - 1]
    /\ cq' = Append(cq, [id |-> i, ok |-> TRUE])
    /\ \E n \in {0, 1} : target' = [target EXCEPT ![ep[i].to].comp = @ + n]
    /\ UNCHANGED <<ep, eq, pc, mode, progress, link, sent, faults>>

\* A write fails, or one that was on the way when the endpoint was shut down
\* completes or fails after all.
FailWrite(i) ==
    /\ wire[i] > 0 /\ faults < MaxFaults
    /\ faults' = faults + 1
    /\ wire' = [wire EXCEPT ![i] = @ - 1]
    /\ cq' = Append(cq, [id |-> i, ok |-> FALSE])
    /\ UNCHANGED <<ep, eq, pc, mode, progress, target, link, sent>>

FlushWrite(i) ==
    /\ wire[i] > 0 /\ link[i] = "none"
    /\ wire' = [wire EXCEPT ![i] = @ - 1]
    /\ \E ok \in BOOLEAN : cq' = Append(cq, [id |-> i, ok |-> ok])
    /\ UNCHANGED <<ep, eq, pc, mode, progress, target, link, sent, faults>>

\* The connection is lost: the initiator sees a shutdown or an error.
LoseLink(i) ==
    /\ link[i] = "up" /\ faults < MaxFaults
    /\ faults' = faults + 1
    /\ link' = [link EXCEPT ![i] = "none"]
    /\ target' = PeerClosed(target, {i})
    /\ \E kind \in {"shutdown", "error"} : eq' = Append(eq, [id |-> i, kind |-> kind])
    /\ UNCHANGED <<ep, cq, pc, mode, progress, wire, sent>>

\* Five seconds pass for an idle endpoint.
IdleTimeElapses(i) ==
    /\ ep[i].st = "Idle" /\ ~ep[i].elapsed
    /\ ep' = [ep EXCEPT ![i].elapsed = TRUE]
    /\ UNCHANGED <<cq, eq, pc, mode, progress, target, link, wire, sent, faults>>

FabricStep(i) == RouteRequest(i) \/ ReportRefusal(i) \/ Establish(i) \/ CompleteWrite(i)

Running == pc # "crashed"

Next ==
    Running /\
    \/ mxlFabricsInitiatorAddTarget
    \/ mxlFabricsInitiatorRemoveTarget
    \/ mxlFabricsInitiatorTransferGrain
    \/ mxlFabricsInitiatorTransferSamples
    \/ mxlFabricsInitiatorMakeProgress
    \/ Initiator
    \/ blockOnCQZero
    \/ \E t \in Targets : mxlFabricsTargetReadGrain(t)
    \/ \E i \in Ids : FabricStep(i) \/ FlushWrite(i) \/ FailWrite(i) \/ LoseLink(i) \/ IdleTimeElapses(i)

\* The application calls MakeProgress and reads its targets again and again, the
\* fabric delivers what is posted, and time passes.
Fairness ==
    /\ WF_vars(mxlFabricsInitiatorMakeProgress)
    /\ WF_vars(Initiator)
    /\ \A t \in Targets : WF_vars(mxlFabricsTargetReadGrain(t))
    /\ \A i \in 1..MaxEndpoints : WF_vars(i \in Ids /\ (FabricStep(i) \/ IdleTimeElapses(i)))

Spec == Init /\ [][Next]_vars /\ Fairness

(* --- Properties ---------------------------------------------------------- *)

(* fabrics.h promises that a transfer has completed once MakeProgress no longer *)
(* returns MXL_ERR_NOT_READY.  After MXL_STATUS_OK no write of an endpoint that *)
(* stayed connected is in flight or waits in the completion queue, whatever     *)
(* grains and samples were transferred, whatever writes failed and whatever     *)
(* connections were lost and restarted before, except as many as the groups that*)
(* were posted to it in part: transferSamples adds to the pending count only    *)
(* once the whole group is posted, and the completions of the others lower it   *)
(* all the same, below zero if need be.                                         *)
OkMeansDelivered ==
    progress = "OK" => \A i \in Live : ep[i].st = "Connected" /\ link[i] = "up" =>
        wire[i] + Cardinality({k \in 1..Len(cq) : cq[k].id = i}) <= ep[i].uncounted

(* The listener is destroyed when a request is accepted and made again when the *)
(* connection is shut down: two endpoints, of a target that was added twice or  *)
(* removed and added again, are never connected to the same target at once.     *)
OneInitiatorPerTarget ==
    \A i, j \in Live : link[i] = "up" /\ link[j] = "up" /\ ep[i].to = ep[j].to => i = j

(* What RCInitiatorEndpoint::shutdown or a remote shutdown started ends: the    *)
(* endpoint is evicted, also when completions of its writes failed or never     *)
(* arrive (the flush ends when the completion queue is found empty).            *)
ShutdownEndsInEviction ==
    \A i \in 1..MaxEndpoints :
        (i \in Ids /\ ep[i].st \in {"Flushing", "Done"})
            ~> (pc = "crashed" \/ (i \in Ids /\ ep[i].st = "Evicted"))

\* A target that holds a connection with another endpoint, or that waits for one
\* that has gone, does not listen.
TargetTaken(i) == LET tg == target[ep[i].to]
                  IN  tg.st # "WaitForConnectionRequest" /\ tg.peer # i

(* An endpoint that waits, connects or was refused tries again until it is      *)
(* connected or removed, unless its target is taken: refusals and lost          *)
(* connections are retried, and no retry is forgotten.                          *)
ConnectIsRetried ==
    \A i \in 1..MaxEndpoints :
        (i \in Ids /\ ep[i].st \in {"Idle", "Connecting"})
            ~> (pc = "crashed" \/ (i \in Ids /\ (ep[i].st \notin {"Idle", "Connecting"}
                                           \/ TargetTaken(i))))
=============================================================================
