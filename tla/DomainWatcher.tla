---------------------------- MODULE DomainWatcher ----------------------------
(* The watcher through which the discrete writers of an instance learn that a   *)
(* flow is read: readers touch the access file of the flow, inotify queues an   *)
(* event for the watch on that file, and the watcher's thread stores the time   *)
(* in the shared memory of the flow.  Writers come and go on other threads,     *)
(* flows are deleted and created again (a new inode, a new generation), and the *)
(* instance stops the thread.  Linux side of the code (epoll and inotify).      *)
EXTENDS Naturals, Sequences, FiniteSets

CONSTANTS
    Flows,        \* flow identifiers
    Writers,      \* DiscreteFlowWriter objects of the process
    MaxGen,       \* bound: generations of a flow (deletions and re-creations)
    MaxTouch,     \* bound: reads that have not been noticed yet
    MaxWd         \* bound: watch descriptors handed out before a writer is created
ASSUME WatcherAssumption ==
    /\ Flows # {} /\ Writers # {} /\ "free" \notin Writers
    /\ {MaxGen, MaxTouch, MaxWd} \subseteq Nat \ {0}

VARIABLES
    disk,      \* generation of each flow in the domain directory
    files,     \* what is left of it there: its data file and its access file
    watches,   \* DomainWatcher._watches: records with their watch descriptor
    inotify,   \* kernel: watched inode of each live watch descriptor
    nextWd,    \* kernel: descriptors are handed out in order and not reused
    queue,     \* kernel: queued events, a watch descriptor and a mask
    mutex,     \* DomainWatcher._mutex: the writer that holds it, or "free"
    writer,    \* where each writer is
    thread,    \* the watcher's thread
    buffer,    \* events read from the queue and not processed yet
    running, eventFd,
    stopper,   \* the thread that calls stop()
    unseen,    \* flow -> it was read, and its lastReadTime does not reflect it yet
    stranded   \* history: watches that addFlow left when the mapping failed

fsVars == <<disk, files>>
kernelVars == <<inotify, nextWd, queue>>
threadVars == <<thread, buffer, running, eventFd, stopper>>
watcherVars == <<fsVars, kernelVars, threadVars, watches, mutex, writer, unseen, stranded>>

Inodes == [id : Flows, gen : 1..MaxGen]
FlowFiles == {"data", "access"}
Current(id) == [id |-> id, gen |-> disk[id]]
Add(f, k, v) == [x \in DOMAIN f \cup {k} |-> IF x = k THEN v ELSE f[x]]
Drop(f, ks) == [x \in DOMAIN f \ ks |-> f[x]]

\* The access file is there under its name; and the whole flow is.
Linked(i) == i = Current(i.id) /\ "access" \in files[i.id]
Whole(i) == i = Current(i.id) /\ files[i.id] = FlowFiles

\* The constructor opens inotify, epoll and the eventfd and starts the thread.
WatcherInit ==
    /\ disk = [id \in Flows |-> 1] /\ files = [id \in Flows |-> FlowFiles]
    /\ watches = {} /\ inotify = <<>> /\ nextWd = 1 /\ queue = <<>>
    /\ mutex = "free"
    /\ writer = [w \in Writers |-> [pc |-> "none", id |-> CHOOSE id \in Flows : TRUE, wd |-> 0, gen |-> 0]]
    /\ thread = "check" /\ buffer = <<>>
    /\ running = TRUE /\ eventFd = FALSE /\ stopper = "none"
    /\ unseen = [id \in Flows |-> FALSE] /\ stranded = {}

(* --- Writers: constructor and destructor --------------------------------- *)

\* PosixDiscreteFlowWriter's constructor calls addFlow for the flow that Instance
\* has just opened, while its watcher runs.
CreateWriter(w) ==
    /\ running /\ writer[w].pc = "none" /\ nextWd <= MaxWd
    /\ \E id \in Flows : /\ Whole(Current(id))
                        /\ writer' = [writer EXCEPT ![w] = [pc |-> "add", id |-> id, wd |-> 0, gen |-> 0]]
    /\ UNCHANGED <<fsVars, watches, kernelVars, mutex, threadVars, unseen, stranded>>

\* addFlow, under the mutex: the descriptor of an equal record, else a watch on
\* the access file (the same inode gets the same descriptor); it throws without
\* the file, and when the kernel gives no watch.
addFlow(w) ==
    LET id == writer[w].id
        equal == {r \in watches : r.id = id /\ r.fw = w}
        same == {wd \in DOMAIN inotify : inotify[wd] = Current(id)}
        watching(d) == [writer EXCEPT ![w] = [pc |-> "open", id |-> id, wd |-> d, gen |-> disk[id]]]
    IN  /\ writer[w].pc = "add" /\ mutex = "free"
        /\ \/ /\ equal # {} \/ (same # {} /\ Linked(Current(id)))
              /\ LET wd == IF equal # {} THEN (CHOOSE r \in equal : TRUE).wd ELSE CHOOSE d \in same : TRUE
                 IN  writer' = watching(wd)
              /\ mutex' = w /\ UNCHANGED <<inotify, nextWd>>
           \/ /\ equal \cup same = {} /\ Linked(Current(id))
              /\ inotify' = Add(inotify, nextWd, Current(id))
              /\ nextWd' = nextWd + 1
              /\ writer' = watching(nextWd)
              /\ mutex' = w
           \/ /\ equal = {}
              /\ writer' = [writer EXCEPT ![w].pc = "none"]
              /\ UNCHANGED <<inotify, nextWd, mutex>>
        /\ UNCHANGED <<fsVars, watches, queue, threadVars, unseen, stranded>>

\* The locals of addFlow are dead when it returns.
Leaves(w, pc) == [writer[w] EXCEPT !.pc = pc, !.wd = 0, !.gen = 0]

\* Its second half maps the data file that is there now and stores the record,
\* or throws: without the data file, or because it cannot be opened or mapped.
\* Nothing undoes the watch; the next record under its descriptor takes it over.
mapFlowData(w) ==
    LET id == writer[w].id
        wd == writer[w].wd
        record == [wd |-> wd, id |-> id, fw |-> w, data |-> Current(id), watched |-> writer[w].gen]
    IN  /\ writer[w].pc = "open" /\ mutex = w
        /\ mutex' = "free"
        /\ \/ /\ "data" \in files[id]
              /\ watches' = watches \cup {record}
              /\ stranded' = stranded \ {wd}
              /\ writer' = [writer EXCEPT ![w] = Leaves(w, "ready")]
           \/ /\ stranded' = IF "data" \in files[id] /\ ~\E r \in watches : r.wd = wd
                             THEN stranded \cup {wd} ELSE stranded
              /\ writer' = [writer EXCEPT ![w] = Leaves(w, "none")] /\ UNCHANGED watches
        /\ UNCHANGED <<fsVars, kernelVars, threadVars, unseen>>

(* --- The kernel's event queue --------------------------------------------- *)

\* An event that equals the last one in the queue is merged with it.
Queued(q, wd, mask) ==
    LET e == [wd |-> wd, mask |-> mask]
    IN  IF q # <<>> /\ q[Len(q)] = e THEN q ELSE Append(q, e)

\* A watch ends with an event, behind those that are still queued for it.
EndWatch(d) ==
    /\ inotify' = Drop(inotify, {d})
    /\ queue' = Queued(queue, d, "ignored")
    /\ unseen' = [id \in Flows |-> unseen[id] /\ Current(id) # inotify[d]]

\* The destructor of the instance calls stop() before it removes its writers.
CanRemove(w) == writer[w].pc = "ready" /\ mutex = "free" /\ (stopper = "none" \/ thread = "joined")

\* Mutants of removeFlow: the watch goes with any of its records, or never.
removeFlowDropsShared(w) ==
    \E r \in watches :
        /\ CanRemove(w) /\ r.id = writer[w].id /\ r.fw = w
        /\ watches' = watches \ {r}
        /\ IF r.wd \in DOMAIN inotify THEN EndWatch(r.wd) ELSE UNCHANGED <<inotify, queue, unseen>>
        /\ writer' = [writer EXCEPT ![w].pc = "none"]
        /\ UNCHANGED <<fsVars, nextWd, mutex, threadVars, stranded>>

removeFlowKeepsWatch(w) ==
    \E r \in watches :
        /\ CanRemove(w) /\ r.id = writer[w].id /\ r.fw = w
        /\ watches' = watches \ {r}
        /\ writer' = [writer EXCEPT ![w].pc = "none"]
        /\ UNCHANGED <<fsVars, kernelVars, mutex, threadVars, unseen, stranded>>

\* removeFlow, from the destructor: the watch goes with its last record, unless
\* the kernel has dropped it already (EINVAL).
removeFlow(w) ==
    \E r \in watches :
        /\ CanRemove(w) /\ r.id = writer[w].id /\ r.fw = w
        /\ watches' = watches \ {r}
        /\ IF r.wd \in DOMAIN inotify /\ ~\E x \in watches \ {r} : x.wd = r.wd
           THEN EndWatch(r.wd) ELSE UNCHANGED <<inotify, queue, unseen>>
        /\ writer' = [writer EXCEPT ![w].pc = "none"]
        /\ UNCHANGED <<fsVars, nextWd, mutex, threadVars, stranded>>

(* --- Readers and the file system (other processes) ----------------------- *)

\* A reader touches the access file, which it may hold open after the removal of
\* the flow: the watch on the inode gets an event.
Touch(i) ==
    LET wds == {wd \in DOMAIN inotify : inotify[wd] = i}
    IN  /\ Linked(i) \/ wds # {}
        /\ Len(queue) < MaxTouch
        /\ unseen' = [unseen EXCEPT ![i.id] = IF Linked(i) THEN \E r \in watches : r.wd \in wds ELSE @]
        /\ queue' = IF wds = {} THEN queue ELSE Queued(queue, CHOOSE d \in wds : TRUE, "attrib")
        /\ UNCHANGED <<fsVars, watches, inotify, nextWd, mutex, writer, threadVars, stranded>>

\* A removal of the flow unlinks its files in any order.  The link count of the
\* access file is an attribute: its watch gets an event like that of a read.
Unlink(id, f) ==
    LET wds == {wd \in DOMAIN inotify : f = "access" /\ inotify[wd] = Current(id)}
    IN  /\ f \in files[id] /\ files' = [files EXCEPT ![id] = @ \ {f}]
        /\ queue' = IF wds = {} THEN queue ELSE Queued(queue, CHOOSE d \in wds : TRUE, "attrib")
        /\ unseen' = [unseen EXCEPT ![id] = @ /\ f # "access"]
        /\ UNCHANGED <<disk, watches, inotify, nextWd, mutex, writer, threadVars, stranded>>

\* When nobody has an unlinked file open any more the kernel drops its watch.
FreeInode(d) ==
    /\ ~Linked(inotify[d]) /\ EndWatch(d)
    /\ UNCHANGED <<fsVars, watches, nextWd, mutex, writer, threadVars, stranded>>

CreateFlow(id) ==
    /\ files[id] = {} /\ disk[id] < MaxGen
    /\ disk' = [disk EXCEPT ![id] = @ + 1] /\ files' = [files EXCEPT ![id] = FlowFiles]
    /\ UNCHANGED <<watches, kernelVars, mutex, writer, threadVars, unseen, stranded>>

(* --- The thread: processEvents ------------------------------------------- *)

\* The condition of the loop, a step of its own.
checkRunning ==
    /\ thread = "check" /\ thread' = IF running THEN "wait" ELSE "joined"
    /\ UNCHANGED <<fsVars, watches, kernelVars, mutex, writer, buffer, running, eventFd, stopper,
                   unseen, stranded>>

\* epoll_wait reports one of the ready descriptors; a read of inotify takes all
\* events that are queued.
processEvents ==
    /\ thread = "wait"
    /\ \/ /\ eventFd /\ eventFd' = FALSE
          /\ thread' = "check" /\ UNCHANGED <<queue, buffer>>
       \/ /\ queue # <<>> /\ buffer' = queue /\ queue' = <<>>
          /\ thread' = "lock" /\ UNCHANGED eventFd
    /\ UNCHANGED <<fsVars, watches, inotify, nextWd, mutex, writer, running, stopper, unseen, stranded>>

\* A signal, or 250 ms in which nothing was ready.
epollReturnsNothing ==
    /\ thread = "wait" /\ thread' = "check"
    /\ UNCHANGED <<fsVars, watches, kernelVars, mutex, writer, buffer, running, eventFd, stopper,
                   unseen, stranded>>

\* Mutant of processEventBuffer: only the first event of a read is looked at.
processFirstEvent ==
    /\ thread = "lock" /\ mutex = "free"
    /\ unseen' = [id \in Flows |-> unseen[id] /\ ~\E r \in watches : r.wd = buffer[1].wd /\ r.data = Current(id)]
    /\ buffer' = <<>> /\ thread' = "check"
    /\ UNCHANGED <<fsVars, watches, kernelVars, mutex, writer, running, eventFd, stopper, stranded>>

\* Under the mutex, the events of the buffer whose mask counts: the first record
\* of the descriptor gets the time (records of one descriptor that map the same
\* generation share the memory); none is left for an unknown one.
processEventBuffer ==
    /\ thread = "lock" /\ mutex = "free"
    /\ LET first(wd) == CHOOSE r \in watches : r.wd = wd
           read == {buffer[k].wd : k \in {n \in 1..Len(buffer) : buffer[n].mask = "attrib"}}
           known == {wd \in read : \E r \in watches : r.wd = wd}
           updated == {first(wd).data : wd \in known}
       IN  unseen' = [id \in Flows |-> unseen[id] /\ Current(id) \notin updated]
    /\ buffer' = <<>> /\ thread' = "check"
    /\ UNCHANGED <<fsVars, watches, kernelVars, mutex, writer, running, eventFd, stopper, stranded>>

\* stop, from the destructor of the instance, which no other call overlaps: the
\* flag first, then the eventfd, for a thread that has passed the condition.
stop ==
    /\ stopper = "none" /\ \A w \in Writers : writer[w].pc \in {"none", "ready"}
    /\ running' = FALSE /\ stopper' = "flagged"
    /\ UNCHANGED <<fsVars, watches, kernelVars, mutex, writer, thread, buffer, eventFd, unseen, stranded>>

\* Mutant of signalStop: the thread is joined without a signal.
signalNothing ==
    /\ stopper = "flagged" /\ stopper' = "joining"
    /\ UNCHANGED <<fsVars, watches, kernelVars, mutex, writer, thread, buffer, running, eventFd, unseen, stranded>>

signalStop ==
    /\ stopper = "flagged" /\ eventFd' = TRUE /\ stopper' = "joining"
    /\ UNCHANGED <<fsVars, watches, kernelVars, mutex, writer, thread, buffer, running, unseen, stranded>>

WatcherNext ==
    \/ \E w \in Writers : CreateWriter(w) \/ addFlow(w) \/ mapFlowData(w) \/ removeFlow(w)
    \/ \E i \in Inodes : Touch(i)
    \/ \E d \in DOMAIN inotify : FreeInode(d)
    \/ \E id \in Flows : CreateFlow(id) \/ \E f \in FlowFiles : Unlink(id, f)
    \/ checkRunning \/ processEvents \/ epollReturnsNothing \/ processEventBuffer
    \/ stop \/ signalStop

\* The threads run, a constructor that has begun goes on, and signals do not
\* keep epoll_wait from what is ready.  The timeout of epoll_wait owes nothing.
WatcherSpec ==
    /\ WatcherInit /\ [][WatcherNext]_watcherVars
    /\ WF_watcherVars(checkRunning) /\ WF_watcherVars(signalStop)
    /\ SF_watcherVars(processEvents) /\ SF_watcherVars(processEventBuffer)
    /\ \A w \in Writers : SF_watcherVars(addFlow(w)) /\ WF_watcherVars(mapFlowData(w))

(* --- Properties ---------------------------------------------------------- *)

(* A record keeps the watch on its flow for as long as the flow is there, also  *)
(* when other writers of the flow, of the same descriptor or of an earlier      *)
(* generation, are removed: the descriptor that removeFlow releases is never    *)
(* one that another record still needs.  (Unless the flow was replaced between  *)
(* the two halves of addFlow.)                                                  *)
RegisteredFlowIsWatched ==
    \A r \in watches : Linked(r.data) /\ r.watched = r.data.gen =>
        r.wd \in DOMAIN inotify /\ inotify[r.wd] = r.data

(* No watch outlives its records: outside addFlow every descriptor of a flow    *)
(* that is there belongs to a registered writer, also after an addFlow that     *)
(* threw because the flow was being removed.  The exception is the leak that    *)
(* addFlow has: a mapping that fails for another reason strands the watch it    *)
(* had added, but only until the next writer of the flow is registered, whose   *)
(* removal then ends it.                                                        *)
NoWatchIsLeaked ==
    mutex = "free" => \A d \in DOMAIN inotify :
        Whole(inotify[d]) => (d \in stranded <=> ~\E r \in watches : r.wd = d)

(* DomainWatcher.hpp: touching the access file "will trigger a FlowInfo.lastRead *)
(* update": a read of a watched flow is noticed, among events of watches that    *)
(* are gone and of masks that do not count, unless the flow is deleted, its last *)
(* writer goes or the watcher is stopped.                                        *)
ReadIsNoticed ==
    \A id \in Flows :
        unseen[id]
            ~> \/ ~unseen[id] \/ ~running
               \/ ~\E r \in watches : /\ r.data = Current(id) /\ r.wd \in DOMAIN inotify
                                     /\ inotify[r.wd] = r.data

(* stop() joins the thread: the flag is set before the eventfd is signalled, so *)
(* a thread that saw the old flag finds the eventfd ready, and it looks at the  *)
(* flag after every event, so that events that keep arriving cannot hold it.    *)
(* The timeout of epoll_wait is not needed for that.                            *)
StopReturns == stopper # "none" ~> thread = "joined"
=============================================================================
