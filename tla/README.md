# A TLA+ model of the Media eXchange Layer

MXL lets media functions on one host exchange video, data and audio through ring
buffers in shared memory, and copies such flows between hosts with remote memory
writes. There is no daemon: everything is a protocol between processes that map the
same files, sleep on a futex inside them and coordinate through advisory locks,
directory operations and completion queues. This directory models the library
(`lib/internal`), the fabrics library (`lib/fabrics/ofi`), the GStreamer elements
(`rust/gst-mxl-rs`) and the tools with a life of their own (`tools/mxl-gst`,
`tools/mxl-fabrics-demo`), checks the models with TLC and proves their central
properties with TLAPS.

Source paths below are relative to `src/`; a file name alone is in `lib/internal/src`.

## Inventory

| Component | State | Operations | What makes it correct |
|---|---|---|---|
| Discrete flow I/O (`PosixDiscreteFlowWriter`, `PosixDiscreteFlowReader`) | shared: `headIndex`, one header per ring entry, `syncCounter`; writer: `_currentIndex` | `openGrain`, `commit` (slice by slice), `cancel`; `getGrain`, `waitForGrain`, non-blocking `getGrain` | no reader sleeps through a commit; a returned header belongs to the requested grain; an answer holds only what the flow held during the look |
| Continuous flow I/O (`PosixContinuousFlowWriter`, `PosixContinuousFlowReader`) | shared: `headIndex`, `syncCounter`; writer: `_currentIndex`, `_lastSyncSampleBatch` | `openSamples`, `commit`, `cancel`; `getSamples`, `waitForSamples`, non-blocking `getSamples` | fragments are exactly the window; readers and the writer stay in different halves of the ring |
| Futex (`Sync.cpp`) | none of its own | `waitUntilChanged`, `wakeAll` | a wake-up is not lost, a deadline ends every wait |
| Synchronization groups (`FlowSynchronizationGroup.cpp`) | a list of readers with the largest delay seen | `addReader`, `removeReader`, `waitForDataAt` | success means that all flows have the data; the walk ends although it reorders the list |
| Flow manager (`FlowManager.cpp`) | the directory tree of the domain | create under a temporary name, publish by rename, open, delete | racing creators end up in one flow |
| Instance (`Instance.cpp`) | reference-counted readers and writers, synchronization groups | get, create, release, destroy, garbage collection | the last writer deletes the flow |
| Shared memory (`SharedMemory.cpp`) | a mapping and a lock | open, lock, convert the lock, close | a reader that is told its flow is valid maps one generation of it |
| Domain watcher (`DomainWatcher.cpp`) | a multimap of watches, an event thread | `addFlow`, `removeFlow`, event handling, `stop` | the bookkeeping agrees with the kernel's; a read is noticed; `stop` returns |
| Fabrics, connections (`RCInitiator`, `RCTarget`) | endpoints, completion and event queue, listener | add, remove, transfer, make progress; read | success means delivered, up to groups posted in part; connections are retried, shutdowns end |
| Fabrics, transfers (`RDMInitiator`, `RDMTarget`, `ProtocolEgressRMA`, `ProtocolIngressRMA`, `AudioBounceBuffer`) | pending counts, entry headers, remote memory | transfer grains and samples, make progress, read | what the target commits is what was transferred, all of it |
| GStreamer sink element (`mxlsink`) | latency, a bounded channel, an engine thread with the writer | start, caps, render, unlock, stop | the head retreats by no more than the cushion of a late piece; one writer; a stop ends and releases the flow |
| GStreamer source element (`mxlsrc`), `mxl-gst-sink` | index, origin of time, cursor, offset | create, realign, reopen | what is delivered is in order, gaps are announced, a new flow is found |
| `mxl-gst-testsrc`, `mxl-gst-looping-filesrc` | expected index, time offsets | pull, fill a gap, write | data keeps its place; a looped file plays without a hole |
| C API (`lib/src/flow.cpp`, `mxl.cpp`) | instances and handles of a process | one call per operation of the classes above, with a status | a flow keeps its name while it has a writer |
| Parsers (`FlowParser.cpp`, `FlowOptionsParser.cpp`) | none | accept or refuse a definition, compute sizes | sizes that are computed in different places fit together |
| Index and time conversion (`IndexConversion.hpp`, `lib/src/time.cpp`) | none | `timestampToIndex`, `indexToTimestamp`, time until an index | the two directions agree; who sleeps until an index finds it |
| Ancillary data (`format/data.rs`), path helpers, factory, registration and serialisation of fabrics, `mxl-info`, `mxl-data-probe` | none that is shared | conversion, construction, printing | - |

Interactions: instances call the flow manager under their mutex; readers and writers
share the mapped header and the futex word in it; a synchronization group calls the
blocking waits of its readers one after the other; readers touch an access file that
the watcher of the writer's process observes; processes meet in the file system
(rename, unlink, `flock`); an initiator writes the memory of a remote target and both
learn of it from completion queues; the elements and tools map pipeline time to indices
and hand buffers to threads that own a reader or a writer. The hard behaviours are the
unsynchronised accesses to the header, the futex protocol, calls that use a path twice,
locks that outlive the path they were opened by, crashes between directory operations,
completions that fail or come for something that is gone, times read before a blocking
call and used after it, and threads that outlive the element that started them. The
list of hazards, each at its line, is in `PROJECT.json`.

## Modules

| Module | Models | Uses |
|---|---|---|
| `DiscreteFlow` | discrete flow I/O with the futex | `GrainRead` (INSTANCE) |
| `GrainRead` | what the accessors of a discrete flow promise: the abstract specification | - |
| `DiscreteFlowProofs` | theorems about `DiscreteFlow`, and that it implements `GrainRead` | `DiscreteFlow` |
| `ContinuousFlow`, `ContinuousFlowProofs` | continuous flow I/O with the futex | - |
| `FlowSyncGroup` | synchronization groups | - |
| `FlowApi`, `FlowApiProofs` | the C API, the parsers, the geometry of new flows, index and time conversion | - |
| `FlowLifecycle`, `FlowLifecycleProofs` | flow manager, instances, locks, garbage collection, for one flow | - |
| `DomainWatcher` | the watcher, its thread and inotify | - |
| `RegistryProofs` | theorems about the groups and the watcher | `FlowSyncGroup`, `DomainWatcher` |
| `Initiator` | the state both initiators have: completion queue, result, faults | - |
| `FabricsRC` | connection-oriented initiator and target | `Initiator` |
| `FabricsRDM` | connectionless initiator and target, both transfer protocols, the demo that drives them | `Initiator` |
| `FabricsProofs` | theorems about both | `FabricsRC`, `FabricsRDM` |
| `GstMxlSink` | `mxlsink` and its engine | - |
| `FlowPlayers`, `FlowPlayersProofs` | `mxlsrc` and `mxl-gst-sink` | - |
| `FlowProducers` | `mxl-gst-testsrc`, `mxl-gst-looping-filesrc` | - |
| `GStreamerWriterProofs` | theorems about `mxlsink` and the producers | `GstMxlSink`, `FlowProducers` |
| `MC...` | instances for TLC | the module of the same name |

Where one module of theorems is about two components, one of the two has names of its
own for its specification (`RDMSpec`, `WatcherSpec`, `ProducerSpec`).

Definitions called "mutant" or "faulty variant" in a comment are not part of any
specification. Each changes one action or operator the way a plausible bug would;
putting it in the place of the original makes TLC violate the property it is listed
with in `PROJECT.json`.

### DiscreteFlow and GrainRead

A call is a sequence of steps: `wpc[w]` says where a writer is in `commit()`,
`rpc[r]` where a reader is in its accessor. Each access to shared memory is one
step, in program order, with three exceptions. The head and the words of the header
are plain stores with nothing between them, so `StoreHead` and the `StoreInfo(f)` of
each word may take place in any order; so may the copies `CopyInfo(f)` of the words for
the caller; and `syncCounter++` is `LoadSyncCounter` followed by `StoreSyncCounter`. The
slices and the flags are loaded one after the other (`ReadSlices`, `ReadFlags`). A word
is the unit of an access: `totalSlices`, which never changes, is in the word of
`validSlices`. Otherwise stores become visible in order, as on x86; a weaker memory
model is not considered. `FUTEX_WAIT` compares and sleeps in one step, as
the kernel guarantees. A deadline may pass at any check (`DeadlinePassed`,
`TimedOut`) and any signal may interrupt a sleep (`Interrupted`).

`openGrain` writes only the index of the ring entry. The slices and flags of the
grain that was there one lap earlier stay until the commit: the header that a reader
copies may mix both, and words of the grains before and after a store.

`InOrder` restricts callers to what `flow.h` asks of them: they advance one grain at
a time and a grain only gains slices. With `InOrder = FALSE` they may use any index.

`GrainRead` has no counter, futex, remembered head or validation. Its reads are regular,
not atomic: a call is granted a grain at a moment at which the grain is there; it misses
one only if its entry has been seen, during this look, with too few slices and, perhaps
at another moment, without the flag; and each word of a returned header is one that the
entry held between the grant and the return. When nobody writes meanwhile, that is what
a single look would see. A call that missed its grain may look again or give up, and may
not wait for ever once the grain is there to stay. The refinement mapping hides the
counter, folds the program counters of a reader into four phases (`PhaseOf`) and takes
the history variable `shown` for what a look has seen.

### ContinuousFlow

A window of samples is the index behind its last sample and a length. `Fragments` is
the wrap-around arithmetic that `openSamples` and `getSamplesImpl` share, with
lengths modulo `IndexModulus` (2^64 in the code). `commit` computes whether to
signal from `_currentIndex` after it was reset, as the code does. The writer is
single, so the increment is one step.

### FlowSyncGroup

The `forward_list` is a sequence and an iterator is the node it points to, which keeps
its identity when nodes are moved. `SpliceToFront` is what
`splice_after(before_begin(), list, current)` does: it moves the node *after*
`current`; without such a node the standard leaves the call undefined and libstdc++
unlinks the whole list, which is what the model does. The wait for one flow is
abstracted to its outcome: it succeeds when the data is there, and it may always
fail, since the deadline may have passed just before the data came. Writers and the
clock are external; a writer may be one tick ahead of the client's clock.

### FlowLifecycle

A *generation* is one creation of the flow directory. `path` is the generation that
the flow's name refers to; `files` what is left in each directory; `locks` the
advisory lock of each open file. A lock belongs to the open file and not to the name,
so it can be granted on a generation that has been deleted. `createFlowWriter`,
`publishFlowDirectory`, `openFlow`, `LockShared`, `OpenPayload` and `AttachWriter` are
the system calls of one `createFlowWriter` call in their order; `releaseWriter`,
`Unlock`, `LockExclusive`, `BeginRemoval`, `Unlink`, `RemoveDirectory` and
`EraseWriter` those of a release. Converting a lock first removes it (`flock(2)`);
a failed conversion leaves none. Calls of one instance exclude each other by its
mutex; `garbageCollect` and `mxlIsFlowActive` take no mutex and are actors of their
own. `remove_all` works through the directory it has opened, in any order of files.
A crash closes the files of a process and leaves all directories as they are.

### DomainWatcher

`watches` is the multimap, with the descriptor in each record; `inotify` is the kernel's
table, in which one inode has one descriptor and a descriptor dies with its file.
`addFlow` and `mapFlowData` are the two halves of `addFlow()` with the mutex held
between them: the flow may be removed or replaced in between, by another process. The
second half throws without the data file, and also when the file cannot be opened or
mapped; nothing takes the watch back, and `stranded` remembers it. The files of a flow are
unlinked one by one, in any order: the removal of the access file queues an attribute
event like that of a read, and the watch ends with an ignored event when nobody has the
file open any more. The thread checks `_running`, waits, reads all queued events at once
and handles them under the mutex, each a step; `stop` sets the flag and `signalStop`
writes the eventfd, so that the thread may be anywhere between its check and its wait
when either happens.

### FabricsRC

`ep` is `RCInitiator::_targets` in the order of creation, with the state, the pending
count and the idle time of each endpoint; one operator per method. `MakeProgress` runs
on one thread as a sequence of steps (activate idle endpoints, drain the completion
queue, drain the event queue, evict), between which the fabric and the targets go on.
The target is `readNext` with one action per state; the requests that wait at it are a
set, since the fabric may present them in any order. libfabric is external: it routes a
request to a listener or refuses it, establishes connections, executes, fails or
flushes writes and loses links. Grains are one write per connected endpoint; a batch of
samples is a group of up to `GroupWrites` writes, counted only when all of them are
posted. When a post throws, the endpoints before it have their writes, and the one at
which it throws has some that nobody counts; the history field `uncounted` adds these up.
Their completions lower the count all the same, below zero if need be: the `size_t` is
written as the integer closest to zero that it is congruent to. An endpoint that restarts
or that ends without a flush is destroyed at once, and its events are gone
(`DestroyDropped`); a connected one that is removed is shut down and kept for its flush.

### FabricsRDM

The demo's initiator reads a source flow whose writer goes on and may lap it, and
transfers batches of slices or samples; the demo's target commits what is announced.
Grains are written into the ring of the target, with the slot and slice in the
immediate data; samples go through the entries of a bounce buffer, as groups of at most
`IovLimit` regions per write. The two fragments of every channel lie in an entry in the
order of the source's ring (`fragmentStart`, `fragmentLength`, `cellAt`; `writeOffset` says
where a group begins), and the target unpacks them in the order of its own. `OrdersAgree`
says when the two are the same for every batch: one channel, or rings of one length.
`CommittedDataWasTransferred` is stated under it, since otherwise it does not hold (see
the observations). Memory is
a function from cells to the index that was written there, so that "the data was
transferred" is a statement about memory and not about messages. `disturbed` records
what the protocols do not guard against: a lapped ring, a reused bounce entry, a jump
in the middle of a grain, a group of writes posted in part.

### FlowApi

A call of the C API is one action with its checks, its effect and the status it answers;
what happens inside creation, removal, reads and writes is left to the modules above, so
clients of several processes take turns. A definition is a record of the fields that
`FlowParser` tells apart, options likewise; `parses`, `payloadIsSupported` and
`optionsParse` say what is refused, and `discreteConfig` and `continuousConfig` compute
the ring from the rate, the history of the instance and the sizes, as
`createOrOpenDiscreteFlowData` and `createOrOpenContinuousFlowData` do. `config` keeps what
is written to the header, and in `history` and `defaults` what the flow was made from, which
the code does not keep. A process may die at any time (`Die`); it also dies where the code
divides by zero. A client never uses a handle that it has released: it passes none. `Second`
is the number of ticks in a second, 10^9 in the code. Numbers are unbounded: a history so
long that its product with the rate overflows 64 bits is not modelled, nor are negative
rates.

### GstMxlSink, FlowPlayers, FlowProducers

Time is in ticks with a whole number of them per index, and `timestampToIndex` rounds as
the code does. `GstMxlSink` has the streaming thread, a bounded channel and one engine
per run of the element; an audio buffer is sent in pieces, each placed anew, and a late
one gets the cushion, which may be longer than a piece. The buffers of one stream are
taken to have one length and to follow each other without gaps or jitter.
`FlowPlayers` covers both players over one external writer that commits, stalls,
jumps, deletes and creates the flow. The lateness of a buffer is an unsigned difference
that wraps, as in `sink.cpp:103-104`. The two readers of audio that `mxlsrc` opens
(`mxl_helper.rs:230` and `:291`) are opened in one step, and a failing
re-initialisation, which the element ignores (`imp.rs:508`), is left out: it is
tried again with the next buffer. `FlowProducers` covers the four threads of two
tools, whose loops are one operator (`iterate`) with four sets of arguments. A decoded
buffer of the looping player may have any size up to `MaxBuffer`: all of it is committed,
a batch of it, the size of the first buffer, is counted; `counted` in `flow` tells the two
apart. Time stamps of the player are whole multiples of the period although its base
time is not aligned to an index (`looping_filesrc.cpp:645`).

## Runs

| Run | Result | Distinct states | Shows |
|---|---|---|---|
| `discrete` | holds | 891,344 | `NoLostWakeup`, `ReturnedGrainIsRequested`, the refinement `ImplementsGrainRead` with its liveness, types |
| `continuous` | holds | 205,194 | `FragmentsCoverWindow`, `FreshReadIsNotOverwritten`, `CallEndsByDeadline` |
| `sync_group` | holds | 123,274 | no listed flow is skipped, no entry is doubled, the walk ends |
| `sync_group_splice` | violated | - | the group forgets its flows |
| `lifecycle` | holds | 437,363 | `ReleasedFlowIsDeleted`, `ValidReaderMapsOneGeneration`, `CreatorsShareTheFlow`, types (reference counts) |
| `watcher` | holds | 374,795 | `RegisteredFlowIsWatched`, `NoWatchIsLeaked`, `ReadIsNoticed`, `StopReturns` |
| `fabrics_rc` | holds | 505,594 | `OkMeansDelivered`, `OneInitiatorPerTarget`, `ShutdownEndsInEviction`, `ConnectIsRetried` |
| `fabrics_rdm` | holds | 2,992,959 | `CommittedDataWasTransferred`, `OkMeansExecuted` |
| `producers` | holds | 641,329 | `DataKeepsItsPlace`, `LoopIsUnbroken`, `CommittedIsKept` |
| `players` | holds | 1,239,465 | `PushedIndexGrows`, `CreatedInOrder`, `OffsetOnlyGrows`, `SkippedAudioIsMarked`, `PlayerReconnects` |
| `rust_sink` | holds | 636,001 | `OneWriterPerFlow`, `HeadRetreatIsBounded`, `PlacedNearNow`, `StopReturns`, `StoppedFlowIsRemoved` |
| `api` | holds | 80,294 | `WriterKeepsItsFlow`, `GeometryFits`, `IndexAndTimeAgree` |

The violated property quotes the header and a comment of the code; the quotation and
the line are under `findings` in `PROJECT.json`.

### Bounds, and why they are enough

- `discrete`: a ring of one entry, in which the next index is already a lap: the entry is
  reused while it is read and the oldest grain leaves the window; two slices make a
  grain that is first partial and then complete, and two commits are enough for a header
  of one to be mixed with one of the other. Longer rings are covered by the theorems. One
  reader is enough because readers do not influence each other. `SyncModulus` exceeds `MaxCommits`, so the counter does not wrap: in the
  code that takes 2^32 commits during one check.
- `continuous`: a ring of five samples, an odd length, whose half is rounded down,
  with windows of one and two samples, and indices up to 8, beyond one lap. Calls for
  more than half the ring are refused without effect and left out.
- `sync_group`: three flows of two rates, so that the list has a first, a middle and
  a last node; two ticks are enough for a flow to be one period late.
- `lifecycle`: two instances, one collector, two generations, two references, one
  crash. Two generations cover a flow that is deleted and created anew, and two
  creators that race. The instances are interchangeable, and symmetry is used for
  this run, which checks invariants only.
- `watcher`: one flow in two generations and two writers, the least that share a watch
  and that hold records of different generations; flows do not influence each other. Two
  events in the queue and two descriptors before the last writer is created: events of a
  watch that is gone share a read with those of one that is not.
- `fabrics_rc`: two endpoints of one target (added twice, or again after a removal), two
  writes, of two grains or of a group of samples that may be posted in part, so that a
  completion of an earlier one can be taken for one of a later one, and one fault of any
  kind.
- `fabrics_rdm`: a ring of two grains of two slices sent one by one, sample rings of
  five with batches of two, so that batches wrap at every phase, two channels in groups
  of three regions, so that a transfer takes several writes; two runs of the initiator
  and one failure. Both rings have one length, as `OrdersAgree` asks of two channels.
- `producers`: three ticks per index, so that a time stamp can be early, exact and late
  without leaving its index; a file of three frames is looped three times; slices in
  batches that do not divide the frame; decoded buffers of one to five samples where the
  first had three.
- `players`: a ring of two grains and one of eight samples, a timeout longer than a
  grain, one deletion and re-creation early enough for the player to come back. Time begins
  at `StartTime`, behind the ring, the read delay and two windows (`PlayerAssumption`):
  the present is an index of TAI, which is far from zero, so that no index that a player
  asks for is before the beginning of time.
- `rust_sink`: a grain of three ticks, a cushion of two, audio buffers that take two
  unequal pieces of three samples and one, the second shorter than the cushion, so that
  the head does retreat, a channel of one command, so that it is full, and two runs.
- `api`: two instances, two generations and two references, as in `lifecycle`. The
  definitions are interlaced video with an alpha plane and a width that does not fill its
  last block, data, audio at a rate that is not whole, and one definition or set of options
  for every reason to refuse one. A second has 200 ticks and a page 64 bytes, so that every
  division rounds. The instances are interchangeable (symmetry). The view leaves out the
  answer of the last call, which nothing reads, and the contents of generations that have
  lost their name: no writer has them (`WriterKeepsItsFlow`), and they only decide what
  remaining readers are answered.

`CHECK_DEADLOCK FALSE` is set where the run ends by itself at a bound or the system may
stop: a stopped watcher or element, a tool that exits, a fabric on which nothing is posted any more.

### Fairness

- A thread inside a library call keeps running: weak fairness of the steps of
  `commit()` and of readers. Callers owe nothing: no fairness of `Begin`,
  `openGrain`, `waitForDataAt` and the like. `discrete` gives deadlines no fairness:
  they may be infinitely far away, so only signals end a wait.
- `continuous` assumes that every deadline passes. Once passed it stays passed, so a
  reader that comes back to the check again and again finds it: strong fairness of
  `DeadlinePassed`, because interrupted sleeps disable it in between.
- `sync_group`: the client's thread runs; the wait for one flow ends by success or by
  its deadline.
- `watcher`: its thread runs, and whoever waits for the mutex again and again gets it
  (strong fairness of `processEventBuffer` and `addFlow`), which holds of the
  `std::mutex` of Linux in practice, since critical sections are short and rare. The
  timeout of `epoll_wait` has no fairness: what holds does so without it. Signals may end
  the wait again and again, and what is ready is reported in the end (strong fairness of
  `processEvents`).
- `fabrics_rc`: the application calls MakeProgress and reads its targets again and again,
  as `fabrics.h` asks, the fabric delivers or fails what is posted, and time passes.
  Faults have none.
- `players`: the player's thread runs and time passes. `rust_sink`: the streaming thread
  leaves `render()` when the channel has room, `stop()` is called by GStreamer once it
  can be, the engine runs; time may stand still, so a stop does not wait for the time
  of what is queued.

## Proofs

All theorems hold for every value of the constants under the `ASSUME` of the component's
module, which TLC evaluates in its run. The inductive invariants were also checked by
TLC before they were proved.

`DiscreteFlowProofs`, for any sets of readers, any numbers of grains and slices, any
bound on indices and commits and for callers with and without order:

- `TypeCorrect`: `Spec => []TypeOK`, for any set of writers;
- `WakeupsAreNotLost`: `SingleWriter => (Spec => []NoLostWakeup)`. `SingleWriter` is
  needed (see the observations), and `FlowState.hpp` calls the counter a word "between a
  writer and multiple readers".

`NoLostWakeup` is not inductive. What carries it is the notion of a *current* counter
value: a reader's remembered value that equals `syncCounter` while no commit is between
its first store and its increment. `WakeupInv` says that (1) the counter lags behind the
number of commits, so it never repeats a value (`CounterBehindCommits`,
`SeenCounterIsPast`); (2) nobody else writes the counter between load and store
(`IncrementIsAtomic`); (3) a reader that has passed the window check with a current
value still has the right head (`HeadIsFresh`): this is what loading the counter before
the head buys; (4) a reader waits with a current value only if its grain is missing
(`WaitIsJustified`); (5) a sleeper with an obsolete value is about to be woken
(`SleeperIsWoken`). Each store of a commit makes all remembered values non-current, the
increment makes them differ from the counter, and `wakeAll` sends the sleepers back to
compare.

`ReadsAreRegular`, also in `DiscreteFlowProofs`, is `SingleWriter /\ InOrder => (Spec =>
Abstract!SafeSpec)`, the safety part of the refinement that the run `discrete` checks with
its liveness. The invariants are `OrderInv`: an open index is never behind the head, so the
head only grows, and a reader's remembered head is never ahead of it; and `ShownInv`: what
the entry holds now is among what the look has been shown, and so is every word that has
been copied (`Copied`) and, between the two loads of the slice check, a slice count that is
too low (`Lacking`). A reader that found its index in the window of the old head and then
finds the entry complete has therefore found a grain that is there under the present head;
one that misses it has been shown it without slices and without the flag. Each step of a
writer maps to `Write`, each step of a reader to the step of the phase it leaves, or to a
stuttering step.

The same module proves `ReturnedGrainsAreRequested`, `SingleWriter /\ InOrder => (Spec =>
[]ReturnedGrainIsRequested)`. `GrainInv`: a ring entry with slices holds a grain less than a
lap behind the head (`EntryInv`), because the head advances by one and the grain that becomes
the head has been opened, which put its index into the entry (`OpenInv`; the first commit may
jump, but then nothing else has been written). A reader whose index lies in the window of the
head it saw therefore finds its own grain or a later one, two grains of one entry being a lap
apart (`SameEntry`), and from then on the entry is only given to later grains
(`HoldsOwnOrLater`). `minValidSlices = 0` is excluded by the property: it accepts entries
that were never written.

`ContinuousFlowProofs`, for rings of every length, any set of readers and any windows:

- `FragmentsAlwaysCover`: `Spec => []FragmentsCoverWindow`;
- `FreshReadsAreSafe`: `(InOrder /\ 0 \notin WriteCounts) => (Spec =>
  []FreshReadIsNotOverwritten)`. The hypotheses say that the writer appends and that its
  windows are not empty; for empty ones `Fragments` computes two fragments that are not
  (see the observations).

`FragmentsAreTheWindow` shows that the two fragments, computed with wrap-around, are the
positions of the window, each once; samples less than a ring apart lie at different
positions (`PositionsDiffer`), and what is granted and what is open are together not longer
than the ring. `RingInv` carries this through the steps: a granted window lies within half
a ring of a head that the reader saw, an open one begins at the head (`OpenAtHead`).

`RegistryProofs` on synchronization groups, for any set of flows with any rates and delays:

- `ListAlwaysHoldsMembersOnce`: `Spec => []ListHoldsMembersOnce`;
- `ListedFlowsAlwaysArrive`: `Spec => []ListedFlowsHaveArrived`.

`GroupInv` says that entries are distinct and members, and (`Walk`) that every entry before
the iterator has arrived, except the one that is being waited for, which lies directly before
the iterator. A splice moves the entry behind the current one to the front (or empties the
list), so an entry that has not been visited may come to lie before the iterator: the
iterator itself was that entry and keeps pointing to it, so that the walk resumes from the
front. Sequences are reasoned about by what `RemoveFirst`, `Append` and
the splice do at every position (`RemoveFirstIs`, `SpliceIs`).

`FlowLifecycleProofs`, for any numbers of instances, collectors, generations, references
and crashes:

- `CreatorsShare`: `Spec => []CreatorsShareTheFlow`. `SharedInv`: until something is
  removed, every call under way and every writer refers to the one generation that was
  published, since `RENAME_NOREPLACE` publishes once.
- `ValidReadersAreConsistent`: `Spec => []ValidReaderMapsOneGeneration`.
  `GenerationInv`: every unpublished generation is the temporary directory of exactly
  one call (`TempInv`), what a call or a reader knows was published or is not about to
  be (`KnownInv`), and so a name that has moved on never comes back: a reader whose two
  files differ has lost the name for good (`PayloadInv`), which is why comparing one
  inode is enough.
- `LifecycleTypes`: `Spec => []TypeOK`. A call that will add a reference was admitted
  while there was room for one (`RoomForReference`), and nothing else adds any in between,
  because calls of an instance exclude each other.
- `ReleasedFlowsAreDeleted`: `Spec => []ReleasedFlowIsDeleted`. `LockInv` describes, while
  nothing has failed, crashed or probed, which lock each open file holds at each step of a
  call, and that an exclusive lock is alone on its generation (`Exclusive`); no lock is held
  on a generation that is yet to be created (`LockedIsCreated`). `DeletionInv`: while the
  flow has its name, some instance will still remove it (`WillDelete`): it has a writer or
  is about to get one, is removing, or is about to try for an exclusive lock that nobody
  has. The crucial steps are the two of a conversion: when the shared lock is dropped,
  nobody can hold the exclusive one; when the exclusive lock is refused, the file that is
  in the way belongs to an instance that will delete the flow (`RefusedByAnother`).

`RegistryProofs` on the watcher, for any sets of flows and writers and any number of generations and
descriptors:

- `FlowsStayWatched`: `Spec => []RegisteredFlowIsWatched`;
- `WatchesAreOwned`: `Spec => []NoWatchIsLeaked`.

The invariant relates three tables: descriptors are handed out in order and for inodes
that have been created (`KernelInv`), a writer has one record and its descriptor is of its
flow (`RecordInv`), the writer that holds the mutex knows a descriptor that is live while
the access file it was made for is there (`MutexInv`, `OpenInv`), and every descriptor of a
flow that is there has a record, is stranded, or is that writer's, while no stranded one has
a record (`OwnerInv`): the next record of the flow gets the same descriptor and ends the
leak. That a descriptor released by `removeFlow` is not needed by another record
follows because descriptors are not reused and an inode has only one.

`FabricsProofs` on connections, for any numbers of targets, endpoints, transfers and faults:

- `TransfersAreDelivered`: `Spec => []OkMeansDelivered`;
- `TargetsServeOneInitiator`: `Spec => []OneInitiatorPerTarget`.

`RCInv` says that writes in the fabric and completions in the queue are together no more
than the pending count of an endpoint that counts, and the writes of groups that were posted
to it in part (`PendingCoversWrites`): without the latter the count, which the code never
checks, would not go below zero nor reach it early. The completions of a connection that was
shut down are for an endpoint that no longer counts; each post adds to the fabric what it
adds to one of the two counts, each completion leaves the fabric and the count together. OK
survives only while nothing is pending (`OkMeansIdle`), although the queue is drained
in one step and the endpoints are looked at in a later one. A target that is connected
knows its peer and has no shutdown waiting (`ConnectionsAreKnown`), so it does not
return to listening while the connection is up.

`FabricsProofs` on transfers, for any rings, slices, batches, channels, limits of regions
and any number of targets and faults:

- `WritesAreExecuted`: `RDMSpec => []OkMeansExecuted`. Every target has a token, and the
  writes and completions that bear it are counted (`WritesAreCounted`): those of a target that
  was removed do not lower the count of the next one.
- `CommittedIsTransferred`: `RDMSpec => []CommittedDataWasTransferred`, for grains and for
  samples.

For grains, `GrainInv` follows a range of slices: what is posted continues what was posted
before (`WritesContinue`) and the range that the initiator will send next continues that
(`RangeContinues`, `SentUpTo`), so that the memory of the target has, for every announced
slice, it and all the ones before it (`AnnouncedIsThere`). For samples, `SampleInv` says
that the groups of a transfer cover its batch one after the other (`GroupsContinue`), that
the source still has the batch while they are executed (`BatchesAreThere`) and that a
complete entry has its header and all of its cells (`EntriesAreThere`). What carries it is
arithmetic: the fragments of a window are its samples in order (`FragmentsAreTheBatch`), the
cells of an entry and the samples of all channels correspond one to one (`CellsAreSamples`,
`SamplesHaveCells`), and the order of cells is the same in both rings (`SameOrder`), which
is where `OrdersAgree` is needed.

`FlowPlayersProofs`, for rings, windows, batches, delays and timeouts of every size,
whatever the writer, the flow and the clock do:

- `WindowsArePushedInOrder`: `Spec => PushedIndexGrows`, for `mxl-gst-sink`;
- `BuffersAreCreatedInOrder`: `Spec => CreatedInOrder`, and `SkippedAudioIsAnnounced`:
  `Spec => SkippedAudioIsMarked`, for `mxlsrc`;
- `PtsOffsetOnlyGrows`: `Spec => OffsetOnlyGrows`.

The order of windows is at risk when `mxl-gst-sink` realigns its cursor to the present after a
read that was too early or too late. `CursorFollowsTime` says that the cursor is never
ahead of the window that is nearest to the time the iteration began at, or to the present
while it sleeps: a realignment thus only moves it forward, beyond what was pushed.
`DeliveredIsBefore` says that whatever `mxlsrc` delivers next lies behind what it delivered,
also across its jumps to the head, and that a batch that does not follow directly is
marked.

`GStreamerWriterProofs` on `mxlsink`: `OneEngineWrites`, `Spec => []OneWriterPerFlow`, for any number of
restarts, channel depths, periods and clocks: a flow that somebody holds exists
(`HeldFlowExists`), and caps are accepted only if the flow did not exist.
`HeadRetreatsByTheCushion`, `Spec => []HeadRetreatIsBounded`, and `PiecesArePlacedNearNow`,
`Spec => PlacedNearNow`, for any periods, cushions, delays, channel depths and lengths of
audio buffers and pieces. Order itself does not hold: a late piece alone gets the cushion of
5 ms on top, and a shorter piece that follows is placed before its end. `Overlap` is the
number of indices by which the cushion exceeds the shortest piece; the theorem says that the
head is never behind the highest index committed by more than that, so that retreats do not
add up over any number of late pieces, and that it never retreats when no piece is shorter
than the cushion. `SinkInv` follows a command on its way: whatever is in front of another, in
the hands of the engine, in the channel or in `render()`'s, exceeds it by at most `Overlap`
(`Follows`, `EngineOrder`), and so does it the index to which the time that is placed next
rounds with the latency so far (`StreamOrder`). The relation is not transitive, so the
invariant states it for every pair, not only for neighbours. Only the engine of the stream
moves the head, which is where `OneWriterPerFlow` is needed again; that it is alive while
`render()` sends is `ThreadsInv`; that pieces of an audio buffer add up to the buffer, so that
none is shorter than `Shortest`, is `PieceInv`.

`GStreamerWriterProofs` on the producers, for any period, jitter and batch, decoded buffers of
any size, and for files of two frames or more:

- `ProducedDataKeepsItsPlace`: `ProducerSpec => []DataKeepsItsPlace`;
- `ProducedLoopIsUnbroken`: `ProducerSpec => []LoopIsUnbroken`;
- `ProducedDataIsKept`: `ProducerSpec => CommittedIsKept`.

`ProducerInv` relates time stamps to positions: the offset that a thread adds on a wrap is
the length of the loops that it has finished, and with it a time stamp is off the time of
its position by the jitter at most, which rounding forgives (`LiveStamps`, `FileStamps`). The index that is found is
therefore the index of the origin of time plus that position, however the stamps jitter. The
flow is behind the index that is found, and what was counted of it behind the one that is
expected (`FlowIsBehind`), so nothing is opened again except what a decoded buffer had
beyond a batch, and that only to fill a gap that was none with silence; what was committed is in its place
(`DataIsInPlace`), and a player of a file that has lost nothing has left no index out
(`NothingIsMissing`). A file of one frame is excluded because the code cannot tell its only
stamp, zero, from none (see the observations).

`FlowApiProofs`, for any instances, requests, histories, page and grain sizes:

- `WritersKeepTheirFlows`: `Spec => []WriterKeepsItsFlow`, for whole calls. Where calls
  overlap, garbage collection may take the flow of a writer (`Instance.cpp:335` below).
- `EveryGeometryFits`: `Spec => []GeometryFits`;
- `IndexAndTimeAlwaysAgree`: `Spec => []IndexAndTimeAgree`.

`ApiInv` says that every generation was configured from an accepted definition
(`Configured`) and that every handle refers to a generation and has the word size that was
found when it was mapped (`Attached`). The rest is arithmetic of quotients, in lemmas of
their own: rounding down loses less than a period, rounding up to a page loses nothing, 10ms
of samples are at most half of a ring of twice the history, and the time of an index,
rounded to a tick, is less than half a period away from it when a period is longer than a
tick.

Every safety invariant and every action property that a run checks is a theorem. Only
model-checked are the liveness properties `CallEndsByDeadline`, `WaitReturns`,
`ReadIsNoticed`, `ShutdownEndsInEviction`, `ConnectIsRetried`, `PlayerReconnects`,
`StopReturns` (of the watcher and of `mxlsink`) and `StoppedFlowIsRemoved`, and the liveness
part of `ImplementsGrainRead`: they depend on fairness, thus on ENABLED, which is out of
reach of the proof system.

## Observations without a run

Met while modelling. The first group are disagreements between the code and its
documents that the modules reproduce when a property is stated for them:

- `PosixDiscreteFlowWriter.cpp:146`: `flow->state.syncCounter++` is a load and a store.
  Two writers that overlap both store the same value; a later increment brings the
  counter back to a value a reader has already seen, and it sleeps although its grain
  is committed. `lib/include/mxl/flow.h:397`: "This will in turn signal all readers
  waiting on the ringbuffer that a new grain is available".
- `PosixDiscreteFlowWriter.cpp:133`: the head moves before the header is stored, and
  `openGrain()` leaves the slices of the previous lap in place: in between a reader is
  given the grain as complete. `flow.h:283`: "This method is expected to wait until the
  full grain is available".
- `PosixContinuousFlowWriter.cpp:114`: `_currentIndex` is reset before
  `signalCompletedBatch()` divides it; after the first commits no commit signals any
  more, and readers return at their deadlines only. `flowinfo.h:72-73`: the size "at
  which availability of new data is signaled to waiting consumers".
- `FlowSynchronizationGroup.cpp:85`: `minValidSlices` is not compared for a partial grain
  at the head. `docs/Architecture.md:237-238`: "consume partial grains, for which a
  specified number of slices has to be available at the time of synchronization".
- `Instance.cpp:335`: `garbageCollect` closes the file, and with it the lock, before
  `remove_all`: a writer that attaches in between has its flow removed.
- `Instance.cpp:321`: a flow directory without a data file, as a crash inside
  `remove_all` leaves it, is skipped by every garbage collection, and `createFlowWriter`
  can neither replace nor open it. `docs/Architecture.md:28`: garbage collection is there
  "for example, when a crashed media function failed to release the flow properly".
- `lib/fabrics/ofi/src/internal/RCInitiator.cpp:439`: `blockOnCQ` warns "Received completion
  for an unknown endpoint" and then dereferences the iterator all the same (`FabricsRC`
  goes to "crashed"; `pollCQ` continues with the next completion).
- `RDMInitiator.cpp:201`: `removeTarget` erases a target with writes in flight; they are
  still executed in its memory and their completions dropped.
- `lib/fabrics/ofi/src/internal/AudioBounceBuffer.cpp:109`: the target takes the samples of an
  entry apart by the fragments of the window in its own ring, while `ProtocolEgressRMA.cpp:192`
  put them together by the fragments in the ring of the source, whose length the header of
  the entry does not hold. With several channels and rings of different lengths, a batch that
  wraps in only one of them ends up at other positions and in other channels.
  `AudioBounceBuffer.hpp:84`: "Internally the header will be used to correctly map the bounce
  buffer entry slices to the output region slices." With `LenDst = 6` in `MCFabricsRDM.cfg`
  and `Undisturbed => last.ok` as the invariant TLC finds it in eight states: samples 5 and 6
  of two channels lie in the entry as 5, 6, 5, 6 and are unpacked as 5, 5 and 6, 6.
- `tools/mxl-gst/testsrc.cpp:645`: the frame that reveals a gap is not written when filling
  the gap fails; its index stays without data.
- `tools/mxl-data-probe/main.cpp:246`: user data words begin at bit 62 of an RFC 8331
  packet, but the unpacker starts at the next 16-bit word, bit 64, so that the words it
  prints are shifted by two bits, and for some lengths the next packet is missed.
  `docs/Tools.md:112` says that it "prints the RFC-8331 ANC elements found in each grain".

Others:

- `Instance.cpp:239` and `:266`: a rate with denominator 0 passes the parser and is divided
  by, which ends the process (`Divides`). A history shorter than the period of a grain gives
  a ring of no grains, which is created and published; `openGrain` and `getGrainInfo` then
  divide by its length (`mxlFlowWriterOpenGrain`).
- `FlowOptionsParser.cpp:65`: the sync hint is checked against a commit hint only if both are
  given, while the defaults that are used otherwise need not divide it; neither is compared
  with half of the ring, the most that can be opened at a time.
- `FlowParser.cpp`: the comparison of an interlaced rate with 30000/1001 by products also
  accepts 0/0.
- `PosixContinuousFlowWriter`: `commit()` without an open window stores
  `MXL_UNDEFINED_INDEX` as the head; `FlowApi` assumes clients that do not.
- `commit()` of a discrete writer stores an older index as the new head just the same
  (`StoreHead` with `InOrder = FALSE`).
- `getSamples` for zero samples computes a first fragment up to the end of the ring and
  a second one of negative, wrapped length (`Fragments`, count 0).
- `createOrOpenContinuousFlow` leaves its temporary directory behind when the flow
  exists already; `createOrOpenDiscreteFlow` removes it (`AttachWriter`).
- An instance that still has a writer of a deleted generation returns that writer from
  `createFlowWriter`, even if the call has just created the flow anew (`AttachWriter`).
- `DomainWatcher.cpp:234`: when the mapping fails for another reason than the removal of
  the flow, the watch that was just added stays without a record (`stranded`), until the
  next writer of the flow takes it over or the flow is removed.
- `lib/fabrics/ofi/src/internal/ProtocolEgressRMA.cpp:167`: a group of writes is counted when
  all of them are posted. After a post that throws, the writes before it are in flight on a
  connected endpoint without being counted, and MakeProgress may report OK
  (`OkMeansDelivered` allows for exactly these).
- `lib/fabrics/ofi/src/internal/RCTarget.cpp:186`: a target that waits for a connection
  leaves that state with a connected event only; when the initiator has gone it listens
  no more (`TargetTaken`).
- `lib/fabrics/ofi/src/internal/ProtocolEgressRMA.cpp:159` and `ProtocolIngressRMA.cpp:73`: an
  entry of the bounce buffer, or a ring slot whose index is read when its completion is
  handled, is used again by later transfers whether or not the target has read it
  (excluded as "overrun").
- `rust/gst-mxl-rs/src/mxlsink/render_audio.rs:105`: `LATENCY_CUSHION` is added to one late
  piece only. When pieces are shorter than its 5 ms, as with packets of 1 ms or the rest of
  a divided buffer, the next piece is placed before the end of the late one and the head of
  the flow retreats (`HeadRetreatIsBounded` says by how much at most).
- `tools/mxl-gst/looping_filesrc.cpp:908`: a decoded buffer that is longer than the first one
  is committed whole (`:869-872`), but the expected index advances by the first one's size;
  the next buffer then looks like one after a gap, and the samples in between, which were
  just committed, are overwritten with silence (`CommittedIsKept` states the exception).
- `tools/mxl-fabrics-demo/demo.cpp:250`: a reader that is too late goes on with the slice
  range of the grain it left; the first transfer of the new grain then lacks its first
  slices (excluded as "jumped").
- `tools/mxl-gst/testsrc.cpp:263`: a file of a single frame never loops, because the last
  time stamp of zero is taken for "nothing emitted yet" (excluded by `FileLen > 1`).

## Not modelled

- Payload bytes, header fields that no decision depends on, pixel and sample formats.
- Memory models weaker than x86-TSO; macOS (`kqueue`, `os_sync_wait_on_address`).
- Outside `FlowApi`, rates whose period is not a whole number of ticks: there the rational
  arithmetic of `IndexConversion.hpp` is replaced by whole periods, with its rounding.
- `listFlows`, path helpers, logging, factory: sequential and without shared state.
- The grains of a flow are opened one after the other (`FlowManager.cpp:373-379`); in
  `FlowLifecycle` the payload is one file, opened in one step after the data file.
- The conversion of ancillary data (`format/data.rs`): a sequential rewriting of bits
  without state, covered by the unit tests of its crate.
- The set of synchronization groups of an instance: it is changed without the mutex, a
  data race on a list whose outcomes cannot be enumerated.
- Exceptions of libfabric calls in the middle of a handler, other than in the posting of
  writes: the wrapped objects are left in states that the code does not define.
- Registration, address and serialisation helpers of fabrics, the Base64 codec: wrappers
  of libfabric and vendored code.
- `mxl-info`, `mxl-data-probe`, the loading of the library and the readers of the Rust
  bindings: thin clients of the C API.
- The composition of the modules: each takes the others as external parts with the
  behaviours that they promise (a flow that is deleted and created anew, a reader that
  is told too early, too late or invalid). Products of these state spaces exceed what
  TLC can search at bounds at which the interesting cases happen.
