--------------------------- MODULE FlowLifecycle ----------------------------
(***************************************************************************)
(* The life of one flow in an MXL domain: FlowManager creates it under a   *)
(* temporary name and publishes it by a rename, instances of several       *)
(* processes attach writers and readers to it, the last writer deletes it, *)
(* and garbage collection removes what crashed processes left behind.      *)
(*                                                                         *)
(* A generation is one creation of the flow directory with its files; the  *)
(* inode of its data file identifies it.  Advisory locks belong to open    *)
(* files, so they outlive the path they were opened by.  The calls of one  *)
(* instance are serialised by its mutex; garbageCollect and                *)
(* mxlIsFlowActive take no mutex and run as actors of their own.           *)
(*                                                                         *)
(* What the files contain is left to the other modules.  "payload" stands  *)
(* for the grains directory or the channels file.                          *)
(***************************************************************************)
EXTENDS Integers, FiniteSets

CONSTANTS
  Instances,    \* instances, each in a process of its own
  Collectors,   \* threads in garbageCollect or mxlIsFlowActive
  Formats,      \* formats of the flow definitions that callers pass
  MaxGen,       \* bound: number of generations ever created
  MaxRefs,      \* bound: references to a writer or reader of one instance
  MaxCrashes    \* bound: number of crashes

ASSUME LifecycleAssumption ==
  /\ Instances \cap Collectors = {}
  /\ Formats # {} /\ Formats \subseteq {"discrete", "continuous"}
  /\ MaxGen \in Nat /\ MaxRefs \in Nat \ {0} /\ MaxCrashes \in Nat

Actors == Instances \cup Collectors

Gens == 1 .. MaxGen

None == 0

Files == {"data", "payload"}

\* The open files that may carry a lock: one of the current call, one of the writer.
FDs == Actors \X {"call", "writer"}

Unlocked == [gen |-> None, mode |-> "none"]

Detached == [gen |-> None, payload |-> None, refs |-> 0]

VARIABLES
  (* the domain directory *)
  path,      \* the generation that the flow's name refers to, or None
  files,     \* generation -> files left in its directory
  temps,     \* generations under a temporary name
  format,    \* generation -> data format
  created,   \* number of generations
  locks,     \* open file -> the flock(2) it holds
  (* the calls *)
  pc, call,  \* actor -> position in its call, and which call
  temp,      \* actor -> generation that this call created
  target,    \* actor -> generation opened, probed or removed
  payload,   \* actor -> generation whose payload was opened
  (* the instances *)
  writer, reader,  \* instance -> its entry in _writers, in _readers
  (* bookkeeping *)
  crashes,   \* number of crashes
  disturbed, \* history: some call failed, crashed or probed the lock
  removed    \* history: a removal has begun

domainVars == <<path, files, temps, format, created>>
callVars == <<pc, call, temp, target, payload>>
history == <<crashes, disturbed, removed>>
vars == <<domainVars, locks, callVars, writer, reader, history>>

GenOrNone == Gens \cup {None}

Handles == [gen : GenOrNone, payload : GenOrNone, refs : 0 .. MaxRefs]

TypeOK ==
  /\ path \in GenOrNone
  /\ files \in [Gens -> SUBSET Files]
  /\ temps \subseteq Gens
  /\ format \in [Gens -> {"discrete", "continuous"}]
  /\ created \in 0 .. MaxGen
  /\ locks \in [FDs -> [gen : GenOrNone, mode : {"none", "SH", "EX"}]]
  /\ pc \in [Actors -> {"idle", "publish", "open", "lock", "payload", "attach",
                        "unlock", "lockExclusive", "remove", "unlinking", "erase",
                        "probe", "close"}]
  /\ call \in [Actors -> {"none", "writer", "reader", "gc", "isActive"}]
  /\ temp \in [Actors -> GenOrNone]
  /\ target \in [Actors -> GenOrNone]
  /\ payload \in [Actors -> GenOrNone]
  /\ writer \in [Instances -> Handles]
  /\ reader \in [Instances -> Handles]
  /\ crashes \in 0 .. MaxCrashes
  /\ disturbed \in BOOLEAN /\ removed \in BOOLEAN

Init ==
  /\ path = None /\ files = [g \in Gens |-> {}] /\ temps = {}
  /\ format = [g \in Gens |-> "discrete"] /\ created = 0
  /\ locks = [d \in FDs |-> Unlocked]
  /\ pc = [a \in Actors |-> "idle"] /\ call = [a \in Actors |-> "none"]
  /\ temp = [a \in Actors |-> None]
  /\ target = [a \in Actors |-> None]
  /\ payload = [a \in Actors |-> None]
  /\ writer = [p \in Instances |-> Detached]
  /\ reader = [p \in Instances |-> Detached]
  /\ crashes = 0 /\ disturbed = FALSE /\ removed = FALSE

-----------------------------------------------------------------------------
(* flock(2): a lock is granted unless another open file holds a conflicting *)
(* one on the same inode.                                                   *)
Grants(d, gen, mode) ==
  \A e \in FDs \ {d} :
    locks[e].gen = gen => mode = "SH" /\ locks[e].mode = "SH"

\* A file of the flow can be opened by its name.
CanOpen(file) == path # None /\ file \in files[path]

\* Faulty variant: the flow counts as valid if there is one of that name.
FlowExists(gen) == CanOpen("data")

(* isFlowValid of the readers: the data path still names the inode that was *)
(* recorded when the generation was created.                                *)
FlowValid(gen) == CanOpen("data") /\ path = gen

Locked(d, gen, mode) == locks' = [locks EXCEPT ![d] = [gen |-> gen, mode |-> mode]]

Goto(a, where) == pc' = [pc EXCEPT ![a] = where]

\* The locals of a call that returns are gone.
EndCall(a) ==
  /\ Goto(a, "idle")
  /\ call' = [call EXCEPT ![a] = "none"]
  /\ temp' = [temp EXCEPT ![a] = None]
  /\ target' = [target EXCEPT ![a] = None]
  /\ payload' = [payload EXCEPT ![a] = None]

(* An exception leaves the call: the file is closed and, for both kinds of  *)
(* flow, the temporary directory removed.                                   *)
Throw(p) ==
  /\ EndCall(p)
  /\ locks' = [locks EXCEPT ![<<p, "call">>] = Unlocked]
  /\ temps' = temps \ {temp[p]}
  /\ disturbed' = TRUE
  /\ UNCHANGED <<path, files, format, created, writer, reader, crashes, removed>>

-----------------------------------------------------------------------------
(* Creating and opening *)

(* createFlowWriter prepares a complete flow under a temporary name before  *)
(* it looks whether the flow exists.                                        *)
createFlowWriter(p, f) ==
  /\ pc[p] = "idle"
  /\ created < MaxGen
  /\ writer[p].refs < MaxRefs
  /\ created' = created + 1
  /\ format' = [format EXCEPT ![created'] = f]
  /\ files' = [files EXCEPT ![created'] = Files]
  /\ temps' = temps \cup {created'}
  /\ temp' = [temp EXCEPT ![p] = created']
  /\ call' = [call EXCEPT ![p] = "writer"]
  /\ Locked(<<p, "call">>, created', "SH")
  /\ Goto(p, "publish")
  /\ UNCHANGED <<path, target, payload, writer, reader, history>>

\* Faulty variant: a rename that replaces what is there.
PublishReplacing(p) ==
  /\ pc[p] = "publish"
  /\ path' = temp[p]
  /\ temps' = temps \ {temp[p]}
  /\ target' = [target EXCEPT ![p] = temp[p]]
  /\ payload' = [payload EXCEPT ![p] = temp[p]]
  /\ Goto(p, "attach")
  /\ UNCHANGED <<files, format, created, locks, call, temp, writer, reader, history>>

(* renameat2(RENAME_NOREPLACE).  Nobody but the creator can reach a         *)
(* generation that was not published, so its lock is dropped at once.       *)
publishFlowDirectory(p) ==
  /\ pc[p] = "publish"
  /\ \/ /\ path = None
        /\ path' = temp[p]
        /\ temps' = temps \ {temp[p]}
        /\ target' = [target EXCEPT ![p] = temp[p]]
        /\ payload' = [payload EXCEPT ![p] = temp[p]]
        /\ Goto(p, "attach")
        /\ UNCHANGED locks
     \/ /\ path # None
        /\ locks' = [locks EXCEPT ![<<p, "call">>] = Unlocked]
        /\ Goto(p, "open")
        /\ UNCHANGED <<path, temps, target, payload>>
  /\ UNCHANGED <<files, format, created, call, temp, writer, reader, history>>

\* Only writers lock; a reader goes on to the payload.
openFlow(p) ==
  /\ pc[p] = "open"
  /\ \/ /\ CanOpen("data")
        /\ target' = [target EXCEPT ![p] = path]
        /\ Goto(p, IF call[p] = "writer" THEN "lock" ELSE "payload")
        /\ UNCHANGED <<domainVars, locks, call, temp, payload, writer, reader, history>>
     \/ ~CanOpen("data") /\ Throw(p)

LockShared(p) ==
  LET granted == Grants(<<p, "call">>, target[p], "SH")
  IN /\ pc[p] = "lock"
     /\ \/ /\ granted
           /\ Locked(<<p, "call">>, target[p], "SH")
           /\ Goto(p, "payload")
           /\ UNCHANGED <<domainVars, call, temp, target, payload, writer, reader, history>>
        \/ ~granted /\ Throw(p)

(* The payload is opened by its name again.  Its name depends on the format *)
(* found in the data file, and a writer insists on its own format.  The     *)
(* grains of a discrete flow are opened one after the other; they are one   *)
(* file here, of one generation.                                            *)
OpenPayload(p) ==
  LET opens == /\ CanOpen("payload")
               /\ format[path] = format[target[p]]
               /\ call[p] = "writer" => format[target[p]] = format[temp[p]]
  IN /\ pc[p] = "payload"
     /\ \/ /\ opens
           /\ payload' = [payload EXCEPT ![p] = path]
           /\ Goto(p, "attach")
           /\ UNCHANGED <<domainVars, locks, call, temp, target, writer, reader, history>>
        \/ ~opens /\ Throw(p)

\* Faulty variant: the file of a flow that already has a writer here stays open.
AttachWriterAgain(p) ==
  /\ pc[p] = "attach" /\ call[p] = "writer"
  /\ IF writer[p].refs > 0
     THEN /\ writer' = [writer EXCEPT ![p].refs = @ + 1]
          /\ UNCHANGED locks
     ELSE /\ writer' = [writer EXCEPT ![p] =
                [gen |-> target[p], payload |-> payload[p], refs |-> 1]]
          /\ locks' = [locks EXCEPT ![<<p, "writer">>] = locks[<<p, "call">>],
                                    ![<<p, "call">>] = Unlocked]
  /\ temps' = IF format[temp[p]] = "discrete" THEN temps \ {temp[p]} ELSE temps
  /\ EndCall(p)
  /\ UNCHANGED <<path, files, format, created, reader, history>>

(* The end of createFlowWriter.  An instance that has a writer for the flow *)
(* keeps it and closes what it has just opened, whatever generation that    *)
(* was.  The temporary directory of a discrete flow is removed; the one of  *)
(* a continuous flow only goes when an exception is thrown.                 *)
AttachWriter(p) ==
  /\ pc[p] = "attach" /\ call[p] = "writer"
  /\ IF writer[p].refs > 0
     THEN /\ writer' = [writer EXCEPT ![p].refs = @ + 1]
          /\ locks' = [locks EXCEPT ![<<p, "call">>] = Unlocked]
     ELSE /\ writer' = [writer EXCEPT ![p] =
                [gen |-> target[p], payload |-> payload[p], refs |-> 1]]
          /\ locks' = [locks EXCEPT ![<<p, "writer">>] = locks[<<p, "call">>],
                                    ![<<p, "call">>] = Unlocked]
  /\ temps' = IF format[temp[p]] = "discrete" THEN temps \ {temp[p]} ELSE temps
  /\ EndCall(p)
  /\ UNCHANGED <<path, files, format, created, reader, history>>

getFlowReader(p) ==
  /\ pc[p] = "idle"
  /\ \/ /\ reader[p].refs = 0
        /\ Goto(p, "open")
        /\ call' = [call EXCEPT ![p] = "reader"]
        /\ UNCHANGED reader
     \/ /\ reader[p].refs \in 1 .. (MaxRefs - 1)
        /\ reader' = [reader EXCEPT ![p].refs = @ + 1]
        /\ UNCHANGED <<pc, call>>
  /\ UNCHANGED <<domainVars, locks, temp, target, payload, writer, history>>

AttachReader(p) ==
  /\ pc[p] = "attach" /\ call[p] = "reader"
  /\ reader' = [reader EXCEPT ![p] =
       [gen |-> target[p], payload |-> payload[p], refs |-> 1]]
  /\ EndCall(p)
  /\ UNCHANGED <<domainVars, locks, writer, history>>

\* Faulty variant: the reference count of a reader is decremented unchecked.
ReleaseReaderUnchecked(p) ==
  /\ pc[p] = "idle"
  /\ reader' = [reader EXCEPT ![p].refs = @ - 1]
  /\ UNCHANGED <<domainVars, locks, callVars, writer, history>>

releaseReader(p) ==
  /\ pc[p] = "idle"
  /\ reader[p].refs > 0
  /\ reader' = IF reader[p].refs = 1 THEN [reader EXCEPT ![p] = Detached]
               ELSE [reader EXCEPT ![p].refs = @ - 1]
  /\ UNCHANGED <<domainVars, locks, callVars, writer, history>>

-----------------------------------------------------------------------------
(* Releasing and deleting *)

releaseWriter(p) ==
  /\ pc[p] = "idle"
  /\ writer[p].refs > 0
  /\ writer' = [writer EXCEPT ![p].refs = @ - 1]
  /\ IF writer[p].refs = 1 THEN Goto(p, "unlock") ELSE UNCHANGED pc
  /\ UNCHANGED <<domainVars, locks, call, temp, target, payload, reader, history>>

\* ~Instance treats a leaked writer like a released one.
DestroyInstance(p) ==
  /\ pc[p] = "idle"
  /\ writer[p].refs > 0 \/ reader[p].refs > 0
  /\ writer' = [writer EXCEPT ![p].refs = 0]
  /\ reader' = [reader EXCEPT ![p] = Detached]
  /\ IF writer[p].refs > 0 THEN Goto(p, "unlock") ELSE UNCHANGED pc
  /\ UNCHANGED <<domainVars, locks, call, temp, target, payload, history>>

(* makeExclusive converts the lock, and flock(2) does so in two steps: the  *)
(* shared lock is removed, then the exclusive one is tried.                 *)
Unlock(p) ==
  /\ pc[p] = "unlock"
  /\ locks' = [locks EXCEPT ![<<p, "writer">>] = Unlocked]
  /\ Goto(p, "lockExclusive")
  /\ UNCHANGED <<domainVars, call, temp, target, payload, writer, reader, history>>

LockExclusive(p) ==
  LET granted == Grants(<<p, "writer">>, writer[p].gen, "EX")
  IN /\ pc[p] = "lockExclusive"
     /\ IF granted THEN Locked(<<p, "writer">>, writer[p].gen, "EX") ELSE UNCHANGED locks
     /\ Goto(p, IF granted THEN "remove" ELSE "erase")
     /\ UNCHANGED <<domainVars, call, temp, target, payload, writer, reader, history>>

AfterRemoval(a) == IF a \in Instances THEN "erase" ELSE "idle"

(* remove_all of the flow directory, by its name: whatever generation has   *)
(* the name now is emptied file by file, then its directory goes.           *)
BeginRemoval(a) ==
  /\ pc[a] = "remove"
  /\ target' = [target EXCEPT ![a] = path]
  /\ Goto(a, IF path = None THEN AfterRemoval(a) ELSE "unlinking")
  /\ removed' = TRUE
  /\ UNCHANGED <<domainVars, locks, call, temp, payload, writer, reader, crashes, disturbed>>

Unlink(a, file) ==
  /\ pc[a] = "unlinking"
  /\ file \in files[target[a]]
  /\ files' = [files EXCEPT ![target[a]] = @ \ {file}]
  /\ UNCHANGED <<path, temps, format, created, locks, callVars, writer, reader, history>>

RemoveDirectory(a) ==
  /\ pc[a] = "unlinking"
  /\ files[target[a]] = {}
  /\ path' = IF path = target[a] THEN None ELSE path
  /\ target' = [target EXCEPT ![a] = None]
  /\ Goto(a, AfterRemoval(a))
  /\ UNCHANGED <<files, temps, format, created, locks, call, temp, payload,
                 writer, reader, history>>

\* _writers.erase closes the files of the writer.
EraseWriter(p) ==
  /\ pc[p] = "erase"
  /\ writer' = [writer EXCEPT ![p] = Detached]
  /\ locks' = [locks EXCEPT ![<<p, "writer">>] = Unlocked]
  /\ EndCall(p)
  /\ UNCHANGED <<domainVars, reader, history>>

\* The process dies: the kernel closes its files, the directories stay as they are.
Crash(p) ==
  /\ crashes < MaxCrashes
  /\ pc[p] # "idle" \/ writer[p].refs > 0
  /\ crashes' = crashes + 1 /\ disturbed' = TRUE
  /\ locks' = [d \in FDs |-> IF d[1] = p THEN Unlocked ELSE locks[d]]
  /\ writer' = [writer EXCEPT ![p] = Detached]
  /\ reader' = [reader EXCEPT ![p] = Detached]
  /\ EndCall(p)
  /\ UNCHANGED <<domainVars, removed>>

-----------------------------------------------------------------------------
(* garbageCollect and mxlIsFlowActive *)

\* The directory entry is found and its data file opened.
OpenProbe(c, why) ==
  /\ pc[c] = "idle"
  /\ CanOpen("data")
  /\ target' = [target EXCEPT ![c] = path]
  /\ call' = [call EXCEPT ![c] = why]
  /\ Goto(c, "probe")
  /\ disturbed' = TRUE
  /\ UNCHANGED <<domainVars, locks, temp, payload, writer, reader, crashes, removed>>

Probe(c) ==
  LET granted == Grants(<<c, "call">>, target[c], "EX")
  IN /\ pc[c] = "probe"
     /\ \/ /\ granted
           /\ Locked(<<c, "call">>, target[c], "EX")
           /\ Goto(c, "close")
           /\ UNCHANGED <<call, temp, target, payload>>
        \/ ~granted /\ EndCall(c) /\ UNCHANGED locks
     /\ UNCHANGED <<domainVars, writer, reader, history>>

(* The file is closed, and with it the lock gone, before the directory is   *)
(* removed.                                                                 *)
CloseProbe(c) ==
  /\ pc[c] = "close"
  /\ locks' = [locks EXCEPT ![<<c, "call">>] = Unlocked]
  /\ IF call[c] = "gc" THEN Goto(c, "remove") /\ UNCHANGED <<call, temp, target, payload>>
     ELSE EndCall(c)
  /\ UNCHANGED <<domainVars, writer, reader, history>>

-----------------------------------------------------------------------------
RemovalStep(a) ==
  BeginRemoval(a) \/ (\E f \in Files : Unlink(a, f)) \/ RemoveDirectory(a)

InstanceStep(p) ==
  \/ publishFlowDirectory(p) \/ openFlow(p) \/ LockShared(p) \/ OpenPayload(p)
  \/ AttachWriter(p) \/ AttachReader(p)
  \/ Unlock(p) \/ LockExclusive(p) \/ RemovalStep(p) \/ EraseWriter(p)

CollectorStep(c) == Probe(c) \/ CloseProbe(c) \/ RemovalStep(c)

Next ==
  \/ \E p \in Instances :
       \/ \E f \in Formats : createFlowWriter(p, f)
       \/ getFlowReader(p) \/ releaseReader(p)
       \/ releaseWriter(p) \/ DestroyInstance(p)
       \/ InstanceStep(p)
       \/ Crash(p)
  \/ \E c \in Collectors :
       \/ \E why \in {"gc", "isActive"} : OpenProbe(c, why)
       \/ CollectorStep(c)

Spec == Init /\ [][Next]_vars

-----------------------------------------------------------------------------
(* Properties *)

NoWriters == \A p \in Instances : pc[p] = "idle" /\ writer[p].refs = 0

(* When every writer has been released, and no call failed or crashed and   *)
(* nobody probed the lock in between, the flow is gone: of several writers  *)
(* that are released at the same time, one succeeds in taking the exclusive *)
(* lock (Instance::releaseWriter, SharedMemoryBase::makeExclusive).         *)
ReleasedFlowIsDeleted ==
  (NoWriters /\ ~disturbed /\ \A c \in Collectors : pc[c] = "idle") => path = None

(* A flow is opened in two steps, by name each time, so a reader may get    *)
(* the data file of one generation and the payload of the next.  The inode  *)
(* check never calls such a reader valid (isFlowValidImpl).                 *)
ValidReaderMapsOneGeneration ==
  \A p \in Instances :
    (reader[p].refs > 0 /\ FlowValid(reader[p].gen)) => reader[p].payload = reader[p].gen

(* Until something is removed, all writers of all processes write the one   *)
(* flow that is published, however their createFlowWriter calls overlap.    *)
CreatorsShareTheFlow ==
  ~removed => \A p \in Instances :
                writer[p].refs > 0 => writer[p].gen = path /\ writer[p].payload = path
=============================================================================
