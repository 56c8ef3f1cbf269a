------------------------------ MODULE GrainRead ------------------------------
(***************************************************************************)
(* What the accessors of a discrete flow promise, without counter, futex   *)
(* or remembered head.  A call looks at the head and at the header of its  *)
(* entry, which writers change under it.  It is granted a grain only when  *)
(* the grain is there; it misses one only if its look has seen it missing, *)
(* though perhaps its slices and its flag at different moments; the header *)
(* it returns holds in every word what that word held since the grant.     *)
(* When nobody writes during a look that is what a single look would see.  *)
(* A call that has missed its grain waits; it may look again or give up at *)
(* any time, and must look again when the grain has arrived for good.      *)
(* DiscreteFlow implements this specification.                             *)
(***************************************************************************)
EXTENDS Integers

CONSTANTS Readers, GrainCount, TotalSlices

VARIABLES
  head, ring,   \* the newest index and the headers of the ring's entries
  phase,        \* reader -> "idle", "looking", "missing" or "granted"
  asked,        \* reader -> the arguments of its call
  answer,       \* reader -> what its last call returned
  seen          \* reader -> word -> the values that its look or its grant has seen

vars == <<head, ring, phase, asked, answer, seen>>

Oldest == IF head >= GrainCount THEN head - GrainCount + 1 ELSE 0

Entry(r) == ring[asked[r].index % GrainCount]

IsEnough(validSlices, r) ==
  validSlices >= IF asked[r].minValidSlices < TotalSlices
                 THEN asked[r].minValidSlices ELSE TotalSlices

Enough(r) == IsEnough(Entry(r).validSlices, r) \/ Entry(r).invalid

\* The look has seen too few slices, and it has seen no flag.
SeenMissing(r) == (\E n \in seen[r].validSlices : ~IsEnough(n, r)) /\ FALSE \in seen[r].invalid

\* The call can be answered now, with the grain or as too late.
Ready(r) == /\ asked[r].index <= head
            /\ asked[r].index < Oldest \/ Enough(r)

Nothing == [index |-> {}, validSlices |-> {}, invalid |-> {}]

\* What has been seen when the entry is e.
With(before, e) == [index |-> before.index \cup {e.index},
                    validSlices |-> before.validSlices \cup {e.validSlices},
                    invalid |-> before.invalid \cup {e.invalid}]

Init ==
  /\ head = 0
  /\ phase = [r \in Readers |-> "idle"]
  /\ seen = [r \in Readers |-> Nothing]
  /\ \A r \in Readers : answer[r].status = "NONE"

Move(r, from, to) == phase[r] = from /\ phase' = [phase EXCEPT ![r] = to]

\* A look, or a grant, begins with what the entry holds now.
Sees(r) == seen' = [seen EXCEPT ![r] = With(Nothing, Entry(r)')]

Forget(r) == seen' = [seen EXCEPT ![r] = Nothing]

Reply(r, from, status) ==
  /\ Move(r, from, "idle") /\ Forget(r)
  /\ answer'[r].status = status
  /\ \A q \in Readers \ {r} : answer'[q] = answer[q]

\* Writers change the ring, never what a caller was told; the head never retreats.
Write ==
  /\ head' >= head /\ UNCHANGED <<phase, asked, answer>>
  /\ seen' = [r \in Readers |->
                IF phase[r] \in {"looking", "granted"}
                THEN With(seen[r], Entry(r)') ELSE seen[r]]

Ask(r) ==
  /\ Move(r, "idle", "looking") /\ Sees(r)
  /\ answer'[r].status = "NONE"
  /\ \A q \in Readers \ {r} : asked'[q] = asked[q] /\ answer'[q] = answer[q]
  /\ UNCHANGED <<head, ring>>

\* The grain lies ahead of the head, or its entry has been seen without it.
Miss(r) ==
  /\ Move(r, "looking", "missing") /\ Forget(r)
  /\ asked[r].index > head \/ SeenMissing(r)
  /\ UNCHANGED <<head, ring, asked, answer>>

LookAgain(r) ==
  Move(r, "missing", "looking") /\ Sees(r) /\ UNCHANGED <<head, ring, asked, answer>>

TooLate(r) ==
  /\ Reply(r, "looking", "TOO_LATE")
  /\ asked[r].index < Oldest
  /\ UNCHANGED <<head, ring, asked>>

\* The grain is there: waitForGrain is done, getGrain has yet to copy the header.
Found(r) ==
  /\ asked[r].index <= head /\ Enough(r)
  /\ \/ Reply(r, "looking", "OK") /\ asked[r].call = "waitForGrain"
     \/ Move(r, "looking", "granted") /\ Sees(r) /\ UNCHANGED answer
  /\ UNCHANGED <<head, ring, asked>>

Return(r) ==
  /\ Reply(r, "granted", "OK")
  /\ answer'[r].info.index \in seen[r].index
  /\ answer'[r].info.validSlices \in seen[r].validSlices
  /\ answer'[r].info.invalid \in seen[r].invalid
  /\ UNCHANGED <<head, ring, asked>>

GiveUp(r) ==
  /\ \/ Reply(r, "missing", "TOO_EARLY")
     \/ Reply(r, "missing", "FLOW_INVALID")
  /\ UNCHANGED <<head, ring, asked>>

Look(r) == Miss(r) \/ TooLate(r) \/ Found(r)

Next == Write \/ \E r \in Readers : Ask(r) \/ Look(r) \/ LookAgain(r) \/ Return(r) \/ GiveUp(r)

SafeSpec == Init /\ [][Next]_vars

\* A call does not look for ever, nor wait for ever for a grain that is there.
Progress(r) ==
  /\ []<>(phase[r] \in {"idle", "missing"})
  /\ []<>~(phase[r] = "missing" /\ Ready(r))

Spec == SafeSpec /\ \A r \in Readers : Progress(r)
=============================================================================
