------------------------------ MODULE Initiator ------------------------------
(* What the two initiators of the fabrics library have in common: they post     *)
(* writes, count the ones that are pending in a size_t that nothing guards, and *)
(* MakeProgress takes completions from a queue and reports whether work is left. *)
EXTENDS Integers

CONSTANT MaxFaults   \* bound: lost connections, failed posts and failed writes

VARIABLES
    cq,        \* completion queue of the initiator
    progress,  \* result of the last MakeProgress call, "none" after another call
    faults     \* faults so far

\* A size_t is written as the integer closest to zero that it is congruent to
\* modulo 2^64: 0 - 1 is -1, which is not 0 and becomes 0 with the next write.
Dec(n) == n - 1
=============================================================================
