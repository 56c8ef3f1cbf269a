--------------------------- MODULE MCDiscreteFlow ---------------------------
(***************************************************************************)
(* TLC instances of DiscreteFlow; the processes are model values.          *)
(***************************************************************************)
EXTENDS DiscreteFlow
=============================================================================
