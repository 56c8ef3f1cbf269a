--------------------------- MODULE MCContinuousFlow -------------------------
(***************************************************************************)
(* TLC instances of ContinuousFlow; the readers are model values.          *)
(***************************************************************************)
EXTENDS ContinuousFlow
=============================================================================
