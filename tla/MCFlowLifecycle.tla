-------------------------- MODULE MCFlowLifecycle ---------------------------
(***************************************************************************)
(* TLC instances of FlowLifecycle; instances and collectors are model      *)
(* values.                                                                 *)
(***************************************************************************)
EXTENDS FlowLifecycle, TLC

\* The instances are interchangeable, and only safety is checked with this.
Symmetry == Permutations(Instances)
=============================================================================
