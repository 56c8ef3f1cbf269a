-------------------------- MODULE MCFlowProducers --------------------------
(* Instance of FlowProducers for TLC.  The constants get their values in the   *)
(* cfgs.                                                                       *)
EXTENDS FlowProducers
=============================================================================
