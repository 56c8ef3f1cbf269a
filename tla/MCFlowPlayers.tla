---------------------------- MODULE MCFlowPlayers ----------------------------
(* Instance of FlowPlayers for TLC.  The constants get their values in the     *)
(* cfg.                                                                        *)
EXTENDS FlowPlayers
=============================================================================
