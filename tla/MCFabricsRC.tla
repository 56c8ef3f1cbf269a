---------------------------- MODULE MCFabricsRC ----------------------------
(* Instance of FabricsRC for TLC.  The constants get their values in the cfgs. *)
EXTENDS FabricsRC
=============================================================================
