---------------------------- MODULE MCFabricsRDM ----------------------------
(* Instance of FabricsRDM for TLC.  The constants get their values in the cfgs. *)
EXTENDS FabricsRDM
=============================================================================
