---------------------------- MODULE MCGstMxlSink ----------------------------
(* Instance of GstMxlSink for TLC.  The constants get their values in the cfg. *)
EXTENDS GstMxlSink
=============================================================================
