--------------------------- MODULE MCDomainWatcher ---------------------------
(* Instance of DomainWatcher for TLC: two writers and one flow that is deleted  *)
(* and created again.                                                           *)
EXTENDS DomainWatcher
=============================================================================
