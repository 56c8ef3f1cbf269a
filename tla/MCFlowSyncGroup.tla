--------------------------- MODULE MCFlowSyncGroup ---------------------------
(***************************************************************************)
(* TLC instances of FlowSyncGroup: a video flow, whose grains last two     *)
(* ticks, and audio flows with a sample per tick.                          *)
(***************************************************************************)
EXTENDS FlowSyncGroup

CONSTANTS v1, a1, a2

MCPeriod == [r \in Readers |-> IF r = v1 THEN 2 ELSE 1]
=============================================================================
