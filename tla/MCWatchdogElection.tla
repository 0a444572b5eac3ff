------------------------- MODULE MCWatchdogElection -------------------------
(***************************************************************************)
(* An instance of WatchdogElection for TLC: three nodes of one priority,   *)
(* which tell each other apart by the time of their start.                 *)
(***************************************************************************)
EXTENDS WatchdogElection

MCNodes == 1..3
MCPriority == [n \in Nodes |-> 1]
MCStartup == [n \in Nodes |-> n]
=============================================================================
