----------------------------- MODULE MCFailover -----------------------------
(* Model-checking instances of Failover.                                   *)
EXTENDS Failover
=============================================================================
