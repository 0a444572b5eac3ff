--------------------------- MODULE MCRequestQueue ---------------------------
(* Instances of RequestQueue for TLC.                                      *)
EXTENDS RequestQueue

CONSTANTS child, health, down, up

MCRequesters == {child, health}
MCRequests == {down, up}
=============================================================================
