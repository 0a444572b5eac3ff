----------------------------- MODULE MCSessions -----------------------------
(***************************************************************************)
(* Model checking of Sessions.                                             *)
(***************************************************************************)
EXTENDS Sessions, TLC

CONSTANTS c1, c2

OneChild == {c1}
TwoChildren == {c1, c2}

\* The session processes are interchangeable.
ChildSymmetry == Permutations(TwoChildren)
=============================================================================
