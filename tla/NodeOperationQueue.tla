------------------------- MODULE NodeOperationQueue -------------------------
(***************************************************************************)
(* What the node operation queue in Req_info promises to the processes     *)
(* that use it: requests are taken in the order in which they were         *)
(* accepted, each exactly once, and at most Capacity of them wait.         *)
(* RequestQueue implements it with a ring buffer, a semaphore, two         *)
(* "switching" flags and a signal.                                         *)
(***************************************************************************)
EXTENDS Naturals, Sequences

CONSTANTS Requests,    \* what can be asked of the main process
          Capacity     \* the number of requests that may wait

VARIABLES waiting,     \* requests accepted and not yet taken, oldest first
          taken        \* requests the main process has taken, oldest first

vars == <<waiting, taken>>

Init ==
  /\ waiting = <<>>
  /\ taken = <<>>

Accept(r) ==
  /\ Len(waiting) < Capacity
  /\ waiting' = Append(waiting, r)
  /\ UNCHANGED taken

Take ==
  /\ waiting # <<>>
  /\ taken' = Append(taken, Head(waiting))
  /\ waiting' = Tail(waiting)

Next == Take \/ \E r \in Requests : Accept(r)

Spec == Init /\ [][Next]_vars
=============================================================================
