---------------------------- MODULE MajorityRule ----------------------------
(***************************************************************************)
(* The arithmetic with which the watchdog decides whether a group of nodes *)
(* holds the quorum and how many votes make a consensus.  remotes is       *)
(* g_cluster.memberRemoteNodeCount, the members of the cluster without the *)
(* local node; half is enable_consensus_with_half_votes.                   *)
(***************************************************************************)
EXTENDS Integers

\* The standby nodes that a leader needs.
MinimumRemoteNodes(remotes) ==
  IF remotes % 2 = 0 THEN remotes \div 2 ELSE (remotes - 1) \div 2

\* 1: the quorum exists, 0: exactly half of the nodes and half is enough,
\* -1: no quorum.
QuorumStatus(standbyCount, remotes, half) ==
  LET needed == MinimumRemoteNodes(remotes)
  IN  CASE standbyCount > needed -> 1
        [] standbyCount = needed /\ remotes % 2 = 0 -> 1
        [] standbyCount = needed /\ remotes % 2 # 0 -> IF half THEN 0 ELSE -1
        [] standbyCount < needed -> -1

\* The votes that make a consensus.
MinimumVotes(remotes, half) ==
  MinimumRemoteNodes(remotes) + 1
    + (IF remotes % 2 # 0 /\ ~half THEN 1 ELSE 0)
=============================================================================
