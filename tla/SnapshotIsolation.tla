------------------------- MODULE SnapshotIsolation -------------------------
(***************************************************************************)
(* The control of snapshots and commits in the clustering mode             *)
(* snapshot_isolation.  Every write goes to every PostgreSQL server, and a *)
(* transaction must read the same state on all of them, so no transaction  *)
(* may take its snapshots while another one is between its first and its   *)
(* last COMMIT.  Two counters in shared memory, read and changed only under*)
(* the semaphore SI_CRITICAL_REGION_SEM, keep the two apart; a critical    *)
(* region is one step.                                                     *)
(*                                                                         *)
(* What a server contributes is that a transaction has one snapshot there  *)
(* (REPEATABLE READ, which the manual requires), taken by its first        *)
(* statement, and that the snapshot shows what was committed by then.      *)
(* Every transaction writes something; one that only reads, or rolls back, *)
(* goes through the same steps and leaves no trace.                        *)
(***************************************************************************)
EXTENDS Integers, FiniteSets

CONSTANTS
  Children,         \* the session processes
  NumNodes,         \* the PostgreSQL servers, 0 .. NumNodes - 1, all valid
  ReusePrepared,    \* whether clients execute statements parsed in an earlier
                    \* transaction: the possible answers
  MaxTransactions,  \* bound: transactions per child
  MaxLosses         \* bound: sessions that end in the middle of something

ASSUME SIAssumption ==
  /\ IsFiniteSet(Children)
  /\ NumNodes \in Nat \ {0}
  /\ ReusePrepared \in SUBSET BOOLEAN
  /\ MaxTransactions \in [Children -> Nat]
  /\ MaxLosses \in Nat

Nodes == 0 .. NumNodes - 1
Main == 0            \* MAIN_NODE_ID

VARIABLES
  snapshotCounter,   \* si_manage_info->snapshot_counter
  commitCounter,     \* si_manage_info->commit_counter
  snapshotWaiting,   \* the children in snapshot_waiting_children
  commitWaiting,     \* the children in commit_waiting_children
  at,                \* where each child is
  siState,           \* session_context->si_state
  txn,               \* the number of each child's transaction
  have,              \* the nodes where the transaction has its snapshot
  seen,              \* what the snapshot shows there
  todo,              \* the nodes where the COMMIT is still to be executed
  committed,         \* the transactions committed on each node
  losses,
  reuse              \* one of ReusePrepared, for the whole behaviour

shared == <<snapshotCounter, commitCounter, snapshotWaiting, commitWaiting>>
fixed == <<reuse>>
vars == <<shared, at, siState, txn, have, seen, todo, committed, losses, fixed>>

Places == {"idle", "begun", "execute", "acquire", "snapshot", "request", "commit"}
Tx == Children \X Nat
Current(c) == <<c, txn[c]>>

Init ==
  /\ snapshotCounter = 0
  /\ commitCounter = 0
  /\ snapshotWaiting = {}
  /\ commitWaiting = {}
  /\ at = [c \in Children |-> "idle"]
  /\ siState = [c \in Children |-> "SI_NO_SNAPSHOT"]
  /\ txn = [c \in Children |-> 0]
  /\ have = [c \in Children |-> {}]
  /\ seen = [c \in Children |-> [n \in Nodes |-> {}]]
  /\ todo = [c \in Children |-> {}]
  /\ committed = [n \in Nodes |-> {}]
  /\ losses = 0
  /\ reuse \in ReusePrepared

Goto(c, place) == at' = [at EXCEPT ![c] = place]

\* BEGIN of the client, or of start_internal_transaction, on every node
Begin(c) ==
  /\ at[c] = "idle"
  /\ txn[c] < MaxTransactions[c]
  /\ txn' = [txn EXCEPT ![c] = @ + 1]
  /\ have' = [have EXCEPT ![c] = {}]
  /\ seen' = [seen EXCEPT ![c] = [n \in Nodes |-> {}]]
  /\ Goto(c, "begun")
  /\ UNCHANGED <<shared, siState, todo, committed, losses, fixed>>

\* The transaction's first statement on node n: it gets its snapshot there.
TakeSnapshot(c, n) ==
  /\ have' = [have EXCEPT ![c] = @ \cup {n}]
  /\ seen' = [seen EXCEPT ![c][n] = committed[n]]

\* si_get_snapshot, called for a simple query and for a Parse message
GetSnapshot(c) ==
  /\ at[c] = "begun"
  /\ siState[c] = "SI_NO_SNAPSHOT"
  /\ Goto(c, "acquire")
  /\ UNCHANGED <<shared, siState, txn, have, seen, todo, committed, losses, fixed>>

\* si_acquire_snapshot: one turn of its loop, under the semaphore
AcquireWaits(c) ==
  /\ at[c] = "acquire"
  /\ commitCounter > 0
  /\ commitWaiting' = commitWaiting \cup {c}
  /\ UNCHANGED <<snapshotCounter, commitCounter, snapshotWaiting, at, siState,
                 txn, have, seen, todo, committed, losses, fixed>>

\* Mutant: si_acquire_snapshot does not look at commit_counter.
AcquireGrantedAlways == TRUE
AcquireGranted == commitCounter = 0

AcquireSnapshot(c) ==
  /\ at[c] = "acquire"
  /\ AcquireGranted
  /\ snapshotCounter' = snapshotCounter + 1
  /\ Goto(c, "snapshot")
  /\ UNCHANGED <<commitCounter, snapshotWaiting, commitWaiting, siState, txn,
                 have, seen, todo, committed, losses, fixed>>

\* The query that si_get_snapshot sends to one node after the other
SnapshotAt(c, n) ==
  /\ at[c] = "snapshot"
  /\ n \notin have[c]
  /\ \A m \in Nodes \ have[c] : n <= m
  /\ TakeSnapshot(c, n)
  /\ UNCHANGED <<shared, at, siState, txn, todo, committed, losses, fixed>>

SnapshotCounterDown == snapshotCounter - 1

\* si_snapshot_acquired
SnapshotAcquired(c) ==
  /\ at[c] = "snapshot"
  /\ have[c] = Nodes
  /\ snapshotCounter' = SnapshotCounterDown
  /\ snapshotWaiting' = IF snapshotCounter' = 0 THEN {} ELSE snapshotWaiting
  /\ siState' = [siState EXCEPT ![c] = "SI_SNAPSHOT_PREPARED"]
  /\ Goto(c, "begun")
  /\ UNCHANGED <<commitCounter, commitWaiting, txn, have, seen, todo, committed,
                 losses, fixed>>

\* Bind and Execute of a statement that an earlier transaction parsed: no call
\* of si_get_snapshot.  A write goes to the main node first.
Execute(c) ==
  /\ reuse
  /\ txn[c] > 1
  /\ at[c] = "begun"
  /\ siState[c] = "SI_NO_SNAPSHOT"
  /\ Goto(c, "execute")
  /\ UNCHANGED <<shared, siState, txn, have, seen, todo, committed, losses, fixed>>

ExecuteAt(c, n) ==
  /\ at[c] = "execute"
  /\ n \notin have[c]
  /\ Main \in have[c] \/ n = Main
  /\ TakeSnapshot(c, n)
  /\ UNCHANGED <<shared, at, siState, txn, todo, committed, losses, fixed>>

ExecuteDone(c) ==
  /\ at[c] = "execute"
  /\ have[c] = Nodes
  /\ Goto(c, "begun")
  /\ UNCHANGED <<shared, siState, txn, have, seen, todo, committed, losses, fixed>>

\* COMMIT or ROLLBACK, of the client or of end_internal_transaction.  A COMMIT
\* that was itself parsed earlier may come here with SI_NO_SNAPSHOT, after
\* statements of the same kind; si_commit_request lets it pass.
Commit(c) ==
  /\ at[c] = "begun"
  /\ todo' = [todo EXCEPT ![c] = Nodes]
  /\ \/ /\ siState[c] = "SI_SNAPSHOT_PREPARED"
        /\ Goto(c, "request")
     \/ /\ siState[c] = "SI_NO_SNAPSHOT"
        /\ have[c] = Nodes
        /\ Goto(c, "commit")
  /\ UNCHANGED <<shared, siState, txn, have, seen, committed, losses, fixed>>

\* si_commit_request: one turn of its loop, under the semaphore
CommitWaits(c) ==
  /\ at[c] = "request"
  /\ snapshotCounter > 0
  /\ snapshotWaiting' = snapshotWaiting \cup {c}
  /\ UNCHANGED <<snapshotCounter, commitCounter, commitWaiting, at, siState, txn,
                 have, seen, todo, committed, losses, fixed>>

\* Mutant: the comparison never lets a COMMIT pass.
CommitGrantedBelow == snapshotCounter < 0
CommitGranted == snapshotCounter = 0

\* Mutant: the COMMIT is let pass and not counted.
CommitRequestUncounted(c) ==
  /\ at[c] = "request"
  /\ CommitGranted
  /\ Goto(c, "commit")
  /\ UNCHANGED <<shared, siState, txn, have, seen, todo, committed, losses, fixed>>

CommitRequest(c) ==
  /\ at[c] = "request"
  /\ CommitGranted
  /\ commitCounter' = commitCounter + 1
  /\ Goto(c, "commit")
  /\ UNCHANGED <<snapshotCounter, snapshotWaiting, commitWaiting, siState, txn,
                 have, seen, todo, committed, losses, fixed>>

Apply(c, S) ==
  committed' = [n \in Nodes |-> IF n \in S THEN committed[n] \cup {Current(c)}
                                ELSE committed[n]]

\* COMMIT goes to all the other nodes, which execute it in any order, and to
\* the main node when they have answered.
CommitReaches(c, n) == n # Main \/ todo[c] = {Main}

CommitAt(c, n) ==
  /\ at[c] = "commit"
  /\ n \in todo[c]
  /\ CommitReaches(c, n)
  /\ todo' = [todo EXCEPT ![c] = @ \ {n}]
  /\ Apply(c, {n})
  /\ UNCHANGED <<shared, at, siState, txn, have, seen, losses, fixed>>

\* Mutant: si_commit_done is called before the main node has committed.
CommitFinishedEarly(c) == todo[c] \subseteq {Main}
CommitFinished(c) == todo[c] = {}

\* What si_commit_done leaves of commit_waiting_children
\* (mutant: the list is never emptied)
StillWaitingForEver(counter) == commitWaiting
StillWaiting(counter) == IF counter = 0 THEN {} ELSE commitWaiting

\* si_commit_done, which does nothing without the snapshot
CommitDone(c) ==
  /\ at[c] = "commit"
  /\ CommitFinished(c)
  /\ IF siState[c] = "SI_SNAPSHOT_PREPARED"
     THEN /\ commitCounter' = commitCounter - 1
          /\ commitWaiting' = StillWaiting(commitCounter')
          /\ siState' = [siState EXCEPT ![c] = "SI_NO_SNAPSHOT"]
     ELSE UNCHANGED <<commitCounter, commitWaiting, siState>>
  /\ Goto(c, "idle")
  /\ UNCHANGED <<snapshotCounter, snapshotWaiting, txn, have, seen, todo, committed,
                 losses, fixed>>

\* The session ends in the middle of the transaction: a server fails, the
\* client's process is killed, or the child is.  COMMIT may have reached some
\* of the nodes.  The next session starts with SI_NO_SNAPSHOT; the counters
\* and the waiting lists stay as they are.
Lost(c) ==
  /\ losses < MaxLosses
  /\ at[c] # "idle"
  /\ losses' = losses + 1
  /\ IF at[c] = "commit"
     THEN \E S \in SUBSET {n \in todo[c] : CommitReaches(c, n)} : Apply(c, S)
     ELSE UNCHANGED committed
  /\ siState' = [siState EXCEPT ![c] = "SI_NO_SNAPSHOT"]
  /\ todo' = [todo EXCEPT ![c] = {}]
  /\ Goto(c, "idle")
  /\ UNCHANGED <<shared, txn, have, seen, fixed>>

Step(c) ==
  \/ AcquireWaits(c) \/ AcquireSnapshot(c) \/ SnapshotAcquired(c)
  \/ CommitWaits(c) \/ CommitRequest(c) \/ CommitDone(c) \/ ExecuteDone(c)
  \/ \E n \in Nodes : SnapshotAt(c, n) \/ ExecuteAt(c, n) \/ CommitAt(c, n)

Next ==
  \E c \in Children :
    Begin(c) \/ GetSnapshot(c) \/ Execute(c) \/ Commit(c) \/ Step(c) \/ Lost(c)

Spec == Init /\ [][Next]_vars

\* A child that waits looks again after sleep(1), and the servers answer.
Fairness ==
  \A c \in Children :
    /\ WF_vars(AcquireSnapshot(c)) /\ WF_vars(CommitRequest(c))
    /\ WF_vars(SnapshotAcquired(c)) /\ WF_vars(CommitDone(c))
    /\ WF_vars(\E n \in Nodes : SnapshotAt(c, n))
    /\ WF_vars(\E n \in Nodes : CommitAt(c, n))
FairSpec == Spec /\ Fairness

-----------------------------------------------------------------------------
Snapshotting == {c \in Children : at[c] = "snapshot"}
Committing ==
  {c \in Children : at[c] = "commit" /\ siState[c] = "SI_SNAPSHOT_PREPARED"}

\* The counters, waiting lists and sessions; the counters are unsigned in the
\* code, so that one decrement too many would wrap around.
TypeOK ==
  /\ snapshotCounter \in Nat
  /\ commitCounter \in Nat
  /\ snapshotWaiting \in SUBSET Children
  /\ commitWaiting \in SUBSET Children
  /\ at \in [Children -> Places]
  /\ siState \in [Children -> {"SI_NO_SNAPSHOT", "SI_SNAPSHOT_PREPARED"}]
  /\ txn \in [Children -> Nat]
  /\ have \in [Children -> SUBSET Nodes]
  /\ seen \in [Children -> [Nodes -> SUBSET Tx]]
  /\ todo \in [Children -> SUBSET Nodes]
  /\ committed \in [Nodes -> SUBSET Tx]
  /\ losses \in Nat
  /\ reuse \in BOOLEAN

\* No transaction takes its snapshots while another one commits: the promise
\* of si_acquire_snapshot and si_commit_request to each other, whatever
\* sessions are lost.
SnapshotsExcludeCommits == Snapshotting = {} \/ Committing = {}

\* What the mode is for: a transaction whose snapshot is prepared sees the
\* same committed transactions on every node ("adds the visibility consistency
\* among nodes", connection-settings.sgml).
VisibilityConsistency ==
  \A c \in Children :
    siState[c] = "SI_SNAPSHOT_PREPARED" =>
      \A n, m \in Nodes : seen[c][n] = seen[c][m]

\* It is kept as long as every statement comes as a simple query or with its
\* Parse message.  A session that is lost in the middle of its COMMIT leaves
\* the nodes different, and commit_counter raised, so that no snapshot is
\* taken from then on.
ConsistentSnapshots == ~reuse => VisibilityConsistency

\* A child registers as waiting, and the others clear the list, under the one
\* semaphore: as long as a child is registered there is somebody whose
\* si_commit_done or si_snapshot_acquired is still to come and wake it.
WaitersWillBeWoken ==
  /\ commitWaiting # {} => commitCounter > 0
  /\ snapshotWaiting # {} => snapshotCounter > 0

\* A counter that no process will take back, left by a lost session
Leaked ==
  \/ snapshotCounter > Cardinality(Snapshotting)
  \/ commitCounter > Cardinality(Committing)

\* The loops of si_acquire_snapshot and si_commit_request end, if the other
\* children do not start transactions for ever: the two never wait for each
\* other, and a session lost while it waits does no harm.  One that is lost
\* between the two calls of a pair leaves its counter raised.
WaitsEnd ==
  \A c \in Children : \A place \in {"acquire", "request"} :
    at[c] = place ~> (at[c] # place \/ Leaked)
=============================================================================
