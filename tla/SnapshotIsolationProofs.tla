---------------------- MODULE SnapshotIsolationProofs ----------------------
(***************************************************************************)
(* Proofs about SnapshotIsolation for any number of children and nodes and *)
(* any number of transactions and lost sessions.                           *)
(***************************************************************************)
EXTENDS SnapshotIsolation, FiniteSetTheorems, TLAPS

\* The provers a step is tried with, and the seconds each may take
USE ZenonT(2), SMTT(20), ZenonT(20)

\* The counters count at least the processes that are between the two calls;
\* a lost session leaves them higher.
Counted ==
  /\ Cardinality(Snapshotting) <= snapshotCounter
  /\ Cardinality(Committing) <= commitCounter

\* One of the counters is zero.
Apart == snapshotCounter = 0 \/ commitCounter = 0

\* What the place of a child says about its transaction
Placed ==
  \A c \in Children :
    /\ at[c] = "request" =>
         siState[c] = "SI_SNAPSHOT_PREPARED" /\ todo[c] = Nodes
    /\ at[c] \in {"idle", "execute", "acquire", "snapshot"} =>
         siState[c] = "SI_NO_SNAPSHOT"

ControlInv == TypeOK /\ Counted /\ Apart /\ WaitersWillBeWoken /\ Placed

-----------------------------------------------------------------------------
\* The sets of processes that the counters count are finite.
LEMMA CountedSets ==
  /\ IsFiniteSet(Snapshotting) /\ Cardinality(Snapshotting) \in Nat
  /\ IsFiniteSet(Committing) /\ Cardinality(Committing) \in Nat
  /\ IsFiniteSet(Snapshotting') /\ Cardinality(Snapshotting') \in Nat
  /\ IsFiniteSet(Committing') /\ Cardinality(Committing') \in Nat
<1>1. /\ Snapshotting \in SUBSET Children /\ Committing \in SUBSET Children
      /\ Snapshotting' \in SUBSET Children /\ Committing' \in SUBSET Children
  BY DEF Snapshotting, Committing
<1>2. \A S \in SUBSET Children : IsFiniteSet(S) /\ Cardinality(S) \in Nat
  BY SIAssumption, FS_Subset, FS_CardinalityType
<1> QED
  BY <1>1, <1>2

\* While a process is between the two calls of a pair its counter is raised.
LEMMA Raised ==
  ASSUME TypeOK, Counted
  PROVE  /\ Snapshotting # {} => snapshotCounter > 0
         /\ Committing # {} => commitCounter > 0
<1>1. ASSUME Snapshotting # {} PROVE snapshotCounter > 0
  <2>1. Cardinality(Snapshotting) # 0
    BY <1>1, CountedSets, FS_EmptySet
  <2> QED
    BY <2>1, CountedSets DEF Counted, TypeOK
<1>2. ASSUME Committing # {} PROVE commitCounter > 0
  <2>1. Cardinality(Committing) # 0
    BY <1>2, CountedSets, FS_EmptySet
  <2> QED
    BY <2>1, CountedSets DEF Counted, TypeOK
<1> QED
  BY <1>1, <1>2

\* The cardinality of a finite set that gains or loses one element
LEMMA OneMoreOneLess ==
  ASSUME NEW S, IsFiniteSet(S), NEW x
  PROVE  /\ x \notin S => Cardinality(S \cup {x}) = Cardinality(S) + 1
         /\ x \in S => Cardinality(S \ {x}) = Cardinality(S) - 1
<1>1. x \notin S => Cardinality(S \cup {x}) = Cardinality(S) + 1
  BY FS_AddElement
<1>2. x \in S => Cardinality(S \ {x}) = Cardinality(S) - 1
  BY FS_RemoveElement
<1> QED
  BY <1>1, <1>2

\* Steps that leave both sets and both counters alone: the client's, the waits
\* and the work on the servers
Quiet ==
  \E c \in Children :
    \/ Begin(c) \/ GetSnapshot(c) \/ Execute(c) \/ Commit(c)
    \/ AcquireWaits(c) \/ CommitWaits(c) \/ ExecuteDone(c)
    \/ \E n \in Nodes : SnapshotAt(c, n) \/ ExecuteAt(c, n) \/ CommitAt(c, n)

\* Quiet steps change neither the sets nor the counters.
LEMMA QuietSets ==
  ASSUME TypeOK, Placed, Quiet
  PROVE  /\ Snapshotting' = Snapshotting
         /\ Committing' = Committing
         /\ UNCHANGED <<snapshotCounter, commitCounter>>
<1> PICK c \in Children :
      \/ Begin(c) \/ GetSnapshot(c) \/ Execute(c) \/ Commit(c)
      \/ AcquireWaits(c) \/ CommitWaits(c) \/ ExecuteDone(c)
      \/ \E n \in Nodes : SnapshotAt(c, n) \/ ExecuteAt(c, n) \/ CommitAt(c, n)
  BY DEF Quiet
<1> USE DEF TypeOK, Placed, Snapshotting, Committing, Goto, shared, fixed
<1>1. CASE Begin(c)
  BY <1>1 DEF Begin
<1>2. CASE GetSnapshot(c)
  BY <1>2 DEF GetSnapshot
<1>3. CASE Execute(c)
  BY <1>3 DEF Execute
<1>4. CASE Commit(c)
  BY <1>4 DEF Commit
<1>5. CASE AcquireWaits(c)
  BY <1>5 DEF AcquireWaits
<1>6. CASE CommitWaits(c)
  BY <1>6 DEF CommitWaits
<1>7. CASE ExecuteDone(c)
  BY <1>7 DEF ExecuteDone
<1>8. CASE \E n \in Nodes : SnapshotAt(c, n) \/ ExecuteAt(c, n) \/ CommitAt(c, n)
  BY <1>8 DEF SnapshotAt, ExecuteAt, CommitAt
<1> QED
  BY <1>1, <1>2, <1>3, <1>4, <1>5, <1>6, <1>7, <1>8

\* What the four calls and a lost session do to the sets and the counters
LEMMA LoudSets ==
  ASSUME TypeOK, Placed, NEW c \in Children
  PROVE  /\ AcquireSnapshot(c) =>
              /\ c \notin Snapshotting /\ Snapshotting' = Snapshotting \cup {c}
              /\ Committing' = Committing
         /\ SnapshotAcquired(c) =>
              /\ c \in Snapshotting /\ Snapshotting' = Snapshotting \ {c}
              /\ Committing' = Committing
         /\ CommitRequest(c) =>
              /\ c \notin Committing /\ Committing' = Committing \cup {c}
              /\ Snapshotting' = Snapshotting
         /\ CommitDone(c) =>
              /\ Snapshotting' = Snapshotting
              /\ Committing' = Committing \ {c}
              /\ c \in Committing <=> siState[c] = "SI_SNAPSHOT_PREPARED"
         /\ Lost(c) =>
              /\ Snapshotting' = Snapshotting \ {c}
              /\ Committing' = Committing \ {c}
<1> USE DEF TypeOK, Placed, Snapshotting, Committing, Goto, shared, fixed
<1>1. ASSUME AcquireSnapshot(c)
      PROVE  /\ c \notin Snapshotting /\ Snapshotting' = Snapshotting \cup {c}
             /\ Committing' = Committing
  BY <1>1 DEF AcquireSnapshot
<1>2. ASSUME SnapshotAcquired(c)
      PROVE  /\ c \in Snapshotting /\ Snapshotting' = Snapshotting \ {c}
             /\ Committing' = Committing
  BY <1>2 DEF SnapshotAcquired
<1>3. ASSUME CommitRequest(c)
      PROVE  /\ c \notin Committing /\ Committing' = Committing \cup {c}
             /\ Snapshotting' = Snapshotting
  BY <1>3 DEF CommitRequest
<1>4. ASSUME CommitDone(c)
      PROVE  /\ Snapshotting' = Snapshotting
             /\ Committing' = Committing \ {c}
             /\ c \in Committing <=> siState[c] = "SI_SNAPSHOT_PREPARED"
  BY <1>4 DEF CommitDone
<1>5. ASSUME Lost(c)
      PROVE  /\ Snapshotting' = Snapshotting \ {c}
             /\ Committing' = Committing \ {c}
  BY <1>5 DEF Lost
<1> QED
  BY <1>1, <1>2, <1>3, <1>4, <1>5

\* Every step is a quiet one or one of the five.
LEMMA StepKinds ==
  ASSUME Next
  PROVE  Quiet \/ \E c \in Children :
           \/ AcquireSnapshot(c) \/ SnapshotAcquired(c)
           \/ CommitRequest(c) \/ CommitDone(c) \/ Lost(c)
  BY DEF Next, Step, Quiet

-----------------------------------------------------------------------------
\* The types.  The counters stay natural numbers because a process that takes
\* one down is counted in it.
LEMMA TypeStep ==
  ASSUME TypeOK, Counted, Placed, Next
  PROVE  TypeOK'
<1>1. CASE Quiet
  <2> PICK c \in Children :
        \/ Begin(c) \/ GetSnapshot(c) \/ Execute(c) \/ Commit(c)
        \/ AcquireWaits(c) \/ CommitWaits(c) \/ ExecuteDone(c)
        \/ \E n \in Nodes : SnapshotAt(c, n) \/ ExecuteAt(c, n) \/ CommitAt(c, n)
    BY <1>1 DEF Quiet
  <2> USE DEF TypeOK, Places, Goto, shared, fixed
  <2>1. CASE Begin(c)
    BY <2>1 DEF Begin
  <2>2. CASE GetSnapshot(c) \/ Execute(c) \/ ExecuteDone(c)
    BY <2>2 DEF GetSnapshot, Execute, ExecuteDone
  <2>3. CASE Commit(c)
    BY <2>3, ZenonT(20) DEF Commit
  <2>4. CASE AcquireWaits(c) \/ CommitWaits(c)
    BY <2>4 DEF AcquireWaits, CommitWaits
  <2>5. CASE \E n \in Nodes : SnapshotAt(c, n) \/ ExecuteAt(c, n)
    <3> PICK n \in Nodes : SnapshotAt(c, n) \/ ExecuteAt(c, n)
      BY <2>5
    <3>1. /\ have' = [have EXCEPT ![c] = @ \cup {n}]
          /\ seen' = [seen EXCEPT ![c] = [@ EXCEPT ![n] = committed[n]]]
      BY DEF SnapshotAt, ExecuteAt, TakeSnapshot
    <3>2. have' \in [Children -> SUBSET Nodes]
      BY <3>1
    <3>3. [seen[c] EXCEPT ![n] = committed[n]] \in [Nodes -> SUBSET Tx]
      OBVIOUS
    <3>4. seen' \in [Children -> [Nodes -> SUBSET Tx]]
      BY <3>1, <3>3
    <3> QED
      BY <3>2, <3>4 DEF SnapshotAt, ExecuteAt
  <2>6. CASE \E n \in Nodes : CommitAt(c, n)
    BY <2>6 DEF CommitAt, Apply, Current, Tx
  <2> QED
    BY <2>1, <2>2, <2>3, <2>4, <2>5, <2>6
<1>2. ASSUME NEW c \in Children, AcquireSnapshot(c) \/ CommitRequest(c)
      PROVE  TypeOK'
  BY <1>2 DEF AcquireSnapshot, CommitRequest, TypeOK, Places, Goto, shared, fixed
<1>3. ASSUME NEW c \in Children, SnapshotAcquired(c)
      PROVE  TypeOK'
  <2>1. snapshotCounter > 0
    BY <1>3, Raised, LoudSets
  <2> QED
    BY <1>3, <2>1
    DEF SnapshotAcquired, SnapshotCounterDown, TypeOK, Places, Goto, shared, fixed
<1>4. ASSUME NEW c \in Children, CommitDone(c)
      PROVE  TypeOK'
  <2>1. siState[c] = "SI_SNAPSHOT_PREPARED" => commitCounter > 0
    BY <1>4, Raised, LoudSets
  <2> QED
    <3>1. /\ commitCounter' \in Nat
          /\ commitWaiting' \in SUBSET Children
          /\ siState' \in [Children -> {"SI_NO_SNAPSHOT", "SI_SNAPSHOT_PREPARED"}]
      <4>1. CASE siState[c] = "SI_SNAPSHOT_PREPARED"
        <5>1. /\ commitCounter' = commitCounter - 1
              /\ commitWaiting' \in {{}, commitWaiting}
              /\ siState' = [siState EXCEPT ![c] = "SI_NO_SNAPSHOT"]
          BY <1>4, <4>1 DEF CommitDone, StillWaiting
        <5> QED
          BY <2>1, <4>1, <5>1 DEF TypeOK
      <4>2. CASE siState[c] # "SI_SNAPSHOT_PREPARED"
        BY <1>4, <4>2 DEF CommitDone, TypeOK
      <4> QED
        BY <4>1, <4>2
    <3>2. at' \in [Children -> Places]
      BY <1>4 DEF CommitDone, TypeOK, Places, Goto
    <3>3. UNCHANGED <<snapshotCounter, snapshotWaiting, txn, have, seen, todo,
                      committed, losses, reuse>>
      BY <1>4 DEF CommitDone, fixed
    <3> QED
      BY <3>1, <3>2, <3>3 DEF TypeOK
<1>5. ASSUME NEW c \in Children, Lost(c)
      PROVE  TypeOK'
  <2>1. committed' \in [Nodes -> SUBSET Tx]
    BY <1>5 DEF Lost, Apply, Current, Tx, TypeOK
  <2> QED
    BY <1>5, <2>1 DEF Lost, TypeOK, Places, Goto, shared, fixed
<1> QED
  BY <1>1, <1>2, <1>3, <1>4, <1>5, StepKinds

\* The counters and the sets move together, except in a lost session.
LEMMA CountStep ==
  ASSUME TypeOK, Counted, Placed, Next
  PROVE  Counted'
<1> USE DEF Counted
<1>1. CASE Quiet
  BY <1>1, QuietSets
<1>2. ASSUME NEW c \in Children, AcquireSnapshot(c)
      PROVE  Counted'
  BY <1>2, LoudSets, CountedSets, OneMoreOneLess DEF AcquireSnapshot, TypeOK
<1>3. ASSUME NEW c \in Children, SnapshotAcquired(c)
      PROVE  Counted'
  <2>1. Cardinality(Snapshotting') = Cardinality(Snapshotting) - 1
    BY <1>3, LoudSets, CountedSets, OneMoreOneLess
  <2>2. Cardinality(Committing') = Cardinality(Committing)
    BY <1>3, LoudSets
  <2> QED
    BY <1>3, <2>1, <2>2, CountedSets
    DEF SnapshotAcquired, SnapshotCounterDown, TypeOK
<1>4. ASSUME NEW c \in Children, CommitRequest(c)
      PROVE  Counted'
  <2>1. Cardinality(Committing') = Cardinality(Committing) + 1
    BY <1>4, LoudSets, CountedSets, OneMoreOneLess
  <2>2. Cardinality(Snapshotting') = Cardinality(Snapshotting)
    BY <1>4, LoudSets
  <2> QED
    BY <1>4, <2>1, <2>2, CountedSets DEF CommitRequest, TypeOK
<1>5. ASSUME NEW c \in Children, CommitDone(c)
      PROVE  Counted'
  <2>1. CASE c \in Committing
    BY <1>5, <2>1, LoudSets, CountedSets, OneMoreOneLess DEF CommitDone, TypeOK
  <2>2. CASE c \notin Committing
    <3>1. Committing' = Committing
      BY <1>5, <2>2, LoudSets
    <3> QED
      BY <1>5, <2>2, <3>1, LoudSets DEF CommitDone
  <2> QED
    BY <2>1, <2>2
<1>6. ASSUME NEW c \in Children, Lost(c)
      PROVE  Counted'
  <2>1. /\ Cardinality(Snapshotting') <= Cardinality(Snapshotting)
        /\ Cardinality(Committing') <= Cardinality(Committing)
    BY <1>6, LoudSets, CountedSets, FS_Subset
  <2> QED
    BY <1>6, <2>1, CountedSets DEF Lost, shared, TypeOK
<1> QED
  BY <1>1, <1>2, <1>3, <1>4, <1>5, <1>6, StepKinds

\* The loops let a process through only when the other counter is zero, and
\* nothing else raises a counter.
LEMMA ApartStep ==
  ASSUME TypeOK, Counted, Apart, Placed, Next
  PROVE  Apart'
<1> USE DEF Apart
<1>1. CASE Quiet
  BY <1>1, QuietSets
<1>2. ASSUME NEW c \in Children, AcquireSnapshot(c) \/ CommitRequest(c)
      PROVE  Apart'
  BY <1>2 DEF AcquireSnapshot, AcquireGranted, CommitRequest, CommitGranted
<1>3. ASSUME NEW c \in Children, SnapshotAcquired(c)
      PROVE  Apart'
  <2>1. snapshotCounter > 0
    BY <1>3, Raised, LoudSets
  <2> QED
    BY <1>3, <2>1 DEF SnapshotAcquired, TypeOK
<1>4. ASSUME NEW c \in Children, CommitDone(c)
      PROVE  Apart'
  <2>1. siState[c] = "SI_SNAPSHOT_PREPARED" => commitCounter > 0
    BY <1>4, Raised, LoudSets
  <2> QED
    BY <1>4, <2>1 DEF CommitDone, TypeOK
<1>5. ASSUME NEW c \in Children, Lost(c)
      PROVE  Apart'
  BY <1>5 DEF Lost, shared
<1> QED
  BY <1>1, <1>2, <1>3, <1>4, <1>5, StepKinds

\* A list is empty when its counter comes to zero, and a child registers only
\* while the counter is raised.
LEMMA WaitersStep ==
  ASSUME TypeOK, Counted, Placed, WaitersWillBeWoken, Next
  PROVE  WaitersWillBeWoken'
<1> USE DEF WaitersWillBeWoken, TypeOK
<1>1. CASE Quiet
  <2>1. ASSUME NEW c \in Children, AcquireWaits(c) \/ CommitWaits(c)
        PROVE  WaitersWillBeWoken'
    BY <2>1 DEF AcquireWaits, CommitWaits
  <2>2. ASSUME NEW c \in Children,
               \/ Begin(c) \/ GetSnapshot(c) \/ Execute(c) \/ Commit(c)
               \/ ExecuteDone(c)
               \/ \E n \in Nodes : SnapshotAt(c, n) \/ ExecuteAt(c, n) \/ CommitAt(c, n)
        PROVE  WaitersWillBeWoken'
    <3>1. UNCHANGED shared
      BY <2>2, ZenonT(20) DEF Begin, GetSnapshot, Execute, Commit, ExecuteDone, SnapshotAt,
                  ExecuteAt, CommitAt
    <3> QED
      BY <3>1 DEF shared
  <2> QED
    BY <1>1, <2>1, <2>2 DEF Quiet
<1>2. ASSUME NEW c \in Children, AcquireSnapshot(c) \/ CommitRequest(c)
      PROVE  WaitersWillBeWoken'
  BY <1>2 DEF AcquireSnapshot, CommitRequest
<1>3. ASSUME NEW c \in Children, SnapshotAcquired(c)
      PROVE  WaitersWillBeWoken'
  <2>1. snapshotCounter > 0
    BY <1>3, Raised, LoudSets
  <2> QED
    BY <1>3, <2>1 DEF SnapshotAcquired, SnapshotCounterDown
<1>4. ASSUME NEW c \in Children, CommitDone(c)
      PROVE  WaitersWillBeWoken'
  <2>1. siState[c] = "SI_SNAPSHOT_PREPARED" => commitCounter > 0
    BY <1>4, Raised, LoudSets
  <2>2. CASE siState[c] = "SI_SNAPSHOT_PREPARED"
    <3>1. /\ commitCounter' = commitCounter - 1
          /\ commitWaiting' = IF commitCounter' = 0 THEN {} ELSE commitWaiting
          /\ UNCHANGED <<snapshotCounter, snapshotWaiting>>
      BY <1>4, <2>2 DEF CommitDone, StillWaiting
    <3> QED
      BY <2>1, <2>2, <3>1
  <2>3. CASE siState[c] # "SI_SNAPSHOT_PREPARED"
    BY <1>4, <2>3 DEF CommitDone
  <2> QED
    BY <2>2, <2>3
<1>5. ASSUME NEW c \in Children, Lost(c)
      PROVE  WaitersWillBeWoken'
  BY <1>5 DEF Lost, shared
<1> QED
  BY <1>1, <1>2, <1>3, <1>4, <1>5, StepKinds

\* Every step leaves a child in a place that fits its si_state.
LEMMA PlacedStep ==
  ASSUME TypeOK, Placed, Next
  PROVE  Placed'
<1> PICK c \in Children :
      Begin(c) \/ GetSnapshot(c) \/ Execute(c) \/ Commit(c) \/ Step(c) \/ Lost(c)
  BY DEF Next
<1> USE DEF Placed, TypeOK, Goto
<1>1. CASE Begin(c) \/ GetSnapshot(c) \/ Execute(c) \/ ExecuteDone(c)
  BY <1>1 DEF Begin, GetSnapshot, Execute, ExecuteDone
<1>2. CASE Commit(c)
  BY <1>2 DEF Commit
<1>3. CASE AcquireWaits(c) \/ CommitWaits(c)
  BY <1>3 DEF AcquireWaits, CommitWaits
<1>4. CASE AcquireSnapshot(c) \/ CommitRequest(c)
  BY <1>4 DEF AcquireSnapshot, CommitRequest
<1>5. CASE SnapshotAcquired(c)
  BY <1>5 DEF SnapshotAcquired
<1>6. CASE CommitDone(c)
  BY <1>6 DEF CommitDone
<1>7. CASE \E n \in Nodes : SnapshotAt(c, n) \/ ExecuteAt(c, n) \/ CommitAt(c, n)
  BY <1>7 DEF SnapshotAt, ExecuteAt, CommitAt
<1>8. CASE Lost(c)
  BY <1>8 DEF Lost
<1> QED
  BY <1>1, <1>2, <1>3, <1>4, <1>5, <1>6, <1>7, <1>8 DEF Step

\* The control is right when the shared memory is set up.
LEMMA ControlInit == Init => ControlInv
<1> SUFFICES ASSUME Init PROVE ControlInv
  OBVIOUS
<1>1. Snapshotting = {} /\ Committing = {}
  BY DEF Init, Snapshotting, Committing
<1>2. Counted
  BY <1>1, FS_EmptySet DEF Init, Counted
<1>3. TypeOK
  BY SIAssumption DEF Init, TypeOK, Places
<1> QED
  BY <1>2, <1>3 DEF Init, ControlInv, Apart, WaitersWillBeWoken, Placed

\* Every step keeps it right.
LEMMA ControlStep == ControlInv /\ [Next]_vars => ControlInv'
<1> SUFFICES ASSUME ControlInv, [Next]_vars PROVE ControlInv'
  OBVIOUS
<1>1. CASE Next
  BY <1>1, TypeStep, CountStep, ApartStep, WaitersStep, PlacedStep DEF ControlInv
<1>2. CASE UNCHANGED vars
  BY <1>2
  DEF ControlInv, TypeOK, Counted, Apart, WaitersWillBeWoken, Placed, vars, shared,
      fixed, Snapshotting, Committing
<1> QED
  BY <1>1, <1>2

\* The control of the counters holds in every reachable state.
THEOREM ControlInvariance == Spec => []ControlInv
  BY ControlInit, ControlStep, PTL DEF Spec

\* The counters of the control are never taken below zero, and every variable
\* keeps its type.
THEOREM SITypeCorrect == Spec => []TypeOK
<1>1. ControlInv => TypeOK
  BY DEF ControlInv
<1> QED
  BY <1>1, ControlInvariance, PTL

\* One counter is zero, and a process between its two calls raises its own.
LEMMA Exclusion == ControlInv => SnapshotsExcludeCommits
  BY Raised DEF ControlInv, Apart, TypeOK, SnapshotsExcludeCommits

\* No state, for any number of sessions, has one transaction between
\* si_acquire_snapshot and si_snapshot_acquired and another one between
\* si_commit_request and si_commit_done.
THEOREM ExclusionHolds == Spec => []SnapshotsExcludeCommits
  BY Exclusion, ControlInvariance, PTL

\* Every registered waiter has somebody left to wake it.
THEOREM WakeupsComing == Spec => []WaitersWillBeWoken
<1>1. ControlInv => WaitersWillBeWoken
  BY DEF ControlInv
<1> QED
  BY <1>1, ControlInvariance, PTL

-----------------------------------------------------------------------------
(* Transactions see the same state on all nodes                            *)

\* When every statement passes si_get_snapshot, a transaction has no snapshot
\* before it is allowed one, and commits only when it is counted.
Obedient ==
  \A c \in Children :
    /\ at[c] # "execute"
    /\ at[c] \in {"begun", "acquire"} /\ siState[c] = "SI_NO_SNAPSHOT" => have[c] = {}
    /\ at[c] = "commit" => siState[c] = "SI_SNAPSHOT_PREPARED"

\* The snapshots that are being taken are up to date.
Fresh ==
  \A c \in Snapshotting : \A n \in have[c] : seen[c][n] = committed[n]

\* A transaction in its commit is committed where the COMMIT was executed.
Applied ==
  \A c \in Committing : \A n \in Nodes \ todo[c] : Current(c) \in committed[n]

\* Unless a session was lost in its commit, what is committed on some node only
\* is on its way to the others.
Spread ==
  commitCounter = Cardinality(Committing) =>
    \A n, m \in Nodes : \A x \in committed[n] :
      \/ x \in committed[m]
      \/ \E c \in Committing : x = Current(c) /\ m \in todo[c]

VisibilityInv ==
  ~reuse => Obedient /\ Fresh /\ Applied /\ Spread /\ VisibilityConsistency

-----------------------------------------------------------------------------
\* Who commits keeps the snapshots of the others from being taken.
LEMMA CommitIsAlone ==
  ASSUME ControlInv, Obedient, NEW c \in Children, at[c] = "commit"
  PROVE  c \in Committing /\ Snapshotting = {}
  BY Exclusion DEF Obedient, Committing, SnapshotsExcludeCommits

\* A transaction neither reads nor commits outside the control.
LEMMA ObedientStep ==
  ASSUME TypeOK, Placed, ~reuse, Obedient, Next
  PROVE  Obedient'
<1> PICK c \in Children :
      Begin(c) \/ GetSnapshot(c) \/ Execute(c) \/ Commit(c) \/ Step(c) \/ Lost(c)
  BY DEF Next
<1> USE DEF Obedient, Placed, TypeOK, Goto
<1>1. CASE Begin(c)
  BY <1>1 DEF Begin
<1>2. CASE GetSnapshot(c) \/ Execute(c) \/ ExecuteDone(c)
  BY <1>2 DEF GetSnapshot, Execute, ExecuteDone
<1>3. CASE Commit(c)
  <2>1. Main \in Nodes
    BY SIAssumption DEF Nodes, Main
  <2> QED
    BY <1>3, <2>1 DEF Commit
<1>4. CASE AcquireWaits(c) \/ CommitWaits(c)
  BY <1>4 DEF AcquireWaits, CommitWaits
<1>5. CASE AcquireSnapshot(c) \/ CommitRequest(c)
  BY <1>5 DEF AcquireSnapshot, CommitRequest
<1>6. CASE SnapshotAcquired(c)
  BY <1>6 DEF SnapshotAcquired
<1>7. CASE CommitDone(c)
  BY <1>7 DEF CommitDone
<1>8. CASE \E n \in Nodes : SnapshotAt(c, n) \/ ExecuteAt(c, n) \/ CommitAt(c, n)
  BY <1>8 DEF SnapshotAt, ExecuteAt, CommitAt, TakeSnapshot
<1>9. CASE Lost(c)
  BY <1>9 DEF Lost
<1> QED
  BY <1>1, <1>2, <1>3, <1>4, <1>5, <1>6, <1>7, <1>8, <1>9, ZenonT(20) DEF Step

\* Nothing is committed while a snapshot is taken.
LEMMA FreshStep ==
  ASSUME ControlInv, ~reuse, Obedient, Fresh, Next
  PROVE  Fresh'
<1> PICK c \in Children :
      Begin(c) \/ GetSnapshot(c) \/ Execute(c) \/ Commit(c) \/ Step(c) \/ Lost(c)
  BY DEF Next
<1>0. TypeOK /\ Placed
  BY DEF ControlInv
<1>1. CASE Begin(c)
  BY <1>0, <1>1 DEF Begin, Fresh, Snapshotting, Goto, TypeOK
<1>2. CASE \/ GetSnapshot(c) \/ Execute(c) \/ ExecuteDone(c) \/ Commit(c)
           \/ AcquireWaits(c) \/ CommitWaits(c) \/ CommitRequest(c) \/ CommitDone(c)
           \/ SnapshotAcquired(c)
  <2>1. UNCHANGED <<have, seen, committed>> /\ Snapshotting' \subseteq Snapshotting
    <3>1. UNCHANGED <<have, seen, committed>>
      BY <1>2
      DEF GetSnapshot, Execute, ExecuteDone, Commit, AcquireWaits, CommitWaits,
          CommitRequest, CommitDone, SnapshotAcquired
    <3>2. CASE Quiet
      BY <1>0, <3>1, <3>2, QuietSets
    <3>3. CASE CommitRequest(c) \/ CommitDone(c) \/ SnapshotAcquired(c)
      BY <1>0, <3>1, <3>3, LoudSets
    <3> QED
      BY <1>2, <3>2, <3>3 DEF Quiet
  <2> QED
    BY <2>1 DEF Fresh
<1>3. CASE AcquireSnapshot(c)
  <2>1. have[c] = {} /\ Snapshotting' = Snapshotting \cup {c}
    BY <1>0, <1>3, LoudSets DEF AcquireSnapshot, Obedient, Placed
  <2> QED
    BY <1>3, <2>1 DEF AcquireSnapshot, Fresh
<1>4. CASE \E n \in Nodes : SnapshotAt(c, n)
  <2> PICK n \in Nodes : SnapshotAt(c, n)
    BY <1>4
  <2>1. /\ Snapshotting' = Snapshotting
        /\ UNCHANGED committed
        /\ have' = [have EXCEPT ![c] = @ \cup {n}]
        /\ seen' = [seen EXCEPT ![c] = [@ EXCEPT ![n] = committed[n]]]
    BY DEF SnapshotAt, TakeSnapshot, Snapshotting
  <2> SUFFICES ASSUME NEW d \in Snapshotting, NEW m \in have'[d]
               PROVE  seen'[d][m] = committed[m]
    BY <2>1 DEF Fresh
  <2>2. d \in Children /\ m \in Nodes
    BY <1>0, <2>1 DEF Snapshotting, TypeOK
  <2>3. CASE d = c /\ m = n
    BY <1>0, <2>1, <2>2, <2>3 DEF TypeOK
  <2>4. CASE ~(d = c /\ m = n)
    <3>1. m \in have[d] /\ seen'[d][m] = seen[d][m]
      BY <1>0, <2>1, <2>2, <2>4 DEF TypeOK
    <3> QED
      BY <3>1 DEF Fresh
  <2> QED
    BY <2>3, <2>4
<1>5. CASE \E n \in Nodes : ExecuteAt(c, n)
  BY <1>5 DEF ExecuteAt, Obedient
<1>6. CASE \E n \in Nodes : CommitAt(c, n)
  <2>1. Snapshotting = {}
    BY <1>6, CommitIsAlone DEF CommitAt
  <2>2. Snapshotting' = {}
    BY <1>6, <2>1 DEF CommitAt, Snapshotting
  <2> QED
    BY <2>2 DEF Fresh
<1>7. CASE Lost(c)
  <2>1. Snapshotting' \subseteq Snapshotting /\ UNCHANGED <<have, seen>>
    BY <1>0, <1>7, LoudSets, ZenonT(20) DEF Lost
  <2>2. CASE at[c] = "commit"
    BY <2>1, <2>2, CommitIsAlone DEF Fresh
  <2>3. CASE at[c] # "commit"
    <3>1. UNCHANGED committed
      BY <1>7, <2>3 DEF Lost
    <3> QED
      BY <2>1, <3>1 DEF Fresh
  <2> QED
    BY <2>2, <2>3
<1> QED
  BY <1>1, <1>2, <1>3, <1>4, <1>5, <1>6, <1>7 DEF Step

\* COMMIT is taken off a transaction's list on the node that executes it.
LEMMA AppliedStep ==
  ASSUME ControlInv, ~reuse, Obedient, Applied, Next
  PROVE  Applied'
<1> PICK c \in Children :
      Begin(c) \/ GetSnapshot(c) \/ Execute(c) \/ Commit(c) \/ Step(c) \/ Lost(c)
  BY DEF Next
<1>0. TypeOK /\ Placed
  BY DEF ControlInv
<1> USE DEF Applied, Current
<1>1. CASE Begin(c)
  BY <1>0, <1>1 DEF Begin, Committing, Goto, TypeOK
<1>2. CASE Commit(c)
  <2>1. Committing' = Committing /\ c \notin Committing
    BY <1>0, <1>2, QuietSets, ZenonT(20) DEF Quiet, Commit, Committing
  <2> QED
    BY <1>0, <1>2, <2>1 DEF Commit, Committing, TypeOK
<1>3. CASE \/ GetSnapshot(c) \/ Execute(c) \/ ExecuteDone(c) \/ AcquireWaits(c)
           \/ CommitWaits(c) \/ AcquireSnapshot(c) \/ SnapshotAcquired(c)
           \/ CommitDone(c) \/ \E n \in Nodes : SnapshotAt(c, n) \/ ExecuteAt(c, n)
  <2>1. UNCHANGED <<txn, todo, committed>>
    BY <1>3
    DEF GetSnapshot, Execute, ExecuteDone, AcquireWaits, CommitWaits,
        AcquireSnapshot, SnapshotAcquired, CommitDone, SnapshotAt, ExecuteAt
  <2>2. CASE Quiet
    BY <1>0, <2>1, <2>2, QuietSets
  <2>3. CASE AcquireSnapshot(c) \/ SnapshotAcquired(c) \/ CommitDone(c)
    BY <1>0, <2>1, <2>3, LoudSets
  <2> QED
    BY <1>3, <2>2, <2>3, ZenonT(20) DEF Quiet
<1>4. CASE CommitRequest(c)
  <2>1. todo[c] = Nodes
    BY <1>0, <1>4, ZenonT(20) DEF CommitRequest, Placed
  <2> QED
    BY <1>0, <1>4, <2>1, LoudSets, ZenonT(20) DEF CommitRequest
<1>5. CASE \E n \in Nodes : CommitAt(c, n)
  <2> PICK n \in Nodes : CommitAt(c, n)
    BY <1>5
  <2>1. Committing' = Committing /\ c \in Committing /\ Committing \subseteq Children
    BY <1>0, CommitIsAlone, QuietSets, ZenonT(20) DEF Quiet, CommitAt, Committing
  <2> SUFFICES ASSUME NEW d \in Committing, NEW m \in Nodes, m \notin todo'[d]
               PROVE  Current(d) \in committed'[m]
    BY <2>1, ZenonT(20) DEF CommitAt
  <2>2. CASE d = c /\ m = n
    BY <1>0, <2>2 DEF CommitAt, Apply, TypeOK
  <2>3. CASE ~(d = c /\ m = n)
    <3>1. m \notin todo[d]
      BY <1>0, <2>1, <2>3 DEF CommitAt, TypeOK
    <3> QED
      BY <1>0, <3>1 DEF CommitAt, Apply, TypeOK
  <2> QED
    BY <2>2, <2>3
<1>6. CASE Lost(c)
  <2>1. Committing' = Committing \ {c} /\ Committing \subseteq Children
    BY <1>0, <1>6, LoudSets, ZenonT(20) DEF Committing
  <2>2. \A n \in Nodes : committed[n] \subseteq committed'[n]
    BY <1>0, <1>6 DEF Lost, Apply, TypeOK
  <2>3. \A d \in Committing' : todo'[d] = todo[d] /\ txn' = txn
    BY <1>0, <1>6, <2>1 DEF Lost, TypeOK
  <2> QED
    BY <2>1, <2>2, <2>3
<1> QED
  BY <1>1, <1>2, <1>3, <1>4, <1>5, <1>6, ZenonT(20) DEF Step

\* A COMMIT that is executed on a node is missing on the nodes it has still to
\* reach; a session lost on the way leaves the counter above the set for good.
LEMMA SpreadStep ==
  ASSUME ControlInv, ~reuse, Obedient, Applied, Spread, Next
  PROVE  Spread'
<1> PICK c \in Children :
      Begin(c) \/ GetSnapshot(c) \/ Execute(c) \/ Commit(c) \/ Step(c) \/ Lost(c)
  BY DEF Next
<1>0. TypeOK /\ Placed /\ Counted /\ Committing \subseteq Children
  BY DEF ControlInv, Committing
<1> USE DEF Spread, Current
<1>1. CASE Begin(c) \/ Commit(c)
  <2>1. /\ Committing' = Committing /\ UNCHANGED <<commitCounter, committed>>
        /\ c \notin Committing
    BY <1>0, <1>1, QuietSets, ZenonT(20) DEF Quiet, Begin, Commit, Committing
  <2>2. \A d \in Committing : txn'[d] = txn[d] /\ todo'[d] = todo[d]
    BY <1>0, <1>1, <2>1 DEF Begin, Commit, TypeOK
  <2> SUFFICES ASSUME commitCounter = Cardinality(Committing),
                      NEW k \in Nodes, NEW m \in Nodes, NEW x \in committed[k],
                      x \notin committed[m]
               PROVE  \E d \in Committing : x = <<d, txn'[d]>> /\ m \in todo'[d]
    BY <2>1
  <2>3. PICK d \in Committing : x = <<d, txn[d]>> /\ m \in todo[d]
    OBVIOUS
  <2>4. txn'[d] = txn[d] /\ todo'[d] = todo[d]
    BY <2>2
  <2> QED
    BY <2>3, <2>4, ZenonT(20)
<1>2. CASE \/ GetSnapshot(c) \/ Execute(c) \/ ExecuteDone(c) \/ AcquireWaits(c)
           \/ CommitWaits(c) \/ AcquireSnapshot(c) \/ SnapshotAcquired(c)
           \/ \E n \in Nodes : SnapshotAt(c, n) \/ ExecuteAt(c, n)
  <2>1. UNCHANGED <<txn, todo, committed>>
    BY <1>2
    DEF GetSnapshot, Execute, ExecuteDone, AcquireWaits, CommitWaits,
        AcquireSnapshot, SnapshotAcquired, SnapshotAt, ExecuteAt
  <2>2. CASE Quiet
    BY <1>0, <2>1, <2>2, QuietSets
  <2>3. CASE AcquireSnapshot(c) \/ SnapshotAcquired(c)
    BY <1>0, <2>1, <2>3, LoudSets DEF AcquireSnapshot, SnapshotAcquired
  <2> QED
    BY <1>2, <2>2, <2>3, ZenonT(30) DEF Quiet
<1>3. CASE CommitRequest(c)
  <2>1. /\ Cardinality(Committing') = Cardinality(Committing) + 1
        /\ Committing \subseteq Committing'
    BY <1>0, <1>3, LoudSets, CountedSets, OneMoreOneLess, ZenonT(20)
  <2>2. commitCounter' = commitCounter + 1 /\ UNCHANGED <<txn, todo, committed>>
    BY <1>3 DEF CommitRequest
  <2>3. commitCounter' = Cardinality(Committing') =>
          commitCounter = Cardinality(Committing)
    <3>1. commitCounter \in Nat /\ Cardinality(Committing) \in Nat
      BY <1>0, CountedSets DEF TypeOK
    <3> QED
      BY <2>1, <2>2, <3>1
  <2> SUFFICES ASSUME commitCounter = Cardinality(Committing),
                      NEW k \in Nodes, NEW m \in Nodes, NEW x \in committed[k],
                      x \notin committed[m]
               PROVE  \E d \in Committing' : x = <<d, txn[d]>> /\ m \in todo[d]
    BY <2>2, <2>3
  <2>4. PICK d \in Committing : x = <<d, txn[d]>> /\ m \in todo[d]
    OBVIOUS
  <2> QED
    BY <2>1, <2>4, ZenonT(20)
<1>4. CASE CommitDone(c)
  <2>1. c \in Committing /\ todo[c] = {} /\ Committing' = Committing \ {c}
    <3>1. at[c] = "commit" /\ todo[c] = {}
      BY <1>4 DEF CommitDone, CommitFinished
    <3>2. Committing' = Committing \ {c}
      BY <1>0, <1>4, LoudSets
    <3> QED
      BY <3>1, <3>2, CommitIsAlone
  <2>2. Cardinality(Committing') = Cardinality(Committing) - 1
    BY <2>1, CountedSets, OneMoreOneLess
  <2>3. commitCounter' = commitCounter - 1 /\ UNCHANGED <<txn, todo, committed>>
    <3>1. siState[c] = "SI_SNAPSHOT_PREPARED"
      BY <2>1 DEF Committing
    <3> QED
      BY <1>4, <3>1 DEF CommitDone
  <2>4. commitCounter' = Cardinality(Committing') =>
          commitCounter = Cardinality(Committing)
    <3>1. commitCounter \in Nat /\ Cardinality(Committing) \in Nat
      BY <1>0, CountedSets DEF TypeOK
    <3> QED
      BY <2>2, <2>3, <3>1
  <2> QED
    BY <2>1, <2>3, <2>4
<1>5. CASE \E n \in Nodes : CommitAt(c, n)
  <2> PICK n \in Nodes : CommitAt(c, n)
    BY ZenonT(20), <1>5
  <2>1. /\ Committing' = Committing /\ c \in Committing
        /\ UNCHANGED <<commitCounter, txn>>
    BY <1>0, CommitIsAlone, QuietSets, ZenonT(20) DEF Quiet, CommitAt
  <2>2. /\ todo' = [todo EXCEPT ![c] = @ \ {n}]
        /\ committed'[n] = committed[n] \cup {Current(c)}
        /\ \A m \in Nodes \ {n} : committed'[m] = committed[m]
    BY DEF CommitAt, Apply
  <2> SUFFICES ASSUME commitCounter = Cardinality(Committing),
                      NEW k \in Nodes, NEW m \in Nodes, NEW x \in committed'[k],
                      x \notin committed'[m]
               PROVE  \E d \in Committing : x = Current(d) /\ m \in todo'[d]
    BY <2>1
  <2>3. CASE x = Current(c)
    <3>1. m # n /\ x \notin committed[m]
      BY ZenonT(20), <2>2, <2>3
    <3>2. m \in todo[c]
      BY <2>1, <2>3, <3>1, ZenonT(20) DEF Applied
    <3> QED
      BY <1>0, <2>1, <2>2, <2>3, <3>1, <3>2 DEF TypeOK
  <2>4. CASE x # Current(c)
    <3>1. x \in committed[k] /\ x \notin committed[m]
      BY <2>2, <2>4
    <3>2. PICK d \in Committing : x = Current(d) /\ m \in todo[d]
      BY <3>1
    <3>3. d # c /\ todo'[d] = todo[d]
      BY ZenonT(20), <1>0, <2>2, <2>4, <3>2 DEF TypeOK
    <3> QED
      BY <3>2, <3>3
  <2> QED
    BY <2>3, <2>4
<1>6. CASE Lost(c)
  <2>1. Committing' = Committing \ {c} /\ UNCHANGED <<commitCounter, txn>>
    BY <1>0, <1>6, LoudSets, ZenonT(20) DEF Lost, shared
  <2>2. CASE c \in Committing
    <3>1. Cardinality(Committing') = Cardinality(Committing) - 1
      BY <2>1, <2>2, CountedSets, OneMoreOneLess
    <3>2. commitCounter' # Cardinality(Committing')
      <4>1. commitCounter \in Nat /\ Cardinality(Committing) \in Nat
        BY <1>0, CountedSets DEF TypeOK
      <4>2. commitCounter >= Cardinality(Committing)
        BY <1>0 DEF Counted
      <4> QED
        BY <2>1, <3>1, <4>1, <4>2
    <3> QED
      BY <3>2
  <2>3. CASE c \notin Committing
    <3>1. UNCHANGED committed /\ Committing' = Committing
      BY <1>6, <2>1, <2>3, CommitIsAlone DEF Lost
    <3>2. \A d \in Committing : todo'[d] = todo[d]
      BY <1>0, <1>6, <2>3 DEF Lost, TypeOK
    <3> QED
      BY <2>1, <3>1, <3>2, ZenonT(20)
  <2> QED
    BY ZenonT(20), <2>2, <2>3
<1> QED
  BY <1>1, <1>2, <1>3, <1>4, <1>5, <1>6, ZenonT(20) DEF Step

\* While a snapshot is taken the nodes agree.
LEMMA NodesAgree ==
  ASSUME ControlInv, Spread, Snapshotting # {}
  PROVE  \A n, m \in Nodes : committed[n] = committed[m]
<1>1. commitCounter = 0 /\ Committing = {}
  BY Raised, Exclusion DEF ControlInv, Apart, TypeOK, SnapshotsExcludeCommits
<1>2. commitCounter = Cardinality(Committing)
  BY <1>1, FS_EmptySet
<1>3. \A n, m \in Nodes : \A x \in committed[n] : x \in committed[m]
  BY <1>1, <1>2 DEF Spread
<1> QED
  BY ZenonT(20), <1>3

\* A snapshot that becomes prepared was taken while the nodes agreed.
LEMMA VisibilityStep ==
  ASSUME ControlInv, ~reuse, Obedient, Fresh, Spread, VisibilityConsistency, Next
  PROVE  VisibilityConsistency'
<1> PICK c \in Children :
      Begin(c) \/ GetSnapshot(c) \/ Execute(c) \/ Commit(c) \/ Step(c) \/ Lost(c)
  BY DEF Next
<1>0. TypeOK /\ Placed
  BY DEF ControlInv
<1> USE DEF VisibilityConsistency
<1>1. CASE \/ GetSnapshot(c) \/ Execute(c) \/ ExecuteDone(c) \/ Commit(c)
           \/ AcquireWaits(c) \/ CommitWaits(c) \/ AcquireSnapshot(c)
           \/ CommitRequest(c) \/ \E n \in Nodes : CommitAt(c, n)
  <2>1. UNCHANGED <<siState, seen>>
    BY <1>1, ZenonT(20)
    DEF GetSnapshot, Execute, ExecuteDone, Commit, AcquireWaits, CommitWaits,
        AcquireSnapshot, CommitRequest, CommitAt
  <2> QED
    BY ZenonT(20), <2>1
<1>2. CASE CommitDone(c) \/ Lost(c)
  <2>1. /\ UNCHANGED seen
        /\ \A d \in Children : siState'[d] \in {siState[d], "SI_NO_SNAPSHOT"}
    BY <1>0, <1>2 DEF CommitDone, Lost, TypeOK
  <2> QED
    BY <2>1
<1>3. CASE Begin(c) \/ \E n \in Nodes : SnapshotAt(c, n)
  <2>1. siState[c] = "SI_NO_SNAPSHOT" /\ UNCHANGED siState
    BY <1>0, <1>3, ZenonT(20) DEF Begin, SnapshotAt, Placed
  <2>2. \A d \in Children \ {c} : seen'[d] = seen[d]
    BY ZenonT(20), <1>0, <1>3 DEF Begin, SnapshotAt, TakeSnapshot, TypeOK
  <2>3. ASSUME NEW d \in Children, siState'[d] = "SI_SNAPSHOT_PREPARED"
        PROVE  \A n, m \in Nodes : seen'[d][n] = seen'[d][m]
    <3>1. siState[d] = "SI_SNAPSHOT_PREPARED"
      BY <2>1, <2>3, ZenonT(20)
    <3>2. d # c
      BY <2>1, <3>1
    <3>3. seen'[d] = seen[d]
      BY <2>2, <3>2
    <3>4. \A n, m \in Nodes : seen[d][n] = seen[d][m]
      BY <3>1
    <3> QED
      BY <3>3, <3>4, ZenonT(20)
  <2> QED
    BY <2>3, ZenonT(20)
<1>4. CASE SnapshotAcquired(c)
  <2>1. /\ c \in Snapshotting /\ have[c] = Nodes /\ UNCHANGED seen
        /\ \A d \in Children \ {c} : siState'[d] = siState[d]
    BY <1>0, <1>4 DEF SnapshotAcquired, Snapshotting, TypeOK
  <2>2. \A n \in Nodes : seen[c][n] = committed[n]
    BY <2>1, ZenonT(20) DEF Fresh
  <2>3. \A n, m \in Nodes : seen[c][n] = seen[c][m]
    BY <2>1, <2>2, NodesAgree
  <2>4. ASSUME NEW d \in Children \ {c}, siState'[d] = "SI_SNAPSHOT_PREPARED"
        PROVE  \A n, m \in Nodes : seen[d][n] = seen[d][m]
    <3>1. siState[d] = "SI_SNAPSHOT_PREPARED"
      BY <2>1, <2>4
    <3> QED
      BY <3>1
  <2>5. seen' = seen
    BY <2>1
  <2>6. ASSUME NEW d \in Children, siState'[d] = "SI_SNAPSHOT_PREPARED"
        PROVE  \A n, m \in Nodes : seen'[d][n] = seen'[d][m]
    <3>1. CASE d = c
      BY <2>3, <2>5, <3>1
    <3>2. CASE d # c
      BY <2>4, <2>5, <2>6, <3>2
    <3> QED
      BY <3>1, <3>2
  <2> QED
    BY <2>6
<1>5. CASE \E n \in Nodes : ExecuteAt(c, n)
  BY ZenonT(20), <1>5 DEF ExecuteAt, Obedient
<1> QED
  BY <1>1, <1>2, <1>3, <1>4, <1>5, ZenonT(20) DEF Step

\* How the clients use their statements is fixed.
LEMMA ReuseFixed ==
  ASSUME Next
  PROVE  reuse' = reuse
  BY ZenonT(20) DEF Next, Step, Begin, GetSnapshot, Execute, Commit, AcquireWaits,
         AcquireSnapshot, SnapshotAcquired, CommitWaits, CommitRequest, CommitDone,
         ExecuteDone, SnapshotAt, ExecuteAt, CommitAt, Lost, fixed

\* Nothing is committed, seen or under way at the start.
LEMMA VisibilityInit == Init => VisibilityInv
<1> SUFFICES ASSUME Init PROVE VisibilityInv
  OBVIOUS
<1>1. Snapshotting = {} /\ Committing = {}
  BY DEF Init, Snapshotting, Committing
<1>2. Obedient /\ VisibilityConsistency
  BY DEF Init, Obedient, VisibilityConsistency
<1>3. Fresh /\ Applied /\ Spread
  BY <1>1 DEF Init, Fresh, Applied, Spread
<1> QED
  BY <1>2, <1>3 DEF VisibilityInv

\* Every step keeps the argument about the snapshots.
LEMMA VisibilityInvStep ==
  ControlInv /\ VisibilityInv /\ [Next]_vars => VisibilityInv'
<1> SUFFICES ASSUME ControlInv, VisibilityInv, [Next]_vars, ~reuse'
             PROVE  /\ Obedient' /\ Fresh' /\ Applied' /\ Spread'
                    /\ VisibilityConsistency'
  BY DEF VisibilityInv
<1>1. CASE Next
  <2>1. ~reuse /\ Obedient /\ Fresh /\ Applied /\ Spread /\ VisibilityConsistency
    BY <1>1, ReuseFixed DEF VisibilityInv
  <2>2. TypeOK /\ Placed
    BY DEF ControlInv
  <2> QED
    BY <1>1, <2>1, <2>2, ObedientStep, FreshStep, AppliedStep, SpreadStep,
       VisibilityStep
<1>2. CASE UNCHANGED vars
  BY <1>2
  DEF VisibilityInv, Obedient, Fresh, Applied, Spread, VisibilityConsistency,
      Snapshotting, Committing, Current, vars, shared, fixed
<1> QED
  BY <1>1, <1>2

\* For any number of sessions and nodes, and whatever sessions are lost: when
\* every statement passes si_get_snapshot, every transaction whose snapshot is
\* prepared sees the same committed transactions on all nodes.
THEOREM SnapshotsAreConsistent == Spec => []ConsistentSnapshots
<1>1. Init => ControlInv /\ VisibilityInv
  BY ControlInit, VisibilityInit
<1>2. (ControlInv /\ VisibilityInv) /\ [Next]_vars => (ControlInv /\ VisibilityInv)'
  BY ControlStep, VisibilityInvStep
<1>3. VisibilityInv => ConsistentSnapshots
  BY DEF VisibilityInv, ConsistentSnapshots
<1> QED
  BY <1>1, <1>2, <1>3, PTL DEF Spec
=============================================================================
