---------------------- MODULE FailoverConsensusProofs ----------------------
(***************************************************************************)
(* Proofs about FailoverConsensus and MajorityRule for any number of       *)
(* nodes, any timing and any number of faults.                             *)
(***************************************************************************)
EXTENDS FailoverConsensus, FiniteSetTheorems, SequenceTheorems, TLAPS

\* The provers a step is tried with, and the seconds each may take
USE ZenonT(2), SMTT(20), ZenonT(20)

Places == {"idle", "resumes", "asks", "syncs", "quarantines"}
HealthStates ==
  {Asking} \cup [at : {"sleep", "connects"}, left : 0 .. Period + RetryTime + ConnectTime]
Objects == [by : SUBSET Nodes, count : 0 .. MinimumVotes(Remotes, HalfVotes) - 1,
            age : 0 .. FailoverTimeout]

\* The types, with the records and sequences as wholes
Typed ==
  /\ leader \in Nodes \cup {None} /\ demoted \in Nodes \cup {None}
  /\ standbys \in SUBSET Nodes
  /\ object \in Objects
  /\ dead \in [Nodes -> BOOLEAN]
  /\ backend \in [Nodes -> {Up, Down, Quarantined}]
  /\ health \in [Nodes -> HealthStates]
  /\ main \in [Nodes -> Places]
  /\ signals \in [Nodes -> SUBSET {"quorum", "inform", "sync"}]
  /\ requests \in [Nodes -> Seq(AnyRequest)]
  /\ \A n \in Nodes : Len(requests[n]) <= QueueSize
  /\ faults \in 0 .. MaxFaults
  /\ lost \in BOOLEAN
  /\ asked \in SUBSET Nodes

\* Standbys have a leader, and only members of the group wait for the
\* watchdog; a quarantine that is being entered finds the backend down.
Together ==
  /\ leader \notin standbys
  /\ leader = None => standbys = {}
  /\ \A n \in Nodes :
       /\ health[n].at = "asks" \/ main[n] = "asks" => n \in Group
       /\ main[n] = "syncs" => n \in standbys
       /\ main[n] = "quarantines" => backend[n] # Up /\ requests[n] # <<>>

\* A request of this kind waits at node n.
Has(n, kind) == \E i \in DOMAIN requests[n] : requests[n][i] = kind

\* Node n asks for the failover, or has the backend in quarantine or on the
\* way there.
Involved(n) ==
  \/ health[n].at = "asks" \/ main[n] \in {"asks", "quarantines"}
  \/ backend[n] = Quarantined
  \/ Has(n, "quarantine")

\* Whoever votes or is in quarantine has asked for the failover.
Honest == \A n \in Nodes : Involved(n) => n \in asked

\* The votes come from different nodes that have asked.
Votes == object.by \subseteq asked /\ object.count <= Cardinality(object.by)

ConsensusInv == Typed /\ Together
MajorityInv == ConsensusInv /\ Honest /\ Votes /\ FailoverNeedsMajority

-----------------------------------------------------------------------------
(* The arithmetic of MajorityRule                                          *)

\* get_minimum_votes_to_resolve_consensus asks for more than half of the
\* nodes, or for exactly half of them when half of the votes is enough.
LEMMA MinimumVotesBound ==
  ASSUME NEW remotes \in Nat, NEW half \in BOOLEAN
  PROVE  /\ MinimumVotes(remotes, half) \in Nat \ {0}
         /\ MinimumVotes(remotes, half) <= remotes + 1
         /\ ~half => 2 * MinimumVotes(remotes, half) > remotes + 1
         /\ 2 * MinimumVotes(remotes, half) >= remotes + 1
  BY DEF MinimumVotes, MinimumRemoteNodes

\* A leader holds the quorum (get_quorum_status) just when it and its standbys
\* are as many as the votes of a consensus.
THEOREM QuorumCanVote ==
  ASSUME NEW remotes \in Nat, NEW standbyCount \in Nat, NEW half \in BOOLEAN
  PROVE  QuorumStatus(standbyCount, remotes, half) >= 0 <=>
           standbyCount + 1 >= MinimumVotes(remotes, half)
  <1>1. MinimumRemoteNodes(remotes) \in Nat
    BY DEF MinimumRemoteNodes
  <1>2. CASE remotes % 2 = 0
    BY <1>1, <1>2 DEF QuorumStatus, MinimumVotes
  <1>3. CASE remotes % 2 # 0
    BY <1>1, <1>3 DEF QuorumStatus, MinimumVotes
  <1> QED BY <1>2, <1>3

\* Without half votes two separate groups of a cluster never both hold the
\* quorum (get_quorum_status), so never both vote a failover.
THEOREM OneGroupHasQuorum ==
  ASSUME NEW remotes \in Nat, NEW a \in Nat, NEW b \in Nat,
         (a + 1) + (b + 1) <= remotes + 1
  PROVE  ~(QuorumStatus(a, remotes, FALSE) >= 0 /\ QuorumStatus(b, remotes, FALSE) >= 0)
  <1> DEFINE votes == MinimumVotes(remotes, FALSE)
  <1>1. votes \in Nat /\ 2 * votes > remotes + 1
    BY MinimumVotesBound, ZenonT(20)
  <1>2. QuorumStatus(a, remotes, FALSE) >= 0 => a + 1 >= votes
    BY QuorumCanVote, ZenonT(20)
  <1>3. QuorumStatus(b, remotes, FALSE) >= 0 => b + 1 >= votes
    BY QuorumCanVote, ZenonT(20)
  <1> HIDE DEF votes
  <1>4. ~(a + 1 >= votes /\ b + 1 >= votes)
    BY <1>1
  <1> QED BY <1>2, <1>3, <1>4, ZenonT(20)

\* The votes needed are a natural number in a cluster that has a node.
LEMMA VotesNeeded ==
  ASSUME Nodes # {}
  PROVE  Remotes \in Nat /\ MinimumVotes(Remotes, HalfVotes) \in Nat \ {0}
  <1>1. Cardinality(Nodes) \in Nat \ {0}
    BY FS_CardinalityType, FS_EmptySet, ConsensusAssumption
  <1>2. Remotes \in Nat
    BY <1>1 DEF Remotes
  <1> QED BY <1>2, MinimumVotesBound, ConsensusAssumption

-----------------------------------------------------------------------------
(* Requests                                                                *)

\* register_node_operation_request keeps the queue within its size and adds
\* no other request.
LEMMA Registered ==
  ASSUME Typed, NEW n \in Nodes, NEW kind \in AnyRequest, Register(n, kind)
  PROVE  /\ requests' \in [Nodes -> Seq(AnyRequest)]
         /\ \A m \in Nodes : Len(requests'[m]) <= QueueSize
         /\ \A m \in Nodes : \A k : Has(m, k)' => Has(m, k) \/ (m = n /\ k = kind)
         /\ \A m \in Nodes : requests[m] # <<>> => requests'[m] # <<>>
  <1>1. requests[n] \in Seq(AnyRequest) /\ QueueSize \in Nat
    BY ConsensusAssumption DEF Typed
  <1> DEFINE new == IF Len(requests[n]) < QueueSize THEN Append(requests[n], kind)
                                                    ELSE requests[n]
  <1>2. /\ new \in Seq(AnyRequest) /\ Len(new) <= QueueSize
        /\ requests[n] # <<>> => new # <<>>
        /\ \A i \in DOMAIN new : \/ i \in DOMAIN requests[n] /\ new[i] = requests[n][i]
                                \/ new[i] = kind
    BY <1>1 DEF Typed
  <1>3. requests' = [requests EXCEPT ![n] = new]
    BY DEF Register
  <1> HIDE DEF new
  <1> QED BY <1>2, <1>3 DEF Typed, Has

\* The end of a request removes it and adds none.
LEMMA Removed ==
  ASSUME Typed, NEW n \in Nodes, requests[n] # <<>>,
         requests' = [requests EXCEPT ![n] = Tail(@)]
  PROVE  /\ requests' \in [Nodes -> Seq(AnyRequest)]
         /\ \A m \in Nodes : Len(requests'[m]) <= QueueSize
         /\ \A m \in Nodes : \A k : Has(m, k)' => Has(m, k)
         /\ Has(n, Head(requests[n])) /\ Head(requests[n]) \in AnyRequest
  <1>1. requests[n] \in Seq(AnyRequest) /\ QueueSize \in Nat
    BY ConsensusAssumption DEF Typed
  <1> DEFINE new == Tail(requests[n])
  <1>2. /\ new \in Seq(AnyRequest) /\ Len(new) <= QueueSize
        /\ \A i \in DOMAIN new : i + 1 \in DOMAIN requests[n] /\ new[i] = requests[n][i + 1]
        /\ 1 \in DOMAIN requests[n] /\ Head(requests[n]) = requests[n][1]
    BY <1>1 DEF Typed
  <1>3. requests' = [requests EXCEPT ![n] = new]
    OBVIOUS
  <1> HIDE DEF new
  <1> QED BY <1>1, <1>2, <1>3 DEF Typed, Has

-----------------------------------------------------------------------------
(* Every step keeps the types and the shape of the group.                  *)

\* Signal adds one of the reasons to the slots of some nodes.
LEMMA Signalled ==
  ASSUME Typed, NEW S, NEW reason \in {"quorum", "inform", "sync"}, Signal(S, reason)
  PROVE  signals' \in [Nodes -> SUBSET {"quorum", "inform", "sync"}]
  BY DEF Typed, Signal

\* The three states of a backend are different.
LEMMA BackendStates == Up # Down /\ Up # Quarantined /\ Down # Quarantined
  BY DEF Up, Down, Quarantined

\* handle_failover_request stores the status and the flag of a quarantine one
\* after the other.
LEMMA QuarantineStates ==
  /\ [Up EXCEPT !.status = "down"] = Down
  /\ [Down EXCEPT !.quarantine = TRUE] = Quarantined
  /\ [Quarantined EXCEPT !.status = "down"] = Quarantined
  /\ [Quarantined EXCEPT !.quarantine = TRUE] = Quarantined
  <1> DEFINE S == [status : {"up", "down"}, quarantine : BOOLEAN]
  <1>1. Up \in S /\ Down \in S /\ Quarantined \in S
    BY DEF Up, Down, Quarantined
  <1>2. \A r, t \in S : r.status = t.status /\ r.quarantine = t.quarantine => r = t
    OBVIOUS
  <1>3. \A r \in S : /\ [r EXCEPT !.status = "down"] \in S
                     /\ [r EXCEPT !.status = "down"].status = "down"
                     /\ [r EXCEPT !.status = "down"].quarantine = r.quarantine
    OBVIOUS
  <1>4. \A r \in S : /\ [r EXCEPT !.quarantine = TRUE] \in S
                     /\ [r EXCEPT !.quarantine = TRUE].status = r.status
                     /\ [r EXCEPT !.quarantine = TRUE].quarantine = TRUE
    BY ZenonT(20)
  <1>5. /\ Up.quarantine = Down.quarantine
        /\ Down.status = "down" /\ Down.quarantine = FALSE
        /\ Quarantined.status = "down" /\ Quarantined.quarantine = TRUE
    BY DEF Up, Down, Quarantined
  <1> HIDE DEF S
  <1>6. [Up EXCEPT !.status = "down"] = Down
    <2>1. [Up EXCEPT !.status = "down"].quarantine = Down.quarantine
      BY <1>1, <1>3, <1>5, ZenonT(20)
    <2>2. [Up EXCEPT !.status = "down"].status = Down.status
      BY <1>1, <1>3, <1>5, ZenonT(20)
    <2>3. [Up EXCEPT !.status = "down"] \in S
      BY <1>1, <1>3, ZenonT(20)
    <2> QED BY <1>1, <1>2, <2>1, <2>2, <2>3, ZenonT(20)
  <1>7. [Down EXCEPT !.quarantine = TRUE] = Quarantined
    BY <1>1, <1>2, <1>4, <1>5, ZenonT(20)
  <1>8. [Quarantined EXCEPT !.status = "down"] = Quarantined
    BY <1>1, <1>2, <1>3, <1>5, ZenonT(20)
  <1>9. [Quarantined EXCEPT !.quarantine = TRUE] = Quarantined
    BY <1>1, <1>2, <1>4, <1>5, ZenonT(20)
  <1> QED BY <1>6, <1>7, <1>8, <1>9

\* The bounds of the health check are natural numbers.
LEMMA Timing ==
  /\ {Period, RetryTime, ConnectTime, FailoverTimeout} \subseteq Nat
  /\ Waiting(Period) \in HealthStates /\ Waiting(0) \in HealthStates
  /\ Asking \in HealthStates
  /\ [at |-> "connects", left |-> RetryTime + ConnectTime] \in HealthStates
  BY ConsensusAssumption DEF FailoverTimeout, HealthStates, Waiting, Asking

\* compute_failover_consensus leaves an object that has not enough votes yet.
LEMMA RecordTyped ==
  ASSUME Typed, NEW n \in Nodes, RecordRequest(n)
  PROVE  object' \in Objects
  <1>1. MinimumVotes(Remotes, HalfVotes) \in Nat \ {0}
    BY VotesNeeded
  <1> DEFINE votes == MinimumVotes(Remotes, HalfVotes)
  <1>2. object \in [by : SUBSET Nodes, count : 0 .. votes - 1, age : 0 .. FailoverTimeout]
    BY DEF Typed, Objects
  <1>3. FailoverTimeout \in Nat
    BY Timing
  <1>4. \/ object' = object \/ object' = NoObject
        \/ object' = Recorded(n) /\ ~Enough(Recorded(n))
    BY DEF RecordRequest
  <1> HIDE DEF votes
  <1>5. NoObject \in [by : SUBSET Nodes, count : 0 .. votes - 1, age : 0 .. FailoverTimeout]
    BY <1>1, <1>3 DEF NoObject, votes
  <1>6. ASSUME ~Enough(Recorded(n))
        PROVE  Recorded(n) \in [by : SUBSET Nodes, count : 0 .. votes - 1,
                                 age : 0 .. FailoverTimeout]
    <2>1. ~(Recorded(n).count >= votes)
      BY <1>6 DEF Enough, votes
    <2>2. CASE Recorded(n) = object
      BY <1>2, <2>2
    <2>3. CASE Recorded(n) = [object EXCEPT !.by = @ \cup {n}, !.count = @ + 1]
      <3>1. Recorded(n) = [by |-> object.by \cup {n}, count |-> object.count + 1,
                           age |-> object.age]
        BY <1>2, <2>3, ZenonT(20)
      <3>2. object.count + 1 \in 0 .. votes - 1
        BY <1>1, <1>2, <2>1, <3>1 DEF votes
      <3> QED BY <1>2, <3>1, <3>2
    <2> QED BY <2>2, <2>3 DEF Recorded
  <1> QED BY <1>2, <1>4, <1>5, <1>6 DEF Objects, votes

\* process_failover_command_on_coordinator registers requests and signals.
LEMMA CommandTyped ==
  ASSUME ConsensusInv, NEW n \in Nodes, n \in Group, NEW q \in BOOLEAN,
         ProcessFailoverCommand(n, q)
  PROVE  /\ object' \in Objects
         /\ requests' \in [Nodes -> Seq(AnyRequest)]
         /\ \A m \in Nodes : Len(requests'[m]) <= QueueSize
         /\ \A m \in Nodes : requests[m] # <<>> => requests'[m] # <<>>
         /\ signals' \in [Nodes -> SUBSET {"quorum", "inform", "sync"}]
  <1>1. object' \in Objects
    BY RecordTyped DEF ConsensusInv, ProcessFailoverCommand
  <1>2. leader \in Nodes
    BY DEF ConsensusInv, Typed, Together, Group
  <1>3. \/ UNCHANGED requests \/ Register(leader, "down") \/ Register(n, "quarantine")
    BY DEF ProcessFailoverCommand
  <1>4. UNCHANGED signals \/ \E S : Signal(S, "inform")
    BY DEF ProcessFailoverCommand
  <1>5. /\ requests' \in [Nodes -> Seq(AnyRequest)]
        /\ \A m \in Nodes : Len(requests'[m]) <= QueueSize
        /\ \A m \in Nodes : requests[m] # <<>> => requests'[m] # <<>>
    BY <1>2, <1>3, Registered DEF ConsensusInv, Typed, AnyRequest
  <1>6. signals' \in [Nodes -> SUBSET {"quorum", "inform", "sync"}]
    BY <1>4, Signalled DEF ConsensusInv, Typed
  <1> QED BY <1>1, <1>5, <1>6

\* A request to the watchdog of the leader, of a health check or of a main
\* process.
LEMMA WatchdogTyped ==
  ASSUME ConsensusInv, NEW n \in Nodes, Watchdog(n)
  PROVE  ConsensusInv'
  <1>1. n \in Group
    BY ZenonT(20) DEF Watchdog, HealthRequest, RepeatedRequest, ConsensusInv, Together
  <1>2. \E q \in BOOLEAN : ProcessFailoverCommand(n, q)
    BY ZenonT(20) DEF Watchdog, HealthRequest, RepeatedRequest
  <1>3. UNCHANGED <<cluster, dead, backend, trouble, asked>>
    BY <1>2 DEF ProcessFailoverCommand
  <1>4. health' \in [Nodes -> HealthStates] /\ main' \in [Nodes -> Places]
    BY Timing, ZenonT(20) DEF Watchdog, HealthRequest, RepeatedRequest, ConsensusInv, Typed,
                  Places, Resume
  <1>5. Typed'
    BY <1>1, <1>2, <1>3, <1>4, CommandTyped DEF ConsensusInv, Typed, cluster, trouble
  <1>6. \A m \in Nodes : /\ health'[m].at = "asks" => health[m].at = "asks"
                         /\ main'[m] \in {"asks", "syncs", "quarantines"} => main'[m] = main[m]
    BY ZenonT(20) DEF Watchdog, HealthRequest, RepeatedRequest, ConsensusInv, Typed, Resume, Waiting
  <1>7. Together'
    BY <1>1, <1>2, <1>3, <1>6, CommandTyped DEF ConsensusInv, Together, Group, cluster
  <1> QED BY <1>5, <1>7 DEF ConsensusInv

\* The rounds of the health check.
LEMMA HealthCheckTyped ==
  ASSUME ConsensusInv, NEW n \in Nodes, HealthCheck(n)
  PROVE  ConsensusInv'
  <1>1. UNCHANGED <<cluster, object, dead, backend, main, signals, trouble>>
    BY DEF HealthCheck, StartCheck, EndCheck
  <1>2. asked' \in SUBSET Nodes
    BY DEF HealthCheck, StartCheck, EndCheck, CheckSucceeded, ConsensusInv, Typed
  <1>3. UNCHANGED requests \/ Register(n, "up")
    BY DEF HealthCheck, StartCheck, EndCheck, CheckSucceeded
  <1>4. /\ requests' \in [Nodes -> Seq(AnyRequest)]
        /\ \A m \in Nodes : Len(requests'[m]) <= QueueSize
        /\ \A m \in Nodes : requests[m] # <<>> => requests'[m] # <<>>
    BY <1>3, Registered DEF ConsensusInv, Typed, AnyRequest
  <1>5. \E h \in HealthStates : /\ health' = [health EXCEPT ![n] = h]
                                /\ h.at = "asks" => n \in Group
    BY Timing DEF HealthCheck, StartCheck, EndCheck, CheckSucceeded, Waiting, Asking
  <1>6. health' \in [Nodes -> HealthStates]
    BY <1>5 DEF ConsensusInv, Typed
  <1>7. Typed'
    BY <1>1, <1>2, <1>4, <1>6 DEF ConsensusInv, Typed, cluster, trouble
  <1>8. Together'
    BY <1>1, <1>4, <1>5 DEF ConsensusInv, Typed, Together, Group, cluster
  <1> QED BY <1>7, <1>8 DEF ConsensusInv

\* The signals of the main process: quorum, quarantine and synchronisation.
LEMMA ServeTyped ==
  ASSUME ConsensusInv, NEW n \in Nodes,
         QuorumChanged(n) \/ InformQuarantine(n) \/ StartSync(n)
  PROVE  ConsensusInv'
  <1>1. UNCHANGED <<cluster, object, dead, backend, health, trouble, asked>>
    BY DEF QuorumChanged, InformQuarantine, StartSync
  <1>2. signals' \in [Nodes -> SUBSET {"quorum", "inform", "sync"}]
    <2>1. PICK reason : signals' = [signals EXCEPT ![n] = @ \ {reason}]
      BY DEF QuorumChanged, InformQuarantine, StartSync, Serve
    <2>2. signals[n] \ {reason} \in SUBSET {"quorum", "inform", "sync"}
      BY DEF ConsensusInv, Typed
    <2> QED BY <2>1, <2>2 DEF ConsensusInv, Typed
  <1>3. UNCHANGED requests \/ Register(n, "up")
    BY DEF QuorumChanged, InformQuarantine, StartSync
  <1>4. /\ requests' \in [Nodes -> Seq(AnyRequest)]
        /\ \A m \in Nodes : Len(requests'[m]) <= QueueSize
        /\ \A m \in Nodes : requests[m] # <<>> => requests'[m] # <<>>
    BY <1>3, Registered DEF ConsensusInv, Typed, AnyRequest
  <1>5. \E p \in Places : /\ main' = [main EXCEPT ![n] = p]
                          /\ p = "asks" => n \in Group
                          /\ p = "syncs" => n \in standbys
                          /\ p # "quarantines"
    <2>1. CASE QuorumChanged(n)
      BY <2>1 DEF QuorumChanged, Serve, ConsensusInv, Typed, Places
    <2>2. CASE InformQuarantine(n)
      BY <2>2, ZenonT(20) DEF InformQuarantine, Serve, ConsensusInv, Typed, Places, Resume
    <2>3. CASE StartSync(n)
      BY <2>3, ZenonT(20) DEF StartSync, Serve, ConsensusInv, Typed, Places
    <2> QED BY <2>1, <2>2, <2>3
  <1>6. Typed'
    BY <1>1, <1>2, <1>4, <1>5 DEF ConsensusInv, Typed, cluster, trouble
  <1>7. Together'
    BY <1>1, <1>4, <1>5 DEF ConsensusInv, Typed, Together, Group, cluster
  <1> QED BY <1>6, <1>7 DEF ConsensusInv

\* sync_backend_from_watchdog, and the first half of a quarantine.
LEMMA StatusTyped ==
  ASSUME ConsensusInv, NEW n \in Nodes, FinishSync(n) \/ StartQuarantine(n)
  PROVE  ConsensusInv'
  <1>1. UNCHANGED <<cluster, object, dead, health, signals, requests, trouble, asked>>
    BY DEF FinishSync, StartQuarantine
  <1>2. \E p \in Places, b \in {Up, Down, Quarantined} :
          /\ main' = [main EXCEPT ![n] = p] /\ p \in {"idle", "quarantines"}
          /\ backend' = [backend EXCEPT ![n] = b]
          /\ p = "quarantines" => b # Up /\ requests[n] # <<>>
    <2>1. CASE FinishSync(n)
      <3>1. leader \in Nodes
        BY <2>1 DEF FinishSync, ConsensusInv, Typed, Together
      <3>2. SentStatus(backend[leader]) \in {Up, Down, Quarantined}
        BY <3>1 DEF ConsensusInv, Typed, SentStatus
      <3> QED BY <2>1, <3>2, ZenonT(20) DEF FinishSync, Places
    <2>2. CASE StartQuarantine(n)
      <3>1. backend[n] \in {Up, Quarantined}
        BY <2>2 DEF StartQuarantine, Refused, ConsensusInv, Typed
      <3>2. [backend[n] EXCEPT !.status = "down"] \in {Down, Quarantined}
        BY <3>1, QuarantineStates
      <3> QED BY <2>2, <3>2, BackendStates, ZenonT(20) DEF StartQuarantine, Free, Places
    <2> QED BY <2>1, <2>2
  <1>3. Typed'
    BY <1>1, <1>2 DEF ConsensusInv, Typed, cluster, trouble
  <1>4. Together'
    BY <1>1, <1>2 DEF ConsensusInv, Typed, Together, Group, cluster
  <1> QED BY <1>3, <1>4 DEF ConsensusInv

\* The end of a request: refused, performed, or the second half of a
\* quarantine.
LEMMA FinishTyped ==
  ASSUME ConsensusInv, NEW n \in Nodes,
         RefuseRequest(n) \/ PerformRequest(n) \/ FinishQuarantine(n)
  PROVE  ConsensusInv'
  <1>1. Finish(n)
    BY DEF RefuseRequest, PerformRequest, FinishQuarantine
  <1>2. UNCHANGED <<cluster, object, dead, health, trouble, asked>>
    BY <1>1 DEF Finish
  <1>3. UNCHANGED signals \/ \E S : Signal(S, "sync")
    BY DEF RefuseRequest, PerformRequest, FinishQuarantine
  <1>4. signals' \in [Nodes -> SUBSET {"quorum", "inform", "sync"}]
    BY <1>3, Signalled DEF ConsensusInv, Typed
  <1>a. requests[n] # <<>>
    BY DEF RefuseRequest, PerformRequest, FinishQuarantine, Free, ConsensusInv, Together
  <1>5. /\ requests' \in [Nodes -> Seq(AnyRequest)]
        /\ \A m \in Nodes : Len(requests'[m]) <= QueueSize
        /\ \A m \in Nodes \ {n} : requests'[m] = requests[m]
    BY <1>1, <1>a, Removed, ZenonT(20) DEF ConsensusInv, Finish, Typed
  <1>6. /\ main' = [main EXCEPT ![n] = "idle"]
        /\ \E b \in {Up, Down, Quarantined} : backend' = [backend EXCEPT ![n] = b]
    <2>1. CASE RefuseRequest(n)
      BY <1>1, <2>1 DEF RefuseRequest, Finish, ConsensusInv, Typed
    <2>2. CASE PerformRequest(n)
      BY <1>1, <2>2, ZenonT(20) DEF PerformRequest, Finish
    <2>3. CASE FinishQuarantine(n)
      <3>1. backend[n] \in {Down, Quarantined}
        BY <2>3 DEF FinishQuarantine, ConsensusInv, Typed, Together
      <3>2. [backend[n] EXCEPT !.quarantine = TRUE] = Quarantined
        BY <3>1, QuarantineStates
      <3> QED BY <1>1, <2>3, <3>2, ZenonT(20) DEF FinishQuarantine, Finish
    <2> QED BY <2>1, <2>2, <2>3
  <1>7. Typed'
    BY <1>2, <1>4, <1>5, <1>6 DEF ConsensusInv, Typed, Places, cluster, trouble
  <1>8. Together'
    BY <1>2, <1>5, <1>6 DEF ConsensusInv, Typed, Together, Group, cluster
  <1> QED BY <1>7, <1>8 DEF ConsensusInv

\* The end of the requests that wait for a watchdog.
LEMMA Cancelled ==
  ASSUME ConsensusInv, NEW S \in SUBSET Nodes, Cancel(S)
  PROVE  /\ health' \in [Nodes -> HealthStates] /\ main' \in [Nodes -> Places]
         /\ \A m \in Nodes :
              /\ health'[m].at = "asks" => m \notin S /\ health[m].at = "asks"
              /\ main'[m] \in {"asks", "syncs"} => m \notin S /\ main'[m] = main[m]
              /\ main'[m] = "quarantines" => main[m] = "quarantines"
  <1>1. \A m \in Nodes : health[m] \in HealthStates /\ main[m] \in Places
    BY DEF ConsensusInv, Typed
  <1>2. \A h \in HealthStates : h.at = "asks" => h = Asking
    BY DEF HealthStates
  <1>3. \A m \in Nodes : /\ Resume(m) \in Places
                         /\ Resume(m) \notin {"asks", "syncs", "quarantines"}
    BY DEF Resume, Places
  <1>4. Waiting(Period) \in HealthStates /\ Waiting(Period).at # "asks"
    BY Timing DEF Waiting
  <1>5. \A m \in Nodes : health'[m] = IF m \in S /\ health[m] = Asking
                                      THEN Waiting(Period) ELSE health[m]
    BY DEF Cancel
  <1>6. \A m \in Nodes : main'[m] = IF m \in S /\ main[m] \in {"asks", "syncs"}
                                    THEN Resume(m) ELSE main[m]
    BY DEF Cancel
  <1>7. health' \in [Nodes -> HealthStates]
    BY <1>1, <1>4 DEF Cancel
  <1>8. main' \in [Nodes -> Places]
    BY <1>1, <1>3 DEF Cancel
  <1>9. \A m \in Nodes : health'[m].at = "asks" => m \notin S /\ health[m].at = "asks"
    BY <1>1, <1>2, <1>4, <1>5
  <1>10. \A m \in Nodes :
           /\ main'[m] \in {"asks", "syncs"} => m \notin S /\ main'[m] = main[m]
           /\ main'[m] = "quarantines" => main[m] = "quarantines"
    BY <1>1, <1>3, <1>6
  <1> QED BY <1>7, <1>8, <1>9, <1>10

\* An empty failover object is well formed.
LEMMA NoObjectTyped ==
  ASSUME Nodes # {}
  PROVE  NoObject \in Objects
  BY VotesNeeded, Timing DEF NoObject, Objects

\* The leader resigns or is lost.
LEMMA LeaveCoordinatorTyped ==
  ASSUME ConsensusInv, leader # None, LeaveCoordinator,
         demoted' \in Nodes \cup {None}, faults' \in 0 .. MaxFaults, lost' \in BOOLEAN,
         UNCHANGED <<dead, backend, signals, requests, asked>>
  PROVE  ConsensusInv'
  <1>1. /\ health' \in [Nodes -> HealthStates] /\ main' \in [Nodes -> Places]
        /\ \A m \in Nodes :
              /\ health'[m].at # "asks" /\ main'[m] \notin {"asks", "syncs"}
              /\ main'[m] = "quarantines" => main[m] = "quarantines"
    BY Cancelled DEF LeaveCoordinator
  <1>2. object' \in Objects
    BY NoObjectTyped DEF LeaveCoordinator, ConsensusInv, Typed
  <1>3. Typed'
    BY <1>1, <1>2 DEF LeaveCoordinator, ConsensusInv, Typed
  <1>4. Together'
    BY <1>1, ConsensusAssumption DEF LeaveCoordinator, ConsensusInv, Together
  <1> QED BY <1>3, <1>4 DEF ConsensusInv

\* service_expired_failovers, and the loss of the leader.
LEMMA LeaderTyped ==
  ASSUME ConsensusInv, ExpireFailover \/ LeaderLost
  PROVE  ConsensusInv'
  <1>1. leader \in Nodes /\ leader # None
    BY DEF ExpireFailover, LeaderLost, ConsensusInv, Typed
  <1>2. faults' \in 0 .. MaxFaults /\ lost' \in BOOLEAN
    <2>1. faults \in 0 .. MaxFaults /\ lost \in BOOLEAN /\ MaxFaults \in Nat
      BY ConsensusAssumption DEF ConsensusInv, Typed
    <2>2. CASE ExpireFailover
      BY <2>1, <2>2 DEF ExpireFailover, trouble
    <2>3. CASE LeaderLost
      BY <2>1, <2>3 DEF LeaderLost, Loss, Fault
    <2> QED BY <2>2, <2>3
  <1>3. CASE LeaveCoordinator
    <2>1. demoted' \in Nodes \cup {None}
      BY <1>1 DEF ExpireFailover, LeaderLost, cluster, ConsensusInv, Typed
    <2>2. UNCHANGED <<dead, backend, signals, requests, asked>>
      BY DEF ExpireFailover, LeaderLost
    <2> QED BY <1>1, <1>2, <1>3, <2>1, <2>2, LeaveCoordinatorTyped
  <1>4. CASE ~LeaveCoordinator
    <2>1. /\ object' = NoObject
          /\ UNCHANGED <<cluster, health, main, dead, backend, signals, requests, asked>>
      BY <1>4 DEF ExpireFailover, LeaderLost
    <2>2. Typed'
      BY <1>1, <1>2, <2>1, NoObjectTyped DEF ConsensusInv, Typed, cluster
    <2>3. Together'
      BY <2>1 DEF ConsensusInv, Together, Group, cluster
    <2> QED BY <2>2, <2>3 DEF ConsensusInv
  <1> QED BY <1>3, <1>4

\* A node becomes leader, joins or leaves, or its connection changes.
LEMMA GroupTyped ==
  ASSUME ConsensusInv, NEW n \in Nodes,
         Elect(n) \/ Join(n) \/ Leave(n) \/ ConnectionChanges(n)
  PROVE  ConsensusInv'
  <1> USE DEF ConsensusInv
  <1>1. CASE Elect(n)
    <2>1. Typed'
      BY <1>1 DEF Elect, Typed, trouble
    <2>2. Together'
      BY <1>1, ConsensusAssumption DEF Elect, Typed, Together, Group
    <2> QED BY <2>1, <2>2
  <1>2. CASE Join(n)
    <2>1. signals' \in [Nodes -> SUBSET {"quorum", "inform", "sync"}]
      BY <1>2 DEF Join, GroupSignals, Typed
    <2>2. Typed'
      BY <1>2, <2>1 DEF Join, Typed, trouble
    <2>3. Together'
      BY <1>2 DEF Join, Typed, Together, Group
    <2> QED BY <2>2, <2>3
  <1>3. CASE Leave(n)
    <2>1. signals' \in [Nodes -> SUBSET {"quorum", "inform", "sync"}]
      BY <1>3 DEF Leave, GroupSignals, Typed
    <2>2. /\ health' \in [Nodes -> HealthStates] /\ main' \in [Nodes -> Places]
          /\ \A m \in Nodes :
              /\ health'[m].at = "asks" => m # n /\ health[m].at = "asks"
              /\ main'[m] \in {"asks", "syncs"} => m # n /\ main'[m] = main[m]
              /\ main'[m] = "quarantines" => main[m] = "quarantines"
      BY <1>3, Cancelled DEF Leave
    <2>3. faults' \in 0 .. MaxFaults /\ lost' \in BOOLEAN
      BY <1>3, ConsensusAssumption DEF Leave, Loss, Fault, Typed
    <2>4. Typed'
      BY <1>3, <2>1, <2>2, <2>3 DEF Leave, Typed
    <2>5. Together'
      BY <1>3, <2>2 DEF Leave, Typed, Together, Group
    <2> QED BY <2>4, <2>5
  <1>4. CASE ConnectionChanges(n)
    <2>1. dead' \in [Nodes -> BOOLEAN]
      BY <1>4, ZenonT(20) DEF ConnectionChanges, Typed
    <2>2. faults' \in 0 .. MaxFaults
      BY <1>4, ConsensusAssumption DEF ConnectionChanges, Fault, Typed
    <2>3. Typed'
      BY <1>4, <2>1, <2>2 DEF ConnectionChanges, Typed, cluster
    <2>4. Together'
      BY <1>4, ZenonT(20) DEF ConnectionChanges, Together, Group, cluster
    <2> QED BY <2>3, <2>4
  <1> QED BY <1>1, <1>2, <1>3, <1>4

\* The clock: the health checks and the failover object age.
LEMMA TickTyped ==
  ASSUME ConsensusInv, Tick
  PROVE  ConsensusInv'
  <1>1. UNCHANGED <<cluster, dead, backend, main, signals, requests, trouble, asked>>
    BY DEF Tick
  <1>2. \A m \in Nodes :
          health[m] \in [at : {"sleep", "connects"},
                         left : 0 .. Period + RetryTime + ConnectTime]
    BY DEF Tick, Busy, ConsensusInv, Typed, HealthStates, Asking
  <1>3. \A h \in [at : {"sleep", "connects"},
                   left : 0 .. Period + RetryTime + ConnectTime] :
          h.left > 0 => [h EXCEPT !.left = @ - 1]
                           \in [at : {"sleep", "connects"},
                               left : 0 .. Period + RetryTime + ConnectTime]
    BY Timing
  <1>4. /\ health' \in [Nodes -> HealthStates]
        /\ \A m \in Nodes : health'[m].at # "asks"
    <2> DEFINE H == [at : {"sleep", "connects"},
                     left : 0 .. Period + RetryTime + ConnectTime]
    <2>1. \A h \in H : h \in HealthStates /\ h.at # "asks"
      BY DEF HealthStates
    <2> HIDE DEF H
    <2>2. health' \in [Nodes -> H]
      BY <1>2, <1>3 DEF Tick, H
    <2> QED BY <2>1, <2>2
  <1>5. object' \in Objects
    <2>1. object \in Objects /\ FailoverTimeout \in Nat
      BY Timing DEF ConsensusInv, Typed
    <2>2. CASE object.count > 0
      <3>1. object.age \in 0 .. FailoverTimeout /\ ~(object.age >= FailoverTimeout)
        BY <2>1, <2>2 DEF Tick, Expired, Objects
      <3>2. object.age + 1 \in 0 .. FailoverTimeout
        BY <2>1, <3>1
      <3>3. object' = [object EXCEPT !.age = object.age + 1]
        BY <2>2 DEF Tick
      <3> QED BY <2>1, <3>2, <3>3 DEF Objects
    <2>3. CASE ~(object.count > 0)
      BY <2>1, <2>3 DEF Tick
    <2> QED BY <2>2, <2>3
  <1>6. Typed'
    BY <1>1, <1>4, <1>5 DEF ConsensusInv, Typed, cluster, trouble
  <1>7. Together'
    BY <1>1, <1>4, ZenonT(20) DEF ConsensusInv, Together, Group, cluster
  <1> QED BY <1>6, <1>7 DEF ConsensusInv

\* ConsensusInv holds of every behaviour.
LEMMA ConsensusInvariant == Spec => []ConsensusInv
  <1>1. Init => ConsensusInv
    <2> SUFFICES ASSUME Init PROVE ConsensusInv
      OBVIOUS
    <2>1. NoObject \in Objects /\ FirstLeader \in Nodes /\ FirstLeader # None
      BY NoObjectTyped, ConsensusAssumption
    <2>2. \A n \in Nodes : requests[n] = <<>>
      BY DEF Init
    <2>3. requests \in [Nodes -> Seq(AnyRequest)] /\ \A n \in Nodes : Len(requests[n]) <= QueueSize
      <3>1. <<>> \in Seq(AnyRequest) /\ Len(<<>>) = 0 /\ 0 <= QueueSize
        BY ConsensusAssumption
      <3> QED BY <2>2, <3>1 DEF Init
    <2>4. health \in [Nodes -> HealthStates] /\ \A n \in Nodes : health[n].at # "asks"
      BY Timing DEF Init, Waiting
    <2>5. Typed
      <3>1. faults \in 0 .. MaxFaults
        BY ConsensusAssumption DEF Init
      <3>2. signals \in [Nodes -> SUBSET {"quorum", "inform", "sync"}]
        BY DEF Init
      <3> QED BY <2>1, <2>3, <2>4, <3>1, <3>2, ZenonT(20) DEF Init, Typed, Places
    <2>6. Together
      BY <2>1, <2>4 DEF Init, Together
    <2> QED BY <2>5, <2>6 DEF ConsensusInv
  <1>2. ConsensusInv /\ [Next]_vars => ConsensusInv'
    <2> SUFFICES ASSUME ConsensusInv, [Next]_vars PROVE ConsensusInv'
      OBVIOUS
    <2>1. CASE UNCHANGED vars
      BY <2>1 DEF vars, cluster, trouble, ConsensusInv, Typed, Together, Group
    <2>2. ASSUME NEW n \in Nodes, Main(n) PROVE ConsensusInv'
      BY <2>2, ServeTyped, StatusTyped, FinishTyped DEF Main
    <2>3. CASE Next
      BY <2>2, <2>3, HealthCheckTyped, WatchdogTyped, GroupTyped, LeaderTyped, TickTyped
         DEF Next
    <2> QED BY <2>1, <2>3
  <1> QED BY <1>1, <1>2, PTL DEF Spec

\* The state of FailoverConsensus keeps its types in every cluster, with every
\* timing and every setting: the votes recorded for a failover stay below the
\* number that decides it, the object never outlives its timeout, and the
\* queue of requests never exceeds its size.
THEOREM TypeCorrect == Spec => []TypeOK
  <1>1. ConsensusInv => TypeOK
    <2> SUFFICES ASSUME ConsensusInv PROVE TypeOK
      OBVIOUS
    <2>1. \A n \in Nodes : /\ health[n].at \in {"sleep", "connects", "asks"}
                           /\ health[n].left \in 0 .. Period + RetryTime + ConnectTime
      <3>1. /\ Asking.at = "asks" /\ Asking.left = 0
            /\ 0 \in 0 .. Period + RetryTime + ConnectTime
        BY Timing DEF Asking
      <3> QED BY <3>1 DEF ConsensusInv, Typed, HealthStates
    <2>2. \A n \in Nodes : /\ Len(requests[n]) <= QueueSize
                           /\ \A i \in DOMAIN requests[n] : requests[n][i] \in AnyRequest
      BY DEF ConsensusInv, Typed
    <2>3. standbys \subseteq Nodes \ {leader}
      BY DEF ConsensusInv, Typed, Together
    <2> QED BY <2>1, <2>2, <2>3 DEF ConsensusInv, Typed, TypeOK, Objects, Places
  <1> QED BY <1>1, ConsensusInvariant, PTL

-----------------------------------------------------------------------------
(* A failover needs a majority.                                            *)

\* What a step may do that records no vote: the nodes that have asked stay,
\* nobody gets involved who has not asked, no failover is requested.
LEMMA NoVote ==
  ASSUME MajorityInv, asked \subseteq asked', asked' \subseteq Nodes,
         \A n \in Nodes : Involved(n)' => Involved(n) \/ n \in asked',
         \A n \in Nodes : Has(n, "down")' => Has(n, "down"),
         \/ object' = NoObject
         \/ object'.by = object.by /\ object'.count = object.count
  PROVE  (Honest /\ Votes /\ FailoverNeedsMajority)'
  <1>1. Honest'
    BY DEF MajorityInv, Honest
  <1>2. Votes'
    BY FS_EmptySet DEF MajorityInv, Votes, NoObject
  <1>3. /\ Cardinality(asked) \in Nat /\ Cardinality(asked') \in Nat
        /\ Cardinality(asked) <= Cardinality(asked')
    BY ConsensusAssumption, FS_Subset, FS_CardinalityType
  <1>4. FailoverNeedsMajority'
    <2>1. MinimumVotes(Remotes, HalfVotes) \in Nat
      BY VotesNeeded, ConsensusAssumption
    <2>2. \A n \in Nodes : Has(n, "down") => Cardinality(asked) >= MinimumVotes(Remotes, HalfVotes)
      BY DEF MajorityInv, FailoverNeedsMajority, Has
    <2>3. \A n \in Nodes : Has(n, "down")' => Cardinality(asked') >= MinimumVotes(Remotes, HalfVotes)
      BY <1>3, <2>1, <2>2
    <2> QED BY <2>3 DEF FailoverNeedsMajority, Has
  <1> QED BY <1>1, <1>2, <1>4

\* A request that has not been registered is not there.
LEMMA OnlyRegistered ==
  ASSUME Typed, NEW n \in Nodes, NEW kind \in AnyRequest,
         Register(n, kind) \/ UNCHANGED requests
  PROVE  \A m \in Nodes : \A k : k # kind \/ m # n => (Has(m, k)' => Has(m, k))
  <1>1. CASE Register(n, kind)
    BY <1>1, Registered
  <1>2. CASE UNCHANGED requests
    BY <1>2 DEF Has
  <1> QED BY <1>1, <1>2

\* compute_failover_consensus counts a node once and decides with enough votes.
LEMMA WatchdogVotes ==
  ASSUME MajorityInv, RequireConsensus, ~AllowMultiple, NEW n \in Nodes, Watchdog(n)
  PROVE  (Honest /\ Votes /\ FailoverNeedsMajority)'
  <1>1. n \in asked
    BY ZenonT(20) DEF Watchdog, HealthRequest, RepeatedRequest, MajorityInv, Honest, Involved
  <1>2. PICK q \in BOOLEAN : ProcessFailoverCommand(n, q)
    BY ZenonT(20) DEF Watchdog, HealthRequest, RepeatedRequest
  <1>3. asked' = asked /\ backend' = backend
    BY <1>2 DEF ProcessFailoverCommand
  <1>4. /\ leader \in Nodes /\ ConsensusInv /\ Typed
        /\ Votes /\ asked \in SUBSET Nodes
    BY ZenonT(20) DEF Watchdog, HealthRequest, RepeatedRequest, MajorityInv, ConsensusInv, Typed,
           Together, Group
  <1>5. IsFiniteSet(asked) /\ Cardinality(asked) \in Nat
    BY <1>4, ConsensusAssumption, FS_Subset, FS_CardinalityType
  <1>6. /\ Recorded(n).by \subseteq asked
        /\ Recorded(n).count <= Cardinality(Recorded(n).by)
        /\ Recorded(n).count <= Cardinality(asked)
        /\ Recorded(n).count \in Nat
    <2>1. /\ object.by \subseteq asked /\ object.count <= Cardinality(object.by)
          /\ IsFiniteSet(object.by) /\ Cardinality(object.by) \in Nat
          /\ object.count \in Nat /\ object \in Objects
      BY <1>4, <1>5, FS_Subset, FS_CardinalityType, VotesNeeded DEF Votes, Typed, Objects
    <2>2. CASE n \in object.by
      <3>1. Recorded(n) = object
        BY <2>2 DEF Recorded
      <3> QED BY <1>5, <2>1, <3>1, FS_Subset
    <2>3. CASE n \notin object.by
      <3>1. Recorded(n).by = object.by \cup {n} /\ Recorded(n).count = object.count + 1
        BY <2>1, <2>3 DEF Recorded, Objects
      <3>2. Cardinality(object.by \cup {n}) = Cardinality(object.by) + 1
        BY <2>1, <2>3, FS_AddElement, ZenonT(20)
      <3>3. /\ object.by \cup {n} \subseteq asked
            /\ Cardinality(object.by \cup {n}) <= Cardinality(asked)
        BY <1>1, <1>5, <2>1, FS_Subset
      <3> QED BY <1>5, <2>1, <3>1, <3>2, <3>3
    <2> QED BY <2>2, <2>3
  <1>7. Votes'
    <2>1. object' = object \/ object' = NoObject \/ object' = Recorded(n)
      BY <1>2 DEF ProcessFailoverCommand, RecordRequest
    <2> QED BY <1>3, <1>4, <1>6, <2>1, FS_EmptySet DEF Votes, NoObject
  <1>8. \/ UNCHANGED requests
        \/ Register(leader, "down") /\ Enough(Recorded(n))
        \/ Register(n, "quarantine")
    BY <1>2 DEF ProcessFailoverCommand, Result
  <1>9. \A m \in Nodes :
           /\ Has(m, "quarantine")' => Has(m, "quarantine") \/ m = n
           /\ Has(m, "down")' => Has(m, "down") \/ Enough(Recorded(n))
    BY <1>4, <1>8, OnlyRegistered DEF AnyRequest
  <1>10. \A m \in Nodes :
           /\ health'[m].at = "asks" => health[m].at = "asks"
           /\ main'[m] \in {"asks", "quarantines"} => main[m] \in {"asks", "quarantines"}
    BY <1>4, ZenonT(20) DEF Watchdog, HealthRequest, RepeatedRequest, Typed, Resume, Waiting
  <1>11. Honest'
    BY <1>1, <1>3, <1>9, <1>10 DEF MajorityInv, Honest, Involved
  <1>12. FailoverNeedsMajority'
    <2>1. MinimumVotes(Remotes, HalfVotes) \in Nat
      BY VotesNeeded, ConsensusAssumption
    <2>2. Enough(Recorded(n)) => Cardinality(asked) >= MinimumVotes(Remotes, HalfVotes)
      BY <1>5, <1>6, <2>1 DEF Enough
    <2>3. \A m \in Nodes : Has(m, "down") => Cardinality(asked) >= MinimumVotes(Remotes, HalfVotes)
      BY DEF MajorityInv, FailoverNeedsMajority, Has
    <2> QED BY <1>3, <1>9, <2>2, <2>3 DEF FailoverNeedsMajority, Has
  <1> QED BY <1>7, <1>11, <1>12

\* A round of the health check: only a failure asks.
LEMMA HealthCheckVotes ==
  ASSUME MajorityInv, NEW n \in Nodes, HealthCheck(n)
  PROVE  (Honest /\ Votes /\ FailoverNeedsMajority)'
  <1>1. UNCHANGED <<object, backend, main>>
    BY DEF HealthCheck, StartCheck, EndCheck
  <1>2. asked \subseteq asked' /\ asked' \subseteq Nodes
    BY DEF HealthCheck, StartCheck, EndCheck, CheckSucceeded, MajorityInv, ConsensusInv, Typed
  <1>3. UNCHANGED requests \/ Register(n, "up")
    BY DEF HealthCheck, StartCheck, EndCheck, CheckSucceeded
  <1>4. \A m \in Nodes : \A k \in {"down", "quarantine"} : Has(m, k)' => Has(m, k)
    BY <1>3, OnlyRegistered DEF MajorityInv, ConsensusInv, AnyRequest
  <1>5. \A m \in Nodes : health'[m].at = "asks" => health[m].at = "asks" \/ m \in asked'
    <2>1. PICK h : health' = [health EXCEPT ![n] = h] /\ (h.at = "asks" => n \in asked')
      BY DEF HealthCheck, StartCheck, EndCheck, CheckSucceeded, Waiting
    <2> QED BY <2>1 DEF MajorityInv, ConsensusInv, Typed
  <1>6. \A m \in Nodes : Involved(m)' => Involved(m) \/ m \in asked'
    BY <1>1, <1>4, <1>5 DEF Involved
  <1> QED BY <1>1, <1>2, <1>4, <1>6, NoVote

\* The main process: it votes and quarantines only what has been asked for.
LEMMA MainVotes ==
  ASSUME MajorityInv, NEW n \in Nodes, Main(n)
  PROVE  (Honest /\ Votes /\ FailoverNeedsMajority)'
  <1>1. UNCHANGED <<object, health, asked>> /\ asked \subseteq Nodes
    BY DEF Main, QuorumChanged, InformQuarantine, StartSync, FinishSync, RefuseRequest,
           PerformRequest, StartQuarantine, FinishQuarantine, Finish,
           MajorityInv, ConsensusInv, Typed
  <1>2. \A m \in Nodes : \A k \in {"down", "quarantine"} : Has(m, k)' => Has(m, k)
    <2>1. CASE QuorumChanged(n) \/ InformQuarantine(n) \/ StartSync(n) \/ FinishSync(n)
               \/ StartQuarantine(n)
      <3>1. UNCHANGED requests \/ Register(n, "up")
        BY <2>1 DEF QuorumChanged, InformQuarantine, StartSync, FinishSync, StartQuarantine
      <3> QED BY <3>1, OnlyRegistered DEF MajorityInv, ConsensusInv, AnyRequest
    <2>2. CASE RefuseRequest(n) \/ PerformRequest(n) \/ FinishQuarantine(n)
      <3>1. Finish(n) /\ requests[n] # <<>>
        BY <2>2 DEF RefuseRequest, PerformRequest, FinishQuarantine, Free, MajorityInv,
                    ConsensusInv, Together
      <3> QED BY <3>1, Removed, ZenonT(20) DEF Finish, MajorityInv, ConsensusInv
    <2> QED BY <2>1, <2>2 DEF Main
  <1>3. \A m \in Nodes : m # n => main'[m] = main[m] /\ backend'[m] = backend[m]
    BY DEF Main, QuorumChanged, InformQuarantine, StartSync, FinishSync, RefuseRequest,
           PerformRequest, StartQuarantine, FinishQuarantine, Finish, Serve,
           MajorityInv, ConsensusInv, Typed
  <1>4. main'[n] \in {"asks", "quarantines"} \/ backend'[n] = Quarantined => Involved(n)
    <2> USE DEF MajorityInv, ConsensusInv, Typed
    <2>1. CASE QuorumChanged(n)
      BY <2>1 DEF QuorumChanged, Involved
    <2>2. CASE InformQuarantine(n)
      BY <2>2 DEF InformQuarantine, Resume, Involved
    <2>3. CASE StartSync(n)
      BY <2>3 DEF StartSync, Involved
    <2>4. CASE FinishSync(n)
      <3>1. leader \in Nodes
        BY <2>4 DEF FinishSync, Together
      <3>2. main'[n] = "idle" /\ backend'[n] = SentStatus(backend[leader])
        BY <2>4 DEF FinishSync
      <3> QED BY <3>2, BackendStates DEF SentStatus
    <2>5. CASE RefuseRequest(n)
      BY <2>5 DEF RefuseRequest, Finish, Involved
    <2>6. CASE PerformRequest(n)
      BY <2>6, BackendStates DEF PerformRequest, Finish
    <2>7. CASE StartQuarantine(n)
      <3>1. 1 \in DOMAIN requests[n] /\ requests[n][1] = "quarantine"
        BY <2>7 DEF StartQuarantine, Free, Kind
      <3> QED BY <3>1 DEF Involved, Has
    <2>8. CASE FinishQuarantine(n)
      BY <2>8 DEF FinishQuarantine, Involved
    <2> QED BY <2>1, <2>2, <2>3, <2>4, <2>5, <2>6, <2>7, <2>8, ZenonT(20) DEF Main
  <1>5. \A m \in Nodes : Involved(m)' => Involved(m)
    BY <1>1, <1>2, <1>3, <1>4 DEF Involved
  <1> QED BY <1>1, <1>2, <1>5, NoVote

\* The group, the leader and the clock ask for nothing.
LEMMA GroupVotes ==
  ASSUME MajorityInv,
         \/ \E n \in Nodes : Elect(n) \/ Join(n) \/ Leave(n) \/ ConnectionChanges(n)
         \/ ExpireFailover \/ LeaderLost \/ Tick
  PROVE  (Honest /\ Votes /\ FailoverNeedsMajority)'
  <1>1. UNCHANGED <<backend, requests, asked>> /\ asked \subseteq Nodes
    BY ZenonT(20) DEF Elect, Join, Leave, ConnectionChanges, ExpireFailover, LeaderLost, Tick,
           MajorityInv, ConsensusInv, Typed
  <1>2. \/ object' = NoObject
        \/ object'.by = object.by /\ object'.count = object.count
    BY ZenonT(20) DEF Elect, Join, Leave, ConnectionChanges, ExpireFailover, LeaderLost, Tick,
           LeaveCoordinator, MajorityInv, ConsensusInv, Typed, Objects
  <1>3. \A m \in Nodes :
          /\ health'[m].at = "asks" => health[m].at = "asks"
          /\ main'[m] \in {"asks", "quarantines"} => main[m] \in {"asks", "quarantines"}
    <2>1. CASE \E S \in SUBSET Nodes : Cancel(S)
      BY <2>1, Cancelled DEF MajorityInv
    <2>2. CASE Tick
      BY <2>2 DEF Tick, Busy, MajorityInv, ConsensusInv, Typed, HealthStates, Asking
    <2>3. CASE UNCHANGED <<health, main>>
      BY <2>3
    <2> QED BY <2>1, <2>2, <2>3, ZenonT(20)
            DEF Elect, Join, Leave, ConnectionChanges, ExpireFailover, LeaderLost,
                LeaveCoordinator
  <1>4. \A m \in Nodes : Involved(m)' => Involved(m)
    BY <1>1, <1>3, ZenonT(20) DEF Involved, Has
  <1> QED BY <1>1, <1>2, <1>4, NoVote DEF Has

\* A failover is only requested of a main process when a majority of the nodes
\* has asked for it (compute_failover_consensus), in a cluster of any size,
\* whatever is repeated, lost, expired or synchronised, if failover needs a
\* consensus and a node has one vote (failover_require_consensus on,
\* allow_multiple_failover_requests_from_node off).
THEOREM MajorityDecides ==
  ASSUME RequireConsensus, ~AllowMultiple
  PROVE  Spec => []FailoverNeedsMajority
  <1>1. Init => Honest /\ Votes /\ FailoverNeedsMajority
    <2>1. Init => Votes
      BY FS_EmptySet DEF Init, Votes, NoObject
    <2>2. Init => Honest
      BY BackendStates DEF Init, Honest, Involved, Has, Waiting
    <2>3. Init => FailoverNeedsMajority
      BY DEF Init, FailoverNeedsMajority
    <2> QED BY <2>1, <2>2, <2>3
  <1>2. /\ ConsensusInv /\ Honest /\ Votes /\ FailoverNeedsMajority
        /\ [Next]_vars
        => (Honest /\ Votes /\ FailoverNeedsMajority)'
    <2> SUFFICES ASSUME MajorityInv, [Next]_vars
                 PROVE  (Honest /\ Votes /\ FailoverNeedsMajority)'
      BY DEF MajorityInv
    <2>1. CASE UNCHANGED vars
      BY <2>1 DEF vars, MajorityInv, Honest, Votes, FailoverNeedsMajority, Involved, Has
    <2>2. CASE Next
      BY <2>2, WatchdogVotes, HealthCheckVotes, MainVotes, GroupVotes DEF Next
    <2> QED BY <2>1, <2>2
  <1> QED BY <1>1, <1>2, ConsensusInvariant, PTL DEF Spec
=============================================================================
