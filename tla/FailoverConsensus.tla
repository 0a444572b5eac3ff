------------------------- MODULE FailoverConsensus --------------------------
(***************************************************************************)
(* One backend, watched by the health checks of several pgbalancer nodes,  *)
(* and the watchdog that turns their failover requests into a failover of  *)
(* the cluster (consensus) or into a local quarantine.  Every node has a   *)
(* health check process, a main process and a watchdog process.            *)
(*                                                                         *)
(* The election is WatchdogElection; here a leader resigns, is lost, and   *)
(* another one appears.  Time passes in ticks of a few seconds, longer     *)
(* than a message, an election or the work of a main process takes.        *)
(***************************************************************************)
EXTENDS MajorityRule, FiniteSets, Sequences

CONSTANTS
  Nodes,             \* the watchdog nodes
  None,              \* no node
  FirstLeader,       \* the first coordinator
  RequireConsensus,  \* failover_require_consensus
  AllowMultiple,     \* allow_multiple_failover_requests_from_node
  HalfVotes,         \* enable_consensus_with_half_votes
  Period,            \* health_check_period, in ticks
  RetryTime,         \* health_check_retry_delay * health_check_max_retries
  ConnectTime,       \* what the failing attempts to connect take
  FinishTimeout,     \* FAILOVER_COMMAND_FINISH_TIMEOUT
  Primary,           \* the backend is the primary
  QueueSize,         \* MAX_REQUEST_QUEUE_SIZE
  MaxFaults          \* bound on the faults of the environment

ASSUME ConsensusAssumption ==
  /\ IsFiniteSet(Nodes) /\ None \notin Nodes /\ FirstLeader \in Nodes
  /\ {RequireConsensus, AllowMultiple, HalfVotes} \subseteq BOOLEAN
  /\ Primary \in BOOLEAN
  /\ {Period, FinishTimeout, QueueSize} \subseteq Nat \ {0}
  /\ {RetryTime, ConnectTime, MaxFaults} \subseteq Nat

VARIABLES
  leader,    \* the coordinator, or None
  standbys,  \* clusterLeaderInfo.standbyNodes of the leader
  demoted,   \* the node that resigned and has lowered its wd_priority
  object,    \* the leader's failover object: requesting nodes, count, age
  dead,      \* dead[n]: n cannot connect to the backend
  backend,   \* backend_status and quarantine in the shared memory of n
  health,    \* the health check process of n
  main,      \* the main process of n
  signals,   \* user1SignalSlot of n
  requests,  \* the node operation requests registered at n
  faults,    \* faults so far
  lost,      \* the group has lost its leader or a standby (history)
  asked      \* the nodes whose health check has asked for a failover (history)

cluster == <<leader, standbys, demoted>>
trouble == <<faults, lost>>
vars == <<cluster, object, dead, backend, health, main, signals, requests,
          trouble, asked>>

Remotes == Cardinality(Nodes) - 1
Quorum == QuorumStatus(Cardinality(standbys), Remotes, HalfVotes)
Group == standbys \cup (IF leader = None THEN {} ELSE {leader})
NoObject == [by |-> {}, count |-> 0, age |-> 0]

Up == [status |-> "up", quarantine |-> FALSE]
Down == [status |-> "down", quarantine |-> FALSE]
Quarantined == [status |-> "down", quarantine |-> TRUE]

\* update_failover_timeout: a round of the health check, but not the time its
\* connections take, and at least FAILOVER_COMMAND_FINISH_TIMEOUT.
FailoverTimeout ==
  IF Period + RetryTime > FinishTimeout THEN Period + RetryTime
                                        ELSE FinishTimeout

Waiting(t) == [at |-> "sleep", left |-> t]
Asking == [at |-> "asks", left |-> 0]
AnyRequest == {"down", "quarantine", "up"}

Init ==
  /\ leader = FirstLeader
  /\ standbys = Nodes \ {leader}
  /\ demoted = None
  /\ object = NoObject
  /\ dead = [n \in Nodes |-> FALSE]
  /\ backend = [n \in Nodes |-> Up]
  /\ health = [n \in Nodes |-> Waiting(0)]
  /\ main = [n \in Nodes |-> "idle"]
  /\ signals = [n \in Nodes |-> {}]
  /\ requests = [n \in Nodes |-> <<>>]
  /\ faults = 0
  /\ lost = FALSE
  /\ asked = {}

-----------------------------------------------------------------------------
(* Requests and signals                                                    *)

\* register_node_operation_request on node n: dropped when the queue is full.
Register(n, kind) ==
  requests' = [requests EXCEPT ![n] =
                 IF Len(@) < QueueSize THEN Append(@, kind) ELSE @]

Signal(S, reason) ==
  signals' = [n \in Nodes |-> IF n \in S THEN signals[n] \cup {reason}
                                         ELSE signals[n]]

\* One pass looks at the quorum, the quarantine, the synchronisation and then
\* the requests.  A pass that has served the quarantine goes on ("resumes") to
\* the others before the next one.
Others(n) == "sync" \in signals[n] \/ requests[n] # <<>>
Resume(n) == IF Others(n) THEN "resumes" ELSE "idle"

-----------------------------------------------------------------------------
(* The watchdog of the leader                                              *)

\* Mutant: a repeated request of a node counts again.
RecordEvery(n) ==
  [object EXCEPT !.by = @ \cup {n}, !.count = @ + 1]

\* add_failover: the object after a request of n.
Recorded(n) ==
  IF n \in object.by /\ ~AllowMultiple THEN object
  ELSE [object EXCEPT !.by = @ \cup {n}, !.count = @ + 1]

Enough(o) == o.count >= MinimumVotes(Remotes, HalfVotes)

\* Mutant: a repeated request is answered like the first.
ResultWithoutDuplicates(n) ==
  CASE Quorum < 0 -> "NO_QUORUM"
    [] Quorum >= 0 /\ (~RequireConsensus \/ Enough(Recorded(n))) -> "PROCEED"
    [] OTHER -> "BUILDING_CONSENSUS"

\* compute_failover_consensus
Result(n) ==
  CASE Quorum < 0 -> "NO_QUORUM"
    [] Quorum >= 0 /\ (~RequireConsensus \/ Enough(Recorded(n))) -> "PROCEED"
    [] OTHER -> IF n \in object.by /\ ~AllowMultiple
                THEN "CONSENSUS_MAY_FAIL" ELSE "BUILDING_CONSENSUS"

\* The object that compute_failover_consensus leaves behind.
RecordRequest(n) ==
  object' = CASE Quorum < 0 \/ ~RequireConsensus -> object
              [] OTHER -> IF Enough(Recorded(n)) THEN NoObject ELSE Recorded(n)

\* Mutant: a quarantined backend is not valid for a failover.
AcceptsUpOnly == backend[leader] = Up

\* degenerate_backend_set, as called by the watchdog of the leader, skips a
\* backend that is down already.
LeaderAccepts == backend[leader] # Down

\* process_failover_command_on_coordinator: a consensus asked for by a standby
\* is registered by the leader, one of its own by the process that asked;
\* while it is being built, all nodes are told to repeat their requests for
\* quarantined nodes.
ProcessFailoverCommand(n, quarantines) ==
  /\ RecordRequest(n)
  /\ CASE Result(n) = "PROCEED" ->
            /\ IF n = leader \/ LeaderAccepts
               THEN Register(leader, "down") ELSE UNCHANGED requests
            /\ UNCHANGED signals
       [] Result(n) = "BUILDING_CONSENSUS" ->
            /\ Signal(standbys \cup ({leader} \ {n}), "inform")
            /\ UNCHANGED requests
       [] OTHER ->
            /\ IF quarantines THEN Register(n, "quarantine")
                              ELSE UNCHANGED requests
            /\ UNCHANGED signals
  /\ UNCHANGED <<cluster, dead, backend, trouble, asked>>

\* The request of a health check: degenerate_backend_set_ex turns a refusal
\* into a quarantine.
HealthRequest(n) ==
  /\ health[n].at = "asks"
  /\ health' = [health EXCEPT ![n] = Waiting(Period)]
  /\ ProcessFailoverCommand(n, TRUE)
  /\ UNCHANGED main

\* The request of degenerate_all_quarantine_nodes in the main process.
RepeatedRequest(n) ==
  /\ main[n] = "asks"
  /\ main' = [main EXCEPT ![n] = Resume(n)]
  /\ ProcessFailoverCommand(n, FALSE)
  /\ UNCHANGED health

-----------------------------------------------------------------------------
(* The health check process                                                *)

\* What follows a connection: a quarantined backend is attached again.
CheckSucceeded(n) ==
  /\ IF backend[n] = Quarantined THEN Register(n, "up")
                                 ELSE UNCHANGED requests
  /\ health' = [health EXCEPT ![n] = Waiting(Period)]
  /\ UNCHANGED asked

\* A round begins; a backend that is down is skipped.
StartCheck(n) ==
  /\ health[n] = Waiting(0)
  /\ \/ /\ backend[n] # Down /\ ~dead[n]
        /\ CheckSucceeded(n)
     \/ /\ backend[n] = Down \/ dead[n]
        /\ health' = [health EXCEPT ![n] =
             IF backend[n] = Down THEN Waiting(Period)
             ELSE [at |-> "connects", left |-> RetryTime + ConnectTime]]
        /\ UNCHANGED <<requests, asked>>
  /\ UNCHANGED <<cluster, object, dead, backend, main, signals, trouble>>

\* The last attempt: its failure on a quarantined backend is ignored, another
\* one goes to the watchdog if that is the leader or a standby.
EndCheck(n) ==
  /\ health[n] = [at |-> "connects", left |-> 0]
  /\ \/ /\ ~dead[n]
        /\ CheckSucceeded(n)
     \/ /\ dead[n]
        /\ backend[n] # Up \/ n \notin Group
        /\ health' = [health EXCEPT ![n] = Waiting(Period)]
        /\ UNCHANGED <<requests, asked>>
     \/ /\ dead[n]
        /\ backend[n] = Up /\ n \in Group
        /\ health' = [health EXCEPT ![n] = Asking]
        /\ asked' = asked \cup {n}
        /\ UNCHANGED requests
  /\ UNCHANGED <<cluster, object, dead, backend, main, signals, trouble>>

-----------------------------------------------------------------------------
(* The main process: sigusr1_interrupt_processor and failover()            *)

Serve(n, reason, places) ==
  /\ main[n] \in places
  /\ reason \in signals[n]
  /\ signals' = [signals EXCEPT ![n] = @ \ {reason}]

\* update_backend_quarantine_status, if the quorum exists
QuorumChanged(n) ==
  /\ Serve(n, "quorum", {"idle"})
  /\ IF n = leader /\ Quorum >= 0 /\ backend[n] = Quarantined
     THEN Register(n, "up") ELSE UNCHANGED requests
  /\ UNCHANGED <<cluster, object, dead, backend, health, main, trouble, asked>>

\* degenerate_all_quarantine_nodes
InformQuarantine(n) ==
  /\ Serve(n, "inform", {"idle"})
  /\ main' = [main EXCEPT ![n] = IF backend[n] = Quarantined /\ n \in Group
                                 THEN "asks" ELSE Resume(n)]
  /\ UNCHANGED <<cluster, object, dead, backend, health, requests, trouble, asked>>

\* A standby asks the leader for the status of the backends.
StartSync(n) ==
  /\ Serve(n, "sync", {"idle", "resumes"})
  /\ main' = [main EXCEPT ![n] = IF n \in standbys THEN "syncs" ELSE "idle"]
  /\ UNCHANGED <<cluster, object, dead, backend, health, requests, trouble, asked>>

\* get_backend_node_status_json: quarantine is not sent.
SentStatus(b) == IF b = Quarantined THEN Up ELSE b

\* sync_backend_from_watchdog
FinishSync(n) ==
  /\ main[n] = "syncs"
  /\ main' = [main EXCEPT ![n] = "idle"]
  /\ backend' = [backend EXCEPT ![n] = SentStatus(backend[leader])]
  /\ UNCHANGED <<cluster, object, dead, health, signals, requests, trouble, asked>>

Free(n) == main[n] \in {"idle", "resumes"} /\ requests[n] # <<>>
Kind(n) == Head(requests[n])

\* A backend that is down is not brought down, one that is up not attached.
Refused(n) ==
  \/ Kind(n) \in {"down", "quarantine"} /\ backend[n] = Down
  \/ Kind(n) = "up" /\ backend[n] = Up

\* Mutant: nobody hears of a failover.
NoSynchronisation(n) == {}

\* wd_failover_end: the leader tells the standbys to synchronise.
ToSynchronise(n) == IF n = leader THEN standbys ELSE {}

Finish(n) ==
  /\ requests' = [requests EXCEPT ![n] = Tail(@)]
  /\ main' = [main EXCEPT ![n] = "idle"]
  /\ UNCHANGED <<cluster, object, dead, health, trouble, asked>>

RefuseRequest(n) ==
  /\ Free(n) /\ Refused(n)
  /\ Finish(n)
  /\ UNCHANGED <<backend, signals>>

\* handle_failover_request of a NODE_DOWN and handle_failback_request of a
\* NODE_UP request, which asks for an update of the status.
PerformRequest(n) ==
  /\ Free(n) /\ ~Refused(n)
  /\ Kind(n) # "quarantine"
  /\ backend' = [backend EXCEPT ![n] = IF Kind(n) = "down" THEN Down ELSE Up]
  /\ Signal(ToSynchronise(n), "sync")
  /\ Finish(n)

\* handle_failover_request of a quarantine stores the status first ...
StartQuarantine(n) ==
  /\ Free(n) /\ ~Refused(n)
  /\ Kind(n) = "quarantine"
  /\ backend' = [backend EXCEPT ![n].status = "down"]
  /\ main' = [main EXCEPT ![n] = "quarantines"]
  /\ UNCHANGED <<cluster, object, dead, health, signals, requests, trouble, asked>>

\* ... and then the flag.
FinishQuarantine(n) ==
  /\ main[n] = "quarantines"
  /\ backend' = [backend EXCEPT ![n].quarantine = TRUE]
  /\ Signal(ToSynchronise(n), "sync")
  /\ Finish(n)

-----------------------------------------------------------------------------
(* The group of nodes                                                      *)

\* The requests that nodes S wait for end with an error.
Cancel(S) ==
  /\ health' = [n \in Nodes |-> IF n \in S /\ health[n] = Asking
                                 THEN Waiting(Period) ELSE health[n]]
  /\ main' = [n \in Nodes |-> IF n \in S /\ main[n] \in {"asks", "syncs"}
                               THEN Resume(n) ELSE main[n]]

\* set_state when a coordinator leaves that state
LeaveCoordinator ==
  /\ leader' = None
  /\ standbys' = {}
  /\ object' = NoObject
  /\ Cancel(Nodes)

\* Mutant: an object lives for the timeout and a tick more.
ExpiredLate == object.count > 0 /\ object.age > FailoverTimeout

Expired == object.count > 0 /\ object.age >= FailoverTimeout

MustResign == Primary /\ leader \in object.by /\ backend[leader] = Quarantined

\* service_expired_failovers
ExpireFailover ==
  /\ leader # None
  /\ Expired
  /\ \/ /\ MustResign
        /\ LeaveCoordinator
        /\ demoted' = leader
     \/ /\ ~MustResign
        /\ object' = NoObject
        /\ UNCHANGED <<cluster, health, main>>
  /\ UNCHANGED <<dead, backend, signals, requests, trouble, asked>>

\* A node becomes the coordinator; one that lowered its priority loses.
Elect(n) ==
  /\ leader = None
  /\ n # demoted
  /\ leader' = n
  /\ UNCHANGED <<standbys, demoted, object, dead, backend, health, main,
                 signals, requests, trouble, asked>>

\* The signals of a change of the standbys: the leader hears that the quorum
\* has changed, a new standby that its state has.
GroupSignals(joined) ==
  signals' = [n \in Nodes |-> signals[n]
    \cup (IF n \in joined THEN {"sync"} ELSE {})
    \cup (IF n = leader /\ Quorum' # Quorum THEN {"quorum"} ELSE {})]

Join(m) ==
  /\ leader # None
  /\ m \notin Group
  /\ standbys' = standbys \cup {m}
  /\ demoted' = IF m = demoted THEN None ELSE demoted
  /\ GroupSignals({m})
  /\ UNCHANGED <<leader, object, dead, backend, health, main, requests, trouble, asked>>

Fault == faults < MaxFaults /\ faults' = faults + 1
Loss == Fault /\ lost' = TRUE

\* The leader loses a standby.
Leave(m) ==
  /\ Loss
  /\ m \in standbys
  /\ standbys' = standbys \ {m}
  /\ GroupSignals({})
  /\ Cancel({m})
  /\ UNCHANGED <<leader, demoted, object, dead, backend, requests, asked>>

\* The coordinator gives up its state: network trouble, or another leader.
LeaderLost ==
  /\ Loss
  /\ leader # None
  /\ LeaveCoordinator
  /\ UNCHANGED <<demoted, dead, backend, signals, requests, asked>>

\* The connection from a node to the backend breaks or works again, or the
\* backend dies.
ConnectionChanges(n) ==
  /\ Fault
  /\ \/ dead' = [dead EXCEPT ![n] = ~@]
     \/ dead' = [m \in Nodes |-> TRUE]
  /\ UNCHANGED <<cluster, object, backend, health, main, signals, requests,
                 lost, asked>>

-----------------------------------------------------------------------------
(* Time                                                                    *)

Busy(n) ==
  \/ health[n].at = "asks" \/ (health[n].at # "asks" /\ health[n].left = 0)
  \/ main[n] # "idle" \/ signals[n] # {} \/ requests[n] # <<>>

Tick ==
  /\ \A n \in Nodes : ~Busy(n)
  /\ leader # None /\ Group = Nodes /\ ~Expired
  /\ health' = [n \in Nodes |-> IF health[n].left > 0
                  THEN [health[n] EXCEPT !.left = @ - 1] ELSE health[n]]
  /\ object' = IF object.count > 0 THEN [object EXCEPT !.age = @ + 1] ELSE object
  /\ UNCHANGED <<cluster, dead, backend, main, signals, requests, trouble, asked>>

-----------------------------------------------------------------------------
Main(n) ==
  \/ QuorumChanged(n) \/ InformQuarantine(n) \/ StartSync(n) \/ FinishSync(n)
  \/ RefuseRequest(n) \/ PerformRequest(n)
  \/ StartQuarantine(n) \/ FinishQuarantine(n)

HealthCheck(n) == StartCheck(n) \/ EndCheck(n)
Watchdog(n) == HealthRequest(n) \/ RepeatedRequest(n)

\* what the nodes do as long as they run
Progress ==
  \/ \E n \in Nodes : Main(n) \/ HealthCheck(n) \/ Watchdog(n) \/ Elect(n) \/ Join(n)
  \/ ExpireFailover \/ Tick

Next ==
  \/ \E n \in Nodes :
       \/ Main(n) \/ HealthCheck(n) \/ Watchdog(n)
       \/ Elect(n) \/ Join(n) \/ Leave(n) \/ ConnectionChanges(n)
  \/ ExpireFailover \/ LeaderLost \/ Tick

Spec == Init /\ [][Next]_vars

\* The nodes do not all stop for ever: some process, the watchdog or the clock
\* goes on.  No process is left behind by this alone, since the clock only goes on
\* when none has anything to do.  Nothing is assumed of the faults.
FairSpec == Spec /\ WF_vars(Progress)

-----------------------------------------------------------------------------
(* Properties                                                              *)

TypeOK ==
  /\ leader \in Nodes \cup {None} /\ demoted \in Nodes \cup {None}
  /\ standbys \subseteq Nodes \ {leader}
  /\ object.by \subseteq Nodes
  /\ object.count \in 0 .. MinimumVotes(Remotes, HalfVotes) - 1
  /\ object.age \in 0 .. FailoverTimeout
  /\ dead \in [Nodes -> BOOLEAN]
  /\ backend \in [Nodes -> {Up, Down, Quarantined}]
  /\ \A n \in Nodes : /\ health[n].at \in {"sleep", "connects", "asks"}
                       /\ health[n].left \in 0 .. Period + RetryTime + ConnectTime
  /\ main \in [Nodes -> {"idle", "resumes", "asks", "syncs", "quarantines"}]
  /\ signals \in [Nodes -> SUBSET {"quorum", "inform", "sync"}]
  /\ \A n \in Nodes : /\ Len(requests[n]) <= QueueSize
                       /\ \A i \in DOMAIN requests[n] : requests[n][i] \in AnyRequest
  /\ faults \in 0 .. MaxFaults
  /\ lost \in BOOLEAN
  /\ asked \subseteq Nodes

\* A failover is requested of a main process only after the health checks of a
\* majority of the nodes have asked for it, whatever is repeated, lost, expired
\* or synchronised between the nodes (compute_failover_consensus).
FailoverNeedsMajority ==
  \A n \in Nodes : \A i \in DOMAIN requests[n] :
    requests[n][i] = "down" => Cardinality(asked) >= MinimumVotes(Remotes, HalfVotes)

\* The same for the status itself: the quarantine of one node is never taken
\* for a failover by another (get_backend_node_status_json).
QuarantineStaysLocal ==
  \A n \in Nodes :
    backend[n] = Down /\ main[n] # "quarantines" =>
      Cardinality(asked) >= MinimumVotes(Remotes, HalfVotes)

\* A node that alone cannot reach the backend ends up with the backend in
\* quarantine (the answer CONSENSUS_MAY_FAIL to its second request).
MistakenFailureIsQuarantined ==
  <>[](Cardinality({n \in Nodes : dead[n]}) = 1) =>
    <>[](\A n \in Nodes : dead[n] => backend[n] # Up)

\* When all nodes lose the backend, none of them goes on using it; and if the
\* group stays together it is down on every node in the end: no expiry,
\* resignation, quarantine or storm of repeated requests prevents the failover
\* for ever (compute_failover_consensus, process_wd_failover).
AgreedFailureIsPerformed ==
  <>[](\A n \in Nodes : dead[n]) =>
    <>[](\A n \in Nodes : backend[n] # Up /\ (lost \/ backend[n] = Down))

\* In a group that stays together the nodes agree in the end on whether the
\* backend is down; a quarantine stays a matter of one node (wd_failover_end,
\* sync_backend_from_watchdog).
NodesAgree ==
  <>[](/\ leader # None
       /\ lost \/ \A n \in Nodes : (backend[n] = Down) <=> (backend[leader] = Down))

\* A leader does not keep the primary in quarantine for ever while it holds the
\* quorum: a quarantine for want of the quorum ends when the quorum is back
\* (update_backend_quarantine_status), one for want of votes makes the leader
\* resign (service_expired_failovers).
QuarantineEndsWithQuorum ==
  Primary => []<>(leader = None \/ Quorum < 0 \/ backend[leader] # Quarantined)
=============================================================================
