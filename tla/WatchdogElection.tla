-------------------------- MODULE WatchdogElection --------------------------
(***************************************************************************)
(* The watchdog processes of several pgbalancer nodes: how they find a     *)
(* leader (coordinator), keep its list of standbys, escalate it while it   *)
(* holds the quorum, and recover from links that break and heal.           *)
(*                                                                         *)
(* A node is a record; the handlers of watchdog.c are operators that take  *)
(* the record S of the local node to the one after the event.  S.out are   *)
(* the packets it sends on the way.  The packets of one round of a node's  *)
(* main loop arrive as one batch; the batches between two connected nodes  *)
(* arrive in order, and late if the link is broken for a while.  Timers    *)
(* are longer than the way of a packet: they expire when no packet can be  *)
(* delivered.  Links break and heal in such moments, too.                  *)
(*                                                                         *)
(* A reply counts for the command of its type that is under way: the code  *)
(* finds the command by its number, and the states then go by the type.    *)
(***************************************************************************)
EXTENDS MajorityRule, FiniteSets, Sequences

CONSTANTS
  Nodes,      \* the watchdog nodes
  None,       \* no node
  Priority,   \* wd_priority of each node
  Startup,    \* startup_time of each node
  HalfVotes,  \* enable_consensus_with_half_votes
  MaxCuts,    \* bound on the times that links break
  Backlog     \* bound on the undelivered packets of a connection in use

ASSUME ElectionAssumption ==
  /\ IsFiniteSet(Nodes) /\ None \notin Nodes
  /\ Priority \in [Nodes -> Nat] /\ Startup \in [Nodes -> Nat]
  /\ HalfVotes \in BOOLEAN /\ MaxCuts \in Nat /\ Backlog \in Nat

VARIABLES
  node,   \* the local state of each node
  chan,   \* chan[n][m]: the packets on their way from n to m
  cut,    \* the broken links
  cuts,   \* how often links broke
  elder   \* the pairs of coordinators, the older (current_state_time) first

vars == <<node, chan, cut, cuts, elder>>

States == {"JOINING", "INITIALIZING", "STAND_FOR_COORDINATOR", "COORDINATOR",
           "PARTICIPATE_IN_ELECTION", "STANDBY", "NETWORK_ISOLATION"}

\* the command that is sent on entering a state and waits for replies there
CommandOf == [JOINING |-> "REQ_INFO", STAND_FOR_COORDINATOR |-> "STAND",
              COORDINATOR |-> "DECLARE", STANDBY |-> "JOIN"]

Link(n, m) == {n, m}
Links == {Link(n, m) : n \in Nodes, m \in Nodes} \ {{n} : n \in Nodes}
NoPackets == [m \in Nodes |-> <<>>]
Coordinators == {n \in Nodes : node[n].state = "COORDINATOR"}

\* Every node has started and knows the others, and there is no leader yet.
Init ==
  /\ node = [n \in Nodes |->
       [self |-> n, state |-> "INITIALIZING", leader |-> None,
        view |-> [m \in Nodes |-> "INITIALIZING"], conn |-> Nodes \ {n},
        standbys |-> {}, quorum |-> -1, escalated |-> FALSE,
        pending |-> FALSE, waiting |-> {}, lostUs |-> {}, bcast |-> None,
        out |-> NoPackets]]
  /\ chan = [n \in Nodes |-> NoPackets]
  /\ cut = {}
  /\ cuts = 0
  /\ elder = {}

-----------------------------------------------------------------------------
(* Packets                                                                 *)

Packet(type) == [type |-> type]

\* send_message_to_node
Send(S, m, pkt) ==
  IF m \in S.conn THEN [S EXCEPT !.out[m] = Append(@, pkt)] ELSE S

\* send_message to all reachable nodes
SendAll(S, to, pkt) ==
  [S EXCEPT !.out = [m \in Nodes |-> IF m \in to \cap S.conn
                                      THEN Append(S.out[m], pkt) ELSE S.out[m]]]

\* Mutant: the same message is broadcast as often as it is due.
BroadcastServiceAgain(S, type) == SendAll(S, Nodes, Packet(type))

\* send_cluster_service_message to all: not the same one twice in a while
BroadcastService(S, type) ==
  IF S.bcast = type THEN S
  ELSE SendAll([S EXCEPT !.bcast = type], Nodes, Packet(type))

\* What a leader says of itself in its node info and its beacons.
Worth(S) == IF S.state = "COORDINATOR"
            THEN <<IF S.escalated THEN 1 ELSE 0, S.quorum, Cardinality(S.standbys)>>
            ELSE <<>>

\* get_mynode_info_message, get_beacon_message, get_addnode_message; of is the
\* command that the packet replies to
Info(S, type, of) == [type |-> type, of |-> of, state |-> S.state, worth |-> Worth(S)]
ReplyTo(pkt, answer) == [type |-> answer, of |-> pkt.type]

Active(S) == {m \in Nodes \ {S.self} : S.view[m] # "LOST"}

\* issue_watchdog_internal_command
Command(S, to) ==
  SendAll([S EXCEPT !.pending = TRUE, !.waiting = to \cap S.conn],
          to, Packet(CommandOf[S.state]))

-----------------------------------------------------------------------------
(* States                                                                  *)

\* WD_EVENT_WD_STATE_CHANGED
Enter(S) ==
  CASE S.state = "JOINING" -> Command([S EXCEPT !.leader = None], Active(S))
    [] S.state \in {"STAND_FOR_COORDINATOR", "COORDINATOR"} -> Command(S, Active(S))
    [] S.state = "STANDBY" -> Command(S, {S.leader})
    [] OTHER -> [S EXCEPT !.pending = FALSE, !.waiting = {}]

\* A coordinator that gives up its state resigns and forgets its standbys.
Leave(S) ==
  IF S.state = "COORDINATOR" THEN [S EXCEPT !.escalated = FALSE, !.standbys = {}] ELSE S

\* set_state: the others are told at the end.
SetState(S, new) ==
  IF S.state = new THEN S
  ELSE LET entered == Enter([Leave(S) EXCEPT !.state = new])
       IN  SendAll(entered, Nodes, Info(entered, "INFO", None))

StandbyLeft(S, m) ==
  IF S.state = "COORDINATOR" THEN [S EXCEPT !.standbys = @ \ {m}] ELSE S

QuorumOf(S) ==
  QuorumStatus(Cardinality(S.standbys), Cardinality(Nodes) - 1, HalfVotes)

\* Mutant: a leader that loses the quorum goes on.
UpdateQuorumOnly(S) ==
  IF S.state = "COORDINATOR" THEN [S EXCEPT !.quorum = QuorumOf(S)] ELSE S

\* update_quorum_status, in every round of the main loop of a coordinator
UpdateQuorum(S) ==
  LET q == QuorumOf(S)
      changed == [S EXCEPT !.quorum = q, !.escalated = q >= 0]
  IN  IF S.state # "COORDINATOR" \/ q = S.quorum THEN S
      ELSE IF S.leader = S.self THEN SendAll(changed, Nodes, Info(changed, "INFO", None))
           ELSE [S EXCEPT !.quorum = q]

\* Mutant: a coordinator does not wait for the quorum.
LeadAlways(S) == [S EXCEPT !.leader = S.self, !.quorum = QuorumOf(S), !.escalated = TRUE]

\* The declaration of the coordinator is accepted.
Lead(S) ==
  [S EXCEPT !.leader = S.self, !.quorum = QuorumOf(S), !.escalated = QuorumOf(S) >= 0]

-----------------------------------------------------------------------------
(* Events: nodes lost and found, split brain                               *)

\* close_socket_connection
Close(S, m) ==
  IF m \in S.conn
  THEN [Send(S, m, Packet("EOF")) EXCEPT !.conn = @ \ {m}] ELSE S

\* Mutant: a standby that loses its leader waits for the next one.
LostWaits(S, m) ==
  LET told == Send([S EXCEPT !.view[m] = "LOST"], m, Packet("APPEARING_LOST"))
      closed == Close([told EXCEPT !.leader = IF @ = m THEN None ELSE @], m)
  IN  StandbyLeft(closed, m)

\* WD_EVENT_REMOTE_NODE_LOST
Lost(S, m) ==
  LET told == Send([S EXCEPT !.view[m] = "LOST"], m, Packet("APPEARING_LOST"))
      closed == Close([told EXCEPT !.leader = IF @ = m THEN None ELSE @], m)
  IN  CASE S.state = "COORDINATOR" -> StandbyLeft(closed, m)
        [] S.state = "STANDBY" /\ closed.leader = None -> SetState(closed, "JOINING")
        [] OTHER -> closed

\* WD_EVENT_REMOTE_NODE_FOUND
Found(S, m) ==
  LET found == Send([S EXCEPT !.view[m] = "LOADING"], m, Packet("APPEARING_FOUND"))
  IN  CASE S.state = "COORDINATOR" ->
             Send(Send(found, m, Packet("ASK_INFO")), m, Packet("REQUIRE_TO_RELOAD"))
        [] S.state = "NETWORK_ISOLATION" -> SetState(found, "JOINING")
        [] OTHER -> found

\* I_am_leader_and_cluster_in_split_brain: escalated, then quorum, then number
\* of standbys decide, and then who has been the leader for longer (older:
\* the other one)
RemoteIsBest(S, worth, older) ==
  \/ \E i \in 1..3 : /\ worth[i] > Worth(S)[i]
                     /\ \A j \in 1..i-1 : worth[j] = Worth(S)[j]
  \/ worth = Worth(S) /\ older

\* handle_split_brain
HandleSplitBrain(S, m, pkt, older) ==
  IF RemoteIsBest(S, pkt.worth, older)
  THEN SetState(BroadcastService(S, "IAM_NOT_TRUE_LEADER"), "JOINING")
  ELSE Send(S, m, Packet("IAM_TRUE_LEADER"))

-----------------------------------------------------------------------------
(* Packets that most states handle alike: standard_packet_processor        *)

\* Mutant: node info of a leader is taken over as it comes.
InfoOnceTrusted(S, m, pkt, older) ==
  [S EXCEPT !.view[m] = pkt.state,
            !.leader = IF pkt.state = "COORDINATOR" THEN m ELSE @]

\* WD_INFO_MESSAGE
InfoOnce(S, m, pkt, older) ==
  LET old == S.view[m]
      known == [S EXCEPT !.view[m] = pkt.state]
      checked ==
        CASE pkt.state = "COORDINATOR" /\ S.leader = None -> [known EXCEPT !.leader = m]
          [] pkt.state = "COORDINATOR" /\ S.leader \notin {None, m} ->
               IF S.state = "COORDINATOR" THEN HandleSplitBrain(known, m, pkt, older)
               ELSE BroadcastService(known, "IN_SPLIT_BRAIN")
          [] pkt.state # "COORDINATOR" /\ S.leader = m -> SetState(known, "JOINING")
          [] OTHER -> known
      left == IF old = "STANDBY" /\ pkt.state # "STANDBY" THEN StandbyLeft(checked, m)
              ELSE checked
  IN  IF old = "LOST" THEN Found(left, m) ELSE left

\* WD_IAM_COORDINATOR_MESSAGE in the states that have no handler of their own
StandardBeacon(S, m, pkt) ==
  CASE S.leader = None -> S
    [] S.leader = m -> Send([S EXCEPT !.view[m] = pkt.state],
                            m, Info(S, "INFO", pkt.type))
    [] OTHER -> BroadcastService(S, "IN_SPLIT_BRAIN")

\* cluster_service_message_processor
Service(S, m, pkt) ==
  CASE pkt.type = "IAM_TRUE_LEADER" ->
         (CASE S.state = "COORDINATOR" ->
                 SetState(BroadcastService(S, "RESIGNING_FROM_LEADER"), "JOINING")
            [] S.state # "COORDINATOR" /\ S.leader \notin {None, m} ->
                 SetState(BroadcastService(S, "NEEDS_ELECTION"), "JOINING")
            [] OTHER -> S)
    [] pkt.type \in {"RESIGNING_FROM_LEADER", "IAM_NOT_TRUE_LEADER"} ->
         IF S.leader = m THEN SetState(S, "JOINING") ELSE S
    [] pkt.type = "IN_SPLIT_BRAIN" ->
         IF S.state = "COORDINATOR"
         THEN SendAll(S, Nodes, Info(S, "IAM_COORDINATOR", None)) ELSE S
    [] pkt.type = "NEEDS_ELECTION" -> SetState(S, "JOINING")
    [] pkt.type = "REQUIRE_TO_RELOAD" ->
         (CASE S.state = "STANDBY" -> Command(S, {S.leader})
            [] S.state = "NETWORK_ISOLATION" -> SetState(S, "JOINING")
            [] OTHER -> S)
    [] pkt.type = "APPEARING_LOST" ->
         LET told == [S EXCEPT !.lostUs = @ \cup {m}]
         IN  IF S.state = "STANDBY" /\ S.leader = m THEN SetState(told, "JOINING")
             ELSE StandbyLeft(told, m)
    [] OTHER -> \* APPEARING_FOUND
         LET told == [S EXCEPT !.lostUs = @ \ {m}]
         IN  CASE S.state = "COORDINATOR" -> Send(told, m, Packet("REQUIRE_TO_RELOAD"))
               [] S.state = "STANDBY" -> Send(told, m, Info(S, "INFO", None))
               [] S.state = "NETWORK_ISOLATION" -> SetState(told, "JOINING")
               [] OTHER -> told
-----------------------------------------------------------------------------
(* Packets that the states handle differently                              *)

Reply(S, m, pkt, answer) == Send(S, m, ReplyTo(pkt, answer))

\* A standby defends its leader.
Defend(S, m, pkt) == Send(Reply(S, m, pkt, "ERROR"), S.leader, Packet("ASK_INFO"))

\* The candidate m is turned down for the sake of a higher priority.
Outranks(S, m) == Priority[S.self] > Priority[m]

\* WD_STAND_FOR_COORDINATOR_MESSAGE
StandForCoordinator(S, m, pkt) ==
  CASE S.state \in {"JOINING", "PARTICIPATE_IN_ELECTION"} ->
         IF Outranks(S, m)
         THEN SetState(Reply(S, m, pkt, "REJECT"), "STAND_FOR_COORDINATOR")
         ELSE SetState(Reply(S, m, pkt, "ACCEPT"), "PARTICIPATE_IN_ELECTION")
    [] S.state = "STAND_FOR_COORDINATOR" ->
         IF Outranks(S, m) \/ (Priority[S.self] = Priority[m] /\ Startup[S.self] <= Startup[m])
         THEN Reply(S, m, pkt, "REJECT")
         ELSE SetState(Reply(S, m, pkt, "ACCEPT"), "PARTICIPATE_IN_ELECTION")
    [] S.state = "COORDINATOR" -> Reply(S, m, pkt, "REJECT")
    [] S.state = "STANDBY" /\ S.leader = None ->
         SetState(Reply(S, m, pkt, "ACCEPT"), "PARTICIPATE_IN_ELECTION")
    [] S.state = "STANDBY" /\ S.leader # None -> Defend(S, m, pkt)
    [] OTHER -> S

\* WD_DECLARE_COORDINATOR_MESSAGE
DeclareCoordinator(S, m, pkt) ==
  CASE S.state = "STAND_FOR_COORDINATOR" ->
         IF Outranks(S, m) THEN Reply(S, m, pkt, "REJECT")
         ELSE SetState(Reply(S, m, pkt, "ACCEPT"), "JOINING")
    [] S.state = "COORDINATOR" -> Reply(S, m, pkt, "ERROR")
    [] S.state = "PARTICIPATE_IN_ELECTION" ->
         IF Outranks(S, m)
         THEN SetState(Reply(S, m, pkt, "REJECT"), "STAND_FOR_COORDINATOR")
         ELSE SetState(Reply(S, m, pkt, "ACCEPT"), "INITIALIZING")
    [] S.state = "STANDBY" /\ S.leader # m -> Defend(S, m, pkt)
    [] OTHER -> S

\* Mutant: the state of the sender is taken from the type of the packet.
BeaconType(S, m, pkt, older) ==
  CASE S.state = "COORDINATOR" ->
         HandleSplitBrain([S EXCEPT !.view[m] = pkt.type], m, pkt, older)
    [] S.state = "PARTICIPATE_IN_ELECTION" -> SetState(S, "JOINING")
    [] OTHER -> StandardBeacon(S, m, pkt)

\* WD_IAM_COORDINATOR_MESSAGE
Beacon(S, m, pkt, older) ==
  CASE S.state = "COORDINATOR" ->
         HandleSplitBrain([S EXCEPT !.view[m] = pkt.state], m, pkt, older)
    [] S.state = "PARTICIPATE_IN_ELECTION" -> SetState(S, "JOINING")
    [] OTHER -> StandardBeacon(S, m, pkt)

\* Mutant: the leader accepts a standby without adding it to its list.
JoinUnlisted(S, m, pkt) ==
  Reply(S, m, pkt, IF S.leader = S.self THEN "ACCEPT" ELSE "REJECT")

\* WD_JOIN_COORDINATOR_MESSAGE
JoinCoordinator(S, m, pkt) ==
  IF S.state = "COORDINATOR"
  THEN [Reply(S, m, pkt, "ACCEPT") EXCEPT !.standbys = @ \cup {m}]
  ELSE Reply(S, m, pkt, IF S.leader = S.self THEN "ACCEPT" ELSE "REJECT")

\* WD_ADD_NODE_MESSAGE on a new connection: a lost node is found again.
AddNode(S, m, pkt) ==
  LET known == [S EXCEPT !.view[m] = pkt.state]
      left == IF S.state = "STANDBY" /\ S.leader = m THEN SetState(known, "JOINING")
              ELSE StandbyLeft(known, m)
  IN  IF S.view[m] = "LOST" THEN Found(Send(left, m, Info(left, "INFO", None)), m)
      ELSE known

\* WD_EVENT_COMMAND_FINISHED
Finished(S, answer) ==
  LET done == [S EXCEPT !.pending = FALSE, !.waiting = {}]
      refused == answer \in {"REJECT", "ERROR"}
  IN  CASE S.state = "JOINING" -> SetState(done, "INITIALIZING")
        [] S.state = "STAND_FOR_COORDINATOR" ->
             SetState(done, CASE answer = "ERROR" -> "NETWORK_ISOLATION"
                              [] answer = "REJECT" -> "PARTICIPATE_IN_ELECTION"
                              [] OTHER -> "COORDINATOR")
        [] S.state = "COORDINATOR" ->
             IF refused THEN SetState(done, "JOINING") ELSE Lead(done)
        [] OTHER -> \* STANDBY
             IF refused
             THEN SetState(done, IF S.leader \in S.lostUs THEN "NETWORK_ISOLATION"
                                 ELSE "JOINING")
             ELSE SendAll(done, Nodes, Info(done, "INFO", None))

\* watchdog_internal_command_packet_processor: a refusal finishes a command
\* at once, other answers when all have come.
Answer(S, m, pkt) ==
  IF ~S.pending \/ pkt.of # CommandOf[S.state] THEN S
  ELSE IF pkt.type \in {"REJECT", "ERROR"} \/ S.waiting \subseteq {m}
       THEN Finished(S, pkt.type) ELSE [S EXCEPT !.waiting = @ \ {m}]

\* watchdog_state_machine for WD_EVENT_PACKET_RCV.  Node info is processed
\* twice: before the states see it, and as a reply or by the state.
Process(S, m, pkt, older) ==
  CASE pkt.type = "INFO" ->
         Answer(InfoOnce(InfoOnce(S, m, pkt, older), m, pkt, older), m, pkt)
    [] pkt.type \in {"ACCEPT", "REJECT", "ERROR"} -> Answer(S, m, pkt)
    [] pkt.type \in {"REQ_INFO", "ASK_INFO"} -> Send(S, m, Info(S, "INFO", pkt.type))
    [] pkt.type = "STAND" -> StandForCoordinator(S, m, pkt)
    [] pkt.type = "DECLARE" -> DeclareCoordinator(S, m, pkt)
    [] pkt.type = "IAM_COORDINATOR" -> Beacon(S, m, pkt, older)
    [] pkt.type = "JOIN" -> JoinCoordinator(S, m, pkt)
    [] pkt.type = "ADD_NODE" -> AddNode(S, m, pkt)
    [] pkt.type = "EOF" ->
         LET gone == [S EXCEPT !.conn = @ \ {m}]
         IN  IF S.view[m] = "LOST" THEN gone ELSE Lost(gone, m)
    [] OTHER -> Service(S, m, pkt)
-----------------------------------------------------------------------------
(* Rounds of the main loop                                                 *)

\* What a node sends in one round arrives as one batch.  A beacon that has
\* not been delivered is not repeated.
Queue(sent, batch) ==
  IF batch = <<>> \/ (sent # <<>> /\ sent[Len(sent)] = batch) THEN sent
  ELSE Append(sent, batch)

\* The end of a round of node n.  What it sends goes to the nodes that are
\* still connected; what comes over a connection it closed is not read.
Step(n, S, arriving) ==
  LET end == UpdateQuorum(S)
      was == node[n].state = "COORDINATOR"
      is == end.state = "COORDINATOR"
  IN  /\ node' = [node EXCEPT ![n] = [end EXCEPT !.out = NoPackets]]
      /\ chan' = [a \in Nodes |-> [b \in Nodes |->
           CASE a = n /\ n \in node[b].conn -> Queue(arriving[a][b], end.out[b])
             [] b = n /\ a \notin end.conn -> <<>>
             [] OTHER -> arriving[a][b]]]
      /\ elder' = CASE is /\ ~was -> elder \cup {<<m, n>> : m \in Coordinators}
                    [] is /\ was -> elder
                    [] OTHER -> {pair \in elder : n \notin {pair[1], pair[2]}}

Deliverable(m, n) == chan[m][n] # <<>> /\ Link(n, m) \notin cut

\* Whether leader m is older than leader n; what a packet says of a node that
\* leads no longer can be either.
Older(m, n) ==
  IF {m, n} \subseteq Coordinators THEN {(<<m, n>> \in elder)} ELSE BOOLEAN

\* The packets of a batch one after another, until the connection is closed.
ProcessAll(S, m, batch, older) ==
  LET after[i \in 0..Len(batch)] ==
        IF i = 0 THEN S
        ELSE IF m \in after[i - 1].conn
             THEN Process(after[i - 1], m, batch[i], older) ELSE after[i - 1]
  IN  after[Len(batch)]

\* read_sockets
Receive(n, m) ==
  /\ Deliverable(m, n)
  /\ \E older \in Older(m, n) :
       Step(n, ProcessAll(node[n], m, Head(chan[m][n]), older),
            [chan EXCEPT ![m][n] = Tail(@)])
  /\ UNCHANGED <<cut, cuts>>

Quiet == \A n, m \in Nodes : ~Deliverable(m, n)

\* The kernel gives up a connection over which too much is undelivered
\* (SO_KEEPALIVE) before anything else happens.
Overdue(n, m) == m \in node[n].conn /\ Len(chan[n][m]) > Backlog
Backlogged == \E n, m \in Nodes : Overdue(n, m)

\* A timer of node n expires: packets have been delivered by then, and the
\* same service message may be broadcast again.
Expire(n, S) ==
  /\ Step(n, [S EXCEPT !.bcast = None], chan)
  /\ UNCHANGED <<cut, cuts>>

\* WD_EVENT_TIMEOUT in the states that do not wait for replies.  What a
\* leader sends over broken links only is left out.
Timeout(n) ==
  LET S == node[n]
  IN  /\ ~S.pending /\ Quiet /\ ~Backlogged
      /\ \/ S.state \in {"INITIALIZING", "PARTICIPATE_IN_ELECTION", "NETWORK_ISOLATION"}
         \/ S.state = "COORDINATOR" /\ \E m \in Active(S) \cap S.conn : Link(n, m) \notin cut
         \/ S.state = "STANDBY" /\ S.bcast # None
      /\ Expire(n,
           CASE S.state = "INITIALIZING" ->
                  SetState(S, CASE S.leader # None -> "STANDBY"
                                [] S.leader = None /\ Active(S) = {} -> "COORDINATOR"
                                [] S.leader = None /\ \E m \in Active(S) :
                                     S.view[m] = "STAND_FOR_COORDINATOR" ->
                                     "PARTICIPATE_IN_ELECTION"
                                [] OTHER -> "STAND_FOR_COORDINATOR")
             [] S.state = "COORDINATOR" ->
                  SendAll(S, Active(S), Info(S, "IAM_COORDINATOR", None))
             [] S.state = "STANDBY" -> S
             [] OTHER -> SetState(S, "JOINING"))

\* check_for_current_command_timeout
CommandTimeout(n) ==
  /\ node[n].pending /\ Quiet /\ ~Backlogged
  /\ Expire(n, Finished(node[n], "TIMEOUT"))

\* The beacons of the leader are late: a standby misses two and asks it.
AskInfo(n) ==
  LET S == node[n]
  IN  /\ S.state = "STANDBY" /\ Quiet /\ ~Backlogged
      /\ S.leader \in S.conn /\ Link(n, S.leader) \notin cut
      /\ Expire(n, Send(S, S.leader, Packet("ASK_INFO")))

\* Nothing comes over a broken link: a standby misses the beacons of its
\* leader, a leader the answers of its standby.  A standby that follows
\* another leader does not answer either, and tells the two leaders of each
\* other in vain when the link between them is broken.
Silence(n, m) ==
  LET S == node[n]
  IN  /\ m \in S.conn
      /\ \/ S.state = "STANDBY" /\ S.leader = m /\ Link(n, m) \in cut
         \/ /\ S.state = "COORDINATOR" /\ ~S.pending /\ S.view[m] = "STANDBY"
            /\ \/ Link(n, m) \in cut
               \/ node[m].leader \notin {n, None} /\ Link(n, node[m].leader) \in cut
      /\ Quiet /\ ~Backlogged
      /\ Expire(n, Lost(S, m))

\* The kernel reports a connection over a broken link as closed.
Broken(n, m) ==
  /\ Overdue(n, m) /\ Quiet
  /\ Step(n, Lost(Close(node[n], m), m), chan)
  /\ UNCHANGED <<cut, cuts>>

\* service_lost_connections: a connection is made again.
Reconnect(n, m) ==
  /\ n # m /\ Link(n, m) \notin cut
  /\ m \notin node[n].conn /\ n \notin node[m].conn
  /\ Quiet /\ ~Backlogged
  /\ node' = [node EXCEPT ![n].conn = @ \cup {m}, ![m].conn = @ \cup {n}]
  /\ chan' = [chan EXCEPT ![n][m] = <<<<Info(node[n], "ADD_NODE", None)>>>>,
                          ![m][n] = <<>>]
  /\ UNCHANGED <<cut, cuts, elder>>

-----------------------------------------------------------------------------
(* The network                                                             *)

\* A link breaks: packets stay on their way.
CutLink(l) ==
  /\ cuts < MaxCuts /\ l \notin cut /\ Quiet
  /\ cut' = cut \cup {l} /\ cuts' = cuts + 1
  /\ UNCHANGED <<node, chan, elder>>

\* An escalated leader loses all its links at once.
Isolate(n) ==
  /\ cuts < MaxCuts /\ node[n].escalated /\ Quiet
  /\ cut' = cut \cup {l \in Links : n \in l} /\ cut' # cut /\ cuts' = cuts + 1
  /\ UNCHANGED <<node, chan, elder>>

\* The links work again.
Heal == Quiet /\ cut # {} /\ cut' = {} /\ UNCHANGED <<node, chan, cuts, elder>>

Next ==
  \/ \E n, m \in Nodes : Receive(n, m) \/ Silence(n, m) \/ Broken(n, m) \/ Reconnect(n, m)
  \/ \E n \in Nodes : Timeout(n) \/ CommandTimeout(n) \/ AskInfo(n) \/ Isolate(n)
  \/ \E l \in Links : CutLink(l)
  \/ Heal

Spec == Init /\ [][Next]_vars

\* The nodes do not stop.  A step is always possible: links heal, unconnected
\* nodes connect, and connected ones run elections or send beacons.
FairSpec == Spec /\ []<><<Next>>_vars

-----------------------------------------------------------------------------
(* Properties                                                              *)

\* the service messages that a node does not repeat
Services == {"IN_SPLIT_BRAIN", "IAM_NOT_TRUE_LEADER", "RESIGNING_FROM_LEADER",
             "NEEDS_ELECTION"}

\* the records of the nodes, with the packets that they are about to send
Records(sent) ==
  [self : Nodes, state : States, leader : Nodes \cup {None},
   view : [Nodes -> States \cup {"LOST", "LOADING"}],
   conn : SUBSET Nodes, standbys : SUBSET Nodes, quorum : -1..1,
   escalated : BOOLEAN, pending : BOOLEAN, waiting : SUBSET Nodes,
   lostUs : SUBSET Nodes, bcast : Services \cup {None}, out : sent]

\* The states, views and lists of the nodes have their types, and one of any
\* two coordinators is the older one.
TypeOK ==
  /\ node \in [Nodes -> Records({NoPackets})]
  /\ cut \subseteq Links /\ cuts \in 0..MaxCuts
  /\ elder \subseteq Coordinators \X Coordinators
  /\ \A n, m \in Coordinators : <<n, m>> \in elder <=> ~(n = m \/ <<m, n>> \in elder)

\* A standby has a leader, another node: the handlers of the standby state use
\* WD_LEADER_NODE without a look whether it is set.
StandbyHasLeader ==
  \A n \in Nodes : node[n].state = "STANDBY" => node[n].leader \in Nodes \ {n}

\* A node that is escalated (holds the virtual IP) is a coordinator that leads,
\* and it and the standbys on its list are a majority of the nodes, or half of
\* them where that is enough.
EscalatedHasQuorum ==
  \A n \in Nodes : node[n].escalated =>
    LET votes == Cardinality(node[n].standbys) + 1
    IN  /\ node[n].state = "COORDINATOR" /\ node[n].leader = n
        /\ 2 * votes > Cardinality(Nodes) \/ (HalfVotes /\ 2 * votes = Cardinality(Nodes))

\* Nothing is under way between n and m.
Settled(n, m) == chan[n][m] = <<>> /\ chan[m][n] = <<>> /\ Link(n, m) \notin cut

\* The quorum is counted on the list of standbys: a node on it that a leader
\* can talk to is its standby, once all packets between the two have arrived.
ListsAreCurrent ==
  \A n \in Nodes : \A m \in node[n].standbys :
    Settled(n, m) => node[m].state = "STANDBY" /\ node[m].leader = n

\* No standby is forgotten: one that has joined is on the list of the leader
\* it has a connection to, which would refuse it the votes it counts on.
StandbysAreListed ==
  \A n \in Coordinators : \A m \in Nodes \ {n} :
    Settled(n, m) /\ node[m].state = "STANDBY" /\ node[m].leader = n /\ ~node[m].pending
      => m \in node[n].standbys

\* Two nodes that are escalated (hold the virtual IP) at the same time do not
\* survive the first packets that the nodes exchange after links heal.
OneEscalated ==
  (\A n \in Nodes : \A m \in Nodes \ {n} : Settled(n, m) /\ m \in node[n].conn)
    => Cardinality({n \in Nodes : node[n].escalated}) <= 1

\* Nodes do not answer each other for ever: without a timer the packets come to
\* an end, which the suppression of repeated service messages is for.
PacketsSettle == []<>Quiet
=============================================================================
