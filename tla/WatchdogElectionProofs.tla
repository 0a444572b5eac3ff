----------------------- MODULE WatchdogElectionProofs -----------------------
(***************************************************************************)
(* Proofs about the local state of a node in WatchdogElection, for any     *)
(* number of nodes, any priorities and any number of broken links.         *)
(***************************************************************************)
EXTENDS WatchdogElection, Iteration, FiniteSetTheorems, TLAPS

\* The provers a step is tried with, and the seconds each may take
USE ZenonT(2), SMTT(20), ZenonT(20)

\* the packets that are sent
PlainTypes == {"REQ_INFO", "STAND", "DECLARE", "JOIN", "ASK_INFO", "EOF", "APPEARING_LOST",
               "APPEARING_FOUND", "REQUIRE_TO_RELOAD", "IAM_TRUE_LEADER",
               "IAM_NOT_TRUE_LEADER", "IN_SPLIT_BRAIN", "RESIGNING_FROM_LEADER",
               "NEEDS_ELECTION"}
Plain == [type : PlainTypes]
Replies == [type : {"ACCEPT", "REJECT", "ERROR"}, of : {"STAND", "DECLARE", "JOIN"}]
Worths == {<<>>} \cup ({0, 1} \X (-1..1) \X Nat)
Infos == [type : {"INFO", "IAM_COORDINATOR", "ADD_NODE"},
          of : {None, "REQ_INFO", "ASK_INFO", "IAM_COORDINATOR"},
          state : States, worth : Worths]
Packets == Plain \cup Replies \cup Infos

\* the records of node n in the course of an event: it has no connection to itself
Typed(n) == {S \in Records([Nodes -> Seq(Packets)]) : S.self = n /\ n \notin S.conn}

\* Between two events a node that takes itself for the leader is a coordinator,
\* a standby has a leader, and an escalated node leads and has had the quorum.
Locals(n) == {S \in Typed(n) :
                /\ S.leader = n => S.state = "COORDINATOR"
                /\ S.state = "STANDBY" => S.leader # None
                /\ S.escalated => S.state = "COORDINATOR" /\ S.leader = n /\ S.quorum >= 0}

\* At the end of a round a coordinator knows whether it has the quorum.
Informed(S) == S.state = "COORDINATOR" => S.quorum = QuorumOf(S)

NodesInv == \A n \in Nodes : node[n] \in Locals(n) /\ Informed(node[n]) /\ node[n].out = NoPackets

\* No node sends a packet to itself.
Channels == {c \in [Nodes -> [Nodes -> Seq(Seq(Packets))]] : \A n \in Nodes : c[n][n] = <<>>}

\* The inductive invariant
ElectionInv == TypeOK /\ NodesInv /\ chan \in Channels

-----------------------------------------------------------------------------
(* The record of a node                                                    *)

\* The fields of a record.
LEMMA FieldTypes ==
  ASSUME NEW n \in Nodes, NEW S \in Typed(n)
  PROVE  /\ S.self = n /\ n \notin S.conn /\ S.state \in States
         /\ S.leader \in Nodes \cup {None} /\ S.conn \in SUBSET Nodes
         /\ S.view \in [Nodes -> States \cup {"LOST", "LOADING"}]
         /\ S.standbys \in SUBSET Nodes /\ S.waiting \in SUBSET Nodes
         /\ S.lostUs \in SUBSET Nodes /\ S.quorum \in -1..1
         /\ S.escalated \in BOOLEAN /\ S.pending \in BOOLEAN
         /\ S.out \in [Nodes -> Seq(Packets)] /\ S.bcast \in Services \cup {None}
  BY DEF Typed, Records

\* R has the role of S.
Alike(S, R) == /\ R.state = S.state /\ R.leader = S.leader
               /\ R.escalated = S.escalated /\ R.quorum = S.quorum

\* The changes that the handlers make to fields other than those of its role.
LEMMA FieldUpdates ==
  ASSUME NEW n \in Nodes, NEW S \in Typed(n)
  PROVE  /\ \A v \in [Nodes -> Seq(Packets)] :
              LET R == [S EXCEPT !.out = v]
              IN  /\ R \in Typed(n) /\ Alike(S, R) /\ R.out = v
                  /\ R.conn = S.conn /\ R.standbys = S.standbys
         /\ \A v \in [Nodes -> States \cup {"LOST", "LOADING"}] :
              LET R == [S EXCEPT !.view = v] IN R \in Typed(n) /\ Alike(S, R)
         /\ \A v \in SUBSET (Nodes \ {n}) :
              LET R == [S EXCEPT !.conn = v] IN R \in Typed(n) /\ Alike(S, R)
         /\ \A v \in SUBSET Nodes :
              LET R == [S EXCEPT !.standbys = v] IN R \in Typed(n) /\ Alike(S, R)
         /\ \A v \in SUBSET Nodes :
              LET R == [S EXCEPT !.lostUs = v] IN R \in Typed(n) /\ Alike(S, R)
         /\ \A v \in SUBSET Nodes :
              LET R == [S EXCEPT !.waiting = v] IN R \in Typed(n) /\ Alike(S, R)
         /\ \A v \in Services \cup {None} :
              LET R == [S EXCEPT !.bcast = v] IN R \in Typed(n) /\ Alike(S, R)
  BY ZenonT(20) DEF Typed, Records, Alike

\* A command begins or ends.
LEMMA PendingUpdate ==
  ASSUME NEW n \in Nodes, NEW S \in Typed(n)
  PROVE  \A p \in BOOLEAN : \A w \in SUBSET Nodes :
           LET R == [S EXCEPT !.pending = p, !.waiting = w] IN R \in Typed(n) /\ Alike(S, R)
  BY ZenonT(20) DEF Typed, Records, Alike

\* The leader of a node changes.
LEMMA LeaderUpdate ==
  ASSUME NEW n \in Nodes, NEW S \in Typed(n), NEW x \in Nodes \cup {None}
  PROVE  LET R == [S EXCEPT !.leader = x]
         IN  /\ R \in Typed(n) /\ R.state = S.state /\ R.leader = x
             /\ R.escalated = S.escalated /\ R.quorum = S.quorum
  BY ZenonT(20) DEF Typed, Records

\* The same for its state.
LEMMA StateUpdate ==
  ASSUME NEW n \in Nodes, NEW S \in Typed(n), NEW x \in States
  PROVE  LET R == [S EXCEPT !.state = x]
         IN  /\ R \in Typed(n) /\ R.state = x /\ R.leader = S.leader
             /\ R.escalated = S.escalated
  BY ZenonT(20) DEF Typed, Records

\* A node that keeps its state and its leader keeps the invariant.
LEMMA AlikeLocal ==
  ASSUME NEW n \in Nodes, NEW S \in Locals(n), NEW R \in Typed(n), Alike(S, R)
  PROVE  R \in Locals(n)
  BY DEF Locals, Alike

-----------------------------------------------------------------------------
(* Packets                                                                 *)

\* What a leader says of itself.
LEMMA WorthType ==
  ASSUME NEW n \in Nodes, NEW S \in Typed(n)
  PROVE  Worth(S) \in Worths
  <1>1. S.standbys \in SUBSET Nodes /\ S.quorum \in -1..1 /\ S.escalated \in BOOLEAN
    BY FieldTypes
  <1>2. Cardinality(S.standbys) \in Nat
    BY <1>1, ElectionAssumption, FS_Subset, FS_CardinalityType
  <1>3. (IF S.escalated THEN 1 ELSE 0) \in {0, 1}
    BY <1>1
  <1> QED BY <1>1, <1>2, <1>3 DEF Worth, Worths

\* The packets that the handlers make up.
LEMMA PacketTypes ==
  ASSUME NEW n \in Nodes, NEW S \in Typed(n)
  PROVE  /\ \A t \in PlainTypes : Packet(t) \in Packets
         /\ \A t \in {"INFO", "IAM_COORDINATOR", "ADD_NODE"} :
              \A o \in {None, "REQ_INFO", "ASK_INFO", "IAM_COORDINATOR"} :
                Info(S, t, o) \in Packets
         /\ \A p \in Packets : \A t \in {"ACCEPT", "REJECT", "ERROR"} :
              p.type \in {"STAND", "DECLARE", "JOIN"} => ReplyTo(p, t) \in Packets
  <1>1. \A t \in PlainTypes : Packet(t) \in Packets
    BY DEF Packet, Packets, Plain
  <1>2. \A t \in {"INFO", "IAM_COORDINATOR", "ADD_NODE"} :
          \A o \in {None, "REQ_INFO", "ASK_INFO", "IAM_COORDINATOR"} : Info(S, t, o) \in Packets
    BY FieldTypes, WorthType DEF Info, Packets, Infos
  <1>3. \A p \in Packets : \A t \in {"ACCEPT", "REJECT", "ERROR"} :
          p.type \in {"STAND", "DECLARE", "JOIN"} => ReplyTo(p, t) \in Packets
    BY DEF ReplyTo, Packets, Replies
  <1> QED BY <1>1, <1>2, <1>3

\* The node info of a packet is one.
LEMMA InfoFields ==
  ASSUME NEW p \in Packets, p.type \in {"INFO", "IAM_COORDINATOR", "ADD_NODE"}
  PROVE  p.state \in States
  BY DEF Packets, Plain, PlainTypes, Replies, Infos

\* Sending leaves the state, the leader and the connections.
LEMMA SendType ==
  ASSUME NEW n \in Nodes, NEW S \in Typed(n), NEW m, NEW p \in Packets
  PROVE  Send(S, m, p) \in Typed(n) /\ Alike(S, Send(S, m, p)) /\ Send(S, m, p).conn = S.conn
  <1>1. CASE m \in S.conn
    <2>1. m \in Nodes /\ S.out \in [Nodes -> Seq(Packets)]
      BY <1>1, FieldTypes
    <2>2. [S.out EXCEPT ![m] = Append(S.out[m], p)] \in [Nodes -> Seq(Packets)]
      BY <2>1
    <2>3. Send(S, m, p) = [S EXCEPT !.out = [S.out EXCEPT ![m] = Append(S.out[m], p)]]
      BY <1>1 DEF Send
    <2> DEFINE o == [S.out EXCEPT ![m] = Append(S.out[m], p)]
    <2>4. o \in [Nodes -> Seq(Packets)] /\ Send(S, m, p) = [S EXCEPT !.out = o]
      BY <2>2, <2>3
    <2> HIDE DEF o
    <2>5. [S EXCEPT !.out = o] \in Typed(n) /\ Alike(S, [S EXCEPT !.out = o])
          /\ [S EXCEPT !.out = o].conn = S.conn
      BY <2>4, FieldUpdates
    <2> QED BY <2>4, <2>5
  <1>2. CASE m \notin S.conn
    BY <1>2 DEF Send, Alike
  <1> QED BY <1>1, <1>2

\* The same for a packet to several nodes.
LEMMA SendAllType ==
  ASSUME NEW n \in Nodes, NEW S \in Typed(n), NEW to, NEW p \in Packets
  PROVE  /\ SendAll(S, to, p) \in Typed(n) /\ Alike(S, SendAll(S, to, p))
         /\ SendAll(S, to, p).standbys = S.standbys
  <1> DEFINE o == [m \in Nodes |-> IF m \in to \cap S.conn
                                     THEN Append(S.out[m], p) ELSE S.out[m]]
  <1>1. o \in [Nodes -> Seq(Packets)]
    BY FieldTypes
  <1>2. SendAll(S, to, p) = [S EXCEPT !.out = o]
    BY DEF SendAll
  <1> HIDE DEF o
  <1>3. [S EXCEPT !.out = o] \in Typed(n) /\ Alike(S, [S EXCEPT !.out = o])
        /\ [S EXCEPT !.out = o].standbys = S.standbys
    BY <1>1, FieldUpdates
  <1> QED BY <1>2, <1>3

\* A service message is one of those that a node remembers having sent.
LEMMA BroadcastType ==
  ASSUME NEW n \in Nodes, NEW S \in Typed(n), NEW t \in Services
  PROVE  BroadcastService(S, t) \in Typed(n) /\ Alike(S, BroadcastService(S, t))
  <1>1. [S EXCEPT !.bcast = t] \in Typed(n) /\ Alike(S, [S EXCEPT !.bcast = t])
    BY FieldUpdates
  <1>2. t \in PlainTypes
    BY DEF Services, PlainTypes
  <1>3. Packet(t) \in Packets
    BY <1>2, PacketTypes
  <1>4. SendAll([S EXCEPT !.bcast = t], Nodes, Packet(t)) \in Typed(n)
        /\ Alike([S EXCEPT !.bcast = t], SendAll([S EXCEPT !.bcast = t], Nodes, Packet(t)))
    BY <1>1, <1>3, SendAllType
  <1> QED BY <1>1, <1>4 DEF BroadcastService, Alike

-----------------------------------------------------------------------------
(* States                                                                  *)

\* A command is issued in the states that have one.
LEMMA CommandType ==
  ASSUME NEW n \in Nodes, NEW S \in Typed(n), NEW to,
         S.state \in {"JOINING", "STAND_FOR_COORDINATOR", "COORDINATOR", "STANDBY"}
  PROVE  Command(S, to) \in Typed(n) /\ Alike(S, Command(S, to))
  <1> DEFINE w == to \cap S.conn
             R == [S EXCEPT !.pending = TRUE, !.waiting = w]
  <1>1. CommandOf[S.state] \in PlainTypes
    BY DEF CommandOf, PlainTypes
  <1>2. Packet(CommandOf[S.state]) \in Packets
    BY <1>1, PacketTypes
  <1>3. w \in SUBSET Nodes /\ TRUE \in BOOLEAN
    BY FieldTypes
  <1>4. Command(S, to) = SendAll(R, to, Packet(CommandOf[S.state]))
    BY DEF Command
  <1> HIDE DEF w
  <1>5. R \in Typed(n) /\ Alike(S, R)
    BY <1>3, PendingUpdate, ZenonT(20)
  <1> HIDE DEF R
  <1>6. SendAll(R, to, Packet(CommandOf[S.state])) \in Typed(n)
        /\ Alike(R, SendAll(R, to, Packet(CommandOf[S.state])))
    BY <1>2, <1>5, SendAllType
  <1> QED BY <1>4, <1>5, <1>6 DEF Alike

\* A node enters its state: a joining node has no leader.
LEMMA EnterType ==
  ASSUME NEW n \in Nodes, NEW S \in Typed(n)
  PROVE  /\ Enter(S) \in Typed(n) /\ Enter(S).state = S.state
         /\ Enter(S).escalated = S.escalated
         /\ S.state = "JOINING" => Enter(S).leader = None
         /\ S.state # "JOINING" => Enter(S).leader = S.leader
  <1>1. CASE S.state = "JOINING"
    <2> DEFINE R == [S EXCEPT !.leader = None]
    <2>1. /\ R \in Typed(n) /\ R.state = S.state /\ R.leader = None
          /\ R.escalated = S.escalated
      BY LeaderUpdate
    <2>2. Enter(S) = Command(R, Active(S))
      BY <1>1 DEF Enter
    <2> HIDE DEF R
    <2>3. Command(R, Active(S)) \in Typed(n) /\ Alike(R, Command(R, Active(S)))
      BY <1>1, <2>1, CommandType
    <2> QED BY <1>1, <2>1, <2>2, <2>3 DEF Alike
  <1>2. CASE S.state \in {"STAND_FOR_COORDINATOR", "COORDINATOR"}
    <2>1. Enter(S) = Command(S, Active(S))
      BY <1>2 DEF Enter
    <2>2. Command(S, Active(S)) \in Typed(n) /\ Alike(S, Command(S, Active(S)))
      BY <1>2, CommandType
    <2> QED BY <1>2, <2>1, <2>2 DEF Alike
  <1>3. CASE S.state = "STANDBY"
    <2>1. Enter(S) = Command(S, {S.leader})
      BY <1>3 DEF Enter
    <2>2. Command(S, {S.leader}) \in Typed(n) /\ Alike(S, Command(S, {S.leader}))
      BY <1>3, CommandType
    <2> QED BY <1>3, <2>1, <2>2 DEF Alike
  <1>4. CASE S.state \notin {"JOINING", "STAND_FOR_COORDINATOR", "COORDINATOR", "STANDBY"}
    <2>1. Enter(S) = [S EXCEPT !.pending = FALSE, !.waiting = {}]
      BY <1>4 DEF Enter
    <2>2. FALSE \in BOOLEAN /\ {} \in SUBSET Nodes
      OBVIOUS
    <2>3. [S EXCEPT !.pending = FALSE, !.waiting = {}] \in Typed(n)
          /\ Alike(S, [S EXCEPT !.pending = FALSE, !.waiting = {}])
      BY <2>2, PendingUpdate, ZenonT(20)
    <2> QED BY <1>4, <2>1, <2>3 DEF Alike
  <1> QED BY <1>1, <1>2, <1>3, <1>4

\* A coordinator that leaves its state is no longer escalated.
LEMMA LeaveType ==
  ASSUME NEW n \in Nodes, NEW S \in Typed(n), S.escalated => S.state = "COORDINATOR"
  PROVE  /\ Leave(S) \in Typed(n) /\ Leave(S).leader = S.leader
         /\ Leave(S).escalated = FALSE
  <1>1. CASE S.state = "COORDINATOR"
    <2>1. Leave(S) = [S EXCEPT !.escalated = FALSE, !.standbys = {}]
      BY <1>1 DEF Leave
    <2>2. \A e \in BOOLEAN : \A b \in SUBSET Nodes :
            LET R == [S EXCEPT !.escalated = e, !.standbys = b]
            IN  R \in Typed(n) /\ R.leader = S.leader /\ R.escalated = e
      BY ZenonT(20) DEF Typed, Records
    <2>3. FALSE \in BOOLEAN /\ {} \in SUBSET Nodes
      OBVIOUS
    <2> QED BY <2>1, <2>2, <2>3, ZenonT(20)
  <1>2. CASE S.state # "COORDINATOR"
    <2>1. S.escalated = FALSE
      BY <1>2, FieldTypes
    <2> QED BY <1>2, <2>1 DEF Leave
  <1> QED BY <1>1, <1>2, ZenonT(20)

\* set_state: a node may become a standby when it has another one for its
\* leader; only a coordinator keeps itself as the leader.
LEMMA SetStateLocal ==
  ASSUME NEW n \in Nodes, NEW S \in Typed(n), NEW new \in States,
         new = "STANDBY" => S.leader \in Nodes \ {n},
         S.leader = n => new \in {"JOINING", "COORDINATOR"},
         S.escalated => S.state = "COORDINATOR",
         S.state # new \/ S \in Locals(n)
  PROVE  SetState(S, new) \in Locals(n)
  <1>1. CASE S.state = new
    BY <1>1 DEF SetState
  <1>2. CASE S.state # new
    <2> DEFINE L == Leave(S)
               R == [L EXCEPT !.state = new]
               E == Enter(R)
    <2>1. L \in Typed(n) /\ L.leader = S.leader /\ L.escalated = FALSE
      BY LeaveType, ZenonT(20)
    <2>2. SetState(S, new) = SendAll(E, Nodes, Info(E, "INFO", None))
      BY <1>2 DEF SetState
    <2> HIDE DEF L
    <2>3. R \in Typed(n) /\ R.state = new /\ R.leader = L.leader /\ R.escalated = FALSE
      BY <2>1, StateUpdate
    <2> HIDE DEF R
    <2>4. /\ E \in Typed(n) /\ E.state = new /\ E.escalated = FALSE
          /\ new = "JOINING" => E.leader = None
          /\ new # "JOINING" => E.leader = S.leader
      BY <2>1, <2>3, EnterType
    <2> HIDE DEF E
    <2>5. E \in Locals(n)
      BY <2>4, ElectionAssumption DEF Locals
    <2>6. Info(E, "INFO", None) \in Packets
      BY <2>4, PacketTypes
    <2>7. SendAll(E, Nodes, Info(E, "INFO", None)) \in Typed(n)
          /\ Alike(E, SendAll(E, Nodes, Info(E, "INFO", None)))
      BY <2>4, <2>6, SendAllType
    <2> QED BY <2>2, <2>5, <2>7, AlikeLocal
  <1> QED BY <1>1, <1>2

\* A node may always join again.
LEMMA JoinLocal ==
  ASSUME NEW n \in Nodes, NEW S \in Typed(n), S.escalated => S.state = "COORDINATOR",
         S.state # "JOINING" \/ S \in Locals(n)
  PROVE  SetState(S, "JOINING") \in Locals(n)
  <1>1. "JOINING" \in States
    BY DEF States
  <1> QED BY <1>1, SetStateLocal

\* A node that does not lead may take any state but that of a standby.
LEMMA ChangeLocal ==
  ASSUME NEW n \in Nodes, NEW S \in Locals(n), NEW new \in States \ {"STANDBY"},
         S.state # "COORDINATOR"
  PROVE  SetState(S, new) \in Locals(n)
  <1>1. S \in Typed(n) /\ S.leader # n /\ (S.escalated => S.state = "COORDINATOR")
    BY DEF Locals
  <1> QED BY <1>1, SetStateLocal

\* A standby is taken from the list.
LEMMA StandbyLeftType ==
  ASSUME NEW n \in Nodes, NEW S \in Typed(n), NEW m
  PROVE  StandbyLeft(S, m) \in Typed(n) /\ Alike(S, StandbyLeft(S, m))
  <1>1. S.standbys \ {m} \in SUBSET Nodes
    BY FieldTypes
  <1> DEFINE b == S.standbys \ {m}
  <1>2. StandbyLeft(S, m) = IF S.state = "COORDINATOR" THEN [S EXCEPT !.standbys = b] ELSE S
    BY DEF StandbyLeft
  <1> HIDE DEF b
  <1>3. [S EXCEPT !.standbys = b] \in Typed(n) /\ Alike(S, [S EXCEPT !.standbys = b])
    BY <1>1, FieldUpdates DEF b
  <1> QED BY <1>2, <1>3 DEF Alike

\* The quorum status is 1, 0 or -1.
LEMMA QuorumType ==
  ASSUME NEW n \in Nodes, NEW S \in Typed(n)
  PROVE  QuorumOf(S) \in -1..1
  <1>1. Cardinality(S.standbys) \in Nat /\ Cardinality(Nodes) \in Nat
    BY ElectionAssumption, FieldTypes, FS_Subset, FS_CardinalityType
  <1> QED BY <1>1, ElectionAssumption DEF QuorumOf, QuorumStatus, MinimumRemoteNodes

\* A coordinator looks at its quorum in every round.
LEMMA UpdateQuorumLocal ==
  ASSUME NEW n \in Nodes, NEW S \in Locals(n)
  PROVE  UpdateQuorum(S) \in Locals(n) /\ Informed(UpdateQuorum(S))
  <1> DEFINE q == QuorumOf(S)
             e == q >= 0
             R == [S EXCEPT !.quorum = q, !.escalated = e]
             Q == [S EXCEPT !.quorum = q]
             T == SendAll(R, Nodes, Info(R, "INFO", None))
  <1>1. S \in Typed(n) /\ S.self = n
    BY FieldTypes DEF Locals
  <1>2. q \in -1..1 /\ e \in BOOLEAN /\ (e => q >= 0)
    BY <1>1, QuorumType
  <1>3. \A X : X.standbys = S.standbys => QuorumOf(X) = q
    BY DEF QuorumOf
  <1>11. S.state # "COORDINATOR" \/ q = S.quorum => UpdateQuorum(S) = S
    BY DEF UpdateQuorum
  <1>12. S.state = "COORDINATOR" /\ q # S.quorum /\ S.leader = n => UpdateQuorum(S) = T
    BY <1>1 DEF UpdateQuorum
  <1>13. S.state = "COORDINATOR" /\ q # S.quorum /\ S.leader # n => UpdateQuorum(S) = Q
    BY <1>1 DEF UpdateQuorum
  <1> HIDE DEF q, e
  <1>4. /\ R \in Typed(n) /\ R.state = S.state /\ R.leader = S.leader
        /\ R.quorum = q /\ R.escalated = e /\ R.standbys = S.standbys
    <2>1. \A x \in -1..1 : \A y \in BOOLEAN :
            LET X == [S EXCEPT !.quorum = x, !.escalated = y]
            IN  /\ X \in Typed(n) /\ X.state = S.state /\ X.leader = S.leader
                /\ X.quorum = x /\ X.escalated = y /\ X.standbys = S.standbys
      BY <1>1, ZenonT(20) DEF Typed, Records
    <2> QED BY <1>2, <2>1, ZenonT(20)
  <1>5. /\ Q \in Typed(n) /\ Q.state = S.state /\ Q.leader = S.leader
        /\ Q.quorum = q /\ Q.escalated = S.escalated /\ Q.standbys = S.standbys
    BY <1>1, <1>2, ZenonT(20) DEF Typed, Records
  <1> HIDE DEF R, Q
  <1>6. Info(R, "INFO", None) \in Packets
    BY <1>4, PacketTypes
  <1>7. T \in Typed(n) /\ Alike(R, T) /\ T.standbys = R.standbys
    BY <1>4, <1>6, SendAllType
  <1> HIDE DEF T
  <1>8. CASE S.state # "COORDINATOR" \/ q = S.quorum
    <2>1. UpdateQuorum(S) = S
      BY <1>8, <1>11
    <2>2. Informed(S)
      BY <1>3, <1>8 DEF Informed
    <2> QED BY <2>1, <2>2
  <1>9. CASE S.state = "COORDINATOR" /\ q # S.quorum /\ S.leader = n
    <2>1. UpdateQuorum(S) = T
      BY <1>9, <1>12
    <2>2. T \in Locals(n)
      BY <1>2, <1>4, <1>7, <1>9, ElectionAssumption DEF Locals, Alike
    <2>3. Informed(T)
      BY <1>3, <1>4, <1>7 DEF Informed, Alike
    <2> QED BY <2>1, <2>2, <2>3
  <1>10. CASE S.state = "COORDINATOR" /\ q # S.quorum /\ S.leader # n
    <2>1. UpdateQuorum(S) = Q
      BY <1>10, <1>13
    <2>2. Q \in Locals(n)
      BY <1>5, <1>10 DEF Locals
    <2>3. Informed(Q)
      BY <1>3, <1>5 DEF Informed
    <2> QED BY <2>1, <2>2, <2>3
  <1> QED BY <1>8, <1>9, <1>10

\* The declaration of a coordinator is accepted.
LEMMA LeadLocal ==
  ASSUME NEW n \in Nodes, NEW S \in Typed(n), S.state = "COORDINATOR"
  PROVE  Lead(S) \in Locals(n)
  <1> DEFINE q == QuorumOf(S)
             e == q >= 0
             R == [S EXCEPT !.leader = n, !.quorum = q, !.escalated = e]
  <1>1. q \in -1..1 /\ e \in BOOLEAN /\ (e => q >= 0) /\ S.self = n
    BY QuorumType, FieldTypes
  <1>2. Lead(S) = R
    BY <1>1 DEF Lead
  <1> HIDE DEF q, e
  <1>3. \A x \in -1..1 : \A y \in BOOLEAN :
          LET T == [S EXCEPT !.leader = n, !.quorum = x, !.escalated = y]
          IN  /\ T \in Typed(n) /\ T.state = S.state /\ T.leader = n
              /\ T.quorum = x /\ T.escalated = y
    BY ZenonT(20) DEF Typed, Records
  <1>4. /\ R \in Typed(n) /\ R.state = S.state /\ R.leader = n
        /\ R.quorum = q /\ R.escalated = e
    BY <1>1, <1>3, ZenonT(20)
  <1> HIDE DEF R
  <1> QED BY <1>1, <1>2, <1>4 DEF Locals

-----------------------------------------------------------------------------
(* Nodes lost and found, split brain                                       *)

\* The invariant through the operations that leave the role alone, and through
\* a new start.
LEMMA QuietLocal ==
  ASSUME NEW n \in Nodes, NEW S \in Locals(n)
  PROVE  /\ S \in Typed(n)
         /\ \A m : \A p \in Packets : Send(S, m, p) \in Locals(n) /\ Alike(S, Send(S, m, p))
         /\ \A to : \A p \in Packets : SendAll(S, to, p) \in Locals(n)
         /\ \A t \in Services :
              BroadcastService(S, t) \in Locals(n) /\ Alike(S, BroadcastService(S, t))
         /\ \A m : StandbyLeft(S, m) \in Locals(n)
         /\ SetState(S, "JOINING") \in Locals(n)
  <1>1. S \in Typed(n)
    BY DEF Locals
  <1>2. ASSUME NEW m, NEW p \in Packets
        PROVE  Send(S, m, p) \in Locals(n) /\ Alike(S, Send(S, m, p))
    BY <1>1, SendType, AlikeLocal
  <1>3. ASSUME NEW to, NEW p \in Packets PROVE SendAll(S, to, p) \in Locals(n)
    BY <1>1, SendAllType, AlikeLocal
  <1>4. ASSUME NEW t \in Services
        PROVE  BroadcastService(S, t) \in Locals(n) /\ Alike(S, BroadcastService(S, t))
    BY <1>1, BroadcastType, AlikeLocal
  <1>5. ASSUME NEW m PROVE StandbyLeft(S, m) \in Locals(n)
    BY <1>1, StandbyLeftType, AlikeLocal
  <1>6. S.escalated => S.state = "COORDINATOR"
    BY DEF Locals
  <1>7. SetState(S, "JOINING") \in Locals(n)
    BY <1>1, <1>6, JoinLocal
  <1> QED BY <1>1, <1>2, <1>3, <1>4, <1>5, <1>7

\* The plain packets, by name.
LEMMA PlainPackets ==
  \A t \in PlainTypes : Packet(t) \in Packets
  BY DEF Packet, Packets, Plain

\* A node hears of another one.
LEMMA ViewType ==
  ASSUME NEW n \in Nodes, NEW S \in Typed(n), NEW m \in Nodes,
         NEW v \in States \cup {"LOST", "LOADING"}
  PROVE  [S EXCEPT !.view[m] = v] \in Typed(n) /\ Alike(S, [S EXCEPT !.view[m] = v])
  <1> DEFINE w == [S.view EXCEPT ![m] = v]
  <1>1. w \in [Nodes -> States \cup {"LOST", "LOADING"}]
    BY FieldTypes
  <1>2. [S EXCEPT !.view[m] = v] = [S EXCEPT !.view = w]
    OBVIOUS
  <1> HIDE DEF w
  <1>3. [S EXCEPT !.view = w] \in Typed(n) /\ Alike(S, [S EXCEPT !.view = w])
    BY <1>1, FieldUpdates
  <1> QED BY <1>2, <1>3

\* A connection is closed.
LEMMA CloseType ==
  ASSUME NEW n \in Nodes, NEW S \in Typed(n), NEW m
  PROVE  Close(S, m) \in Typed(n) /\ Alike(S, Close(S, m))
  <1> DEFINE R == Send(S, m, Packet("EOF"))
             c == R.conn \ {m}
  <1>1. "EOF" \in PlainTypes
    BY DEF PlainTypes
  <1>2. Packet("EOF") \in Packets
    BY <1>1, PlainPackets
  <1>3. R \in Typed(n) /\ Alike(S, R)
    BY <1>2, SendType
  <1>4. Close(S, m) \in {S, [R EXCEPT !.conn = c]}
    BY DEF Close
  <1> HIDE DEF R
  <1>5. c \in SUBSET (Nodes \ {n})
    BY <1>3, FieldTypes
  <1> HIDE DEF c
  <1>6. [R EXCEPT !.conn = c] \in Typed(n) /\ Alike(R, [R EXCEPT !.conn = c])
    BY <1>3, <1>5, FieldUpdates, ZenonT(20)
  <1>7. Alike(S, [R EXCEPT !.conn = c]) /\ Alike(S, S)
    BY <1>3, <1>6 DEF Alike
  <1> QED BY <1>4, <1>6, <1>7

\* A node is lost: a standby whose leader it was joins again.
LEMMA LostLocal ==
  ASSUME NEW n \in Nodes, NEW S \in Locals(n), NEW m \in Nodes \ {n}
  PROVE  Lost(S, m) \in Locals(n)
  <1> DEFINE V == [S EXCEPT !.view[m] = "LOST"]
             told == Send(V, m, Packet("APPEARING_LOST"))
             x == IF told.leader = m THEN None ELSE told.leader
             U == [told EXCEPT !.leader = x]
             closed == Close(U, m)
  <1>1. Lost(S, m) = CASE S.state = "COORDINATOR" -> StandbyLeft(closed, m)
                       [] S.state = "STANDBY" /\ closed.leader = None -> SetState(closed, "JOINING")
                       [] OTHER -> closed
    BY DEF Lost
  <1>2. S \in Typed(n) /\ V \in Typed(n) /\ Alike(S, V)
    BY ViewType DEF Locals
  <1> HIDE DEF V
  <1>3. "APPEARING_LOST" \in PlainTypes
    BY DEF PlainTypes
  <1>4. told \in Typed(n) /\ Alike(V, told)
    BY <1>2, <1>3, PlainPackets, SendType
  <1> HIDE DEF told
  <1>5. x \in Nodes \cup {None}
    BY <1>4, FieldTypes
  <1>6. /\ U \in Typed(n) /\ U.state = told.state /\ U.leader = x
        /\ U.escalated = told.escalated /\ U.quorum = told.quorum
    <2> HIDE DEF x
    <2> QED BY <1>4, <1>5, LeaderUpdate
  <1> HIDE DEF U
  <1>7. closed \in Typed(n) /\ Alike(U, closed)
    BY <1>6, CloseType
  <1> HIDE DEF closed
  <1>8. /\ closed.state = S.state /\ closed.leader \in {S.leader, None}
        /\ S.leader = n => closed.leader = n
        /\ closed.escalated = S.escalated /\ closed.quorum = S.quorum
    BY <1>2, <1>4, <1>6, <1>7 DEF Alike
  <1>9. CASE S.state = "COORDINATOR"
    <2>1. closed \in Locals(n)
      BY <1>7, <1>8, <1>9 DEF Locals
    <2> QED BY <1>1, <1>9, <2>1, QuietLocal
  <1>10. CASE S.state = "STANDBY" /\ closed.leader = None
    <2>1. ~S.escalated
      BY <1>10 DEF Locals
    <2>2. SetState(closed, "JOINING") \in Locals(n)
      BY <1>7, <1>8, <1>10, <2>1, JoinLocal
    <2> QED BY <1>1, <1>10, <2>2
  <1>11. CASE S.state # "COORDINATOR" /\ ~(S.state = "STANDBY" /\ closed.leader = None)
    <2>1. closed \in Locals(n)
      BY <1>7, <1>8, <1>11, ElectionAssumption DEF Locals
    <2> QED BY <1>1, <1>11, <2>1
  <1> QED BY <1>9, <1>10, <1>11

\* A node is found again.
LEMMA FoundLocal ==
  ASSUME NEW n \in Nodes, NEW S \in Locals(n), NEW m \in Nodes
  PROVE  Found(S, m) \in Locals(n)
  <1> DEFINE V == [S EXCEPT !.view[m] = "LOADING"]
             found == Send(V, m, Packet("APPEARING_FOUND"))
             asked == Send(found, m, Packet("ASK_INFO"))
  <1>1. Found(S, m) = CASE S.state = "COORDINATOR" ->
                             Send(asked, m, Packet("REQUIRE_TO_RELOAD"))
                        [] S.state = "NETWORK_ISOLATION" -> SetState(found, "JOINING")
                        [] OTHER -> found
    BY DEF Found
  <1>2. V \in Typed(n) /\ Alike(S, V)
    BY ViewType DEF Locals
  <1>3. V \in Locals(n)
    BY <1>2, AlikeLocal
  <1> HIDE DEF V
  <1>4. {"APPEARING_FOUND", "ASK_INFO", "REQUIRE_TO_RELOAD"} \subseteq PlainTypes
    BY DEF PlainTypes
  <1>5. /\ Packet("APPEARING_FOUND") \in Packets /\ Packet("ASK_INFO") \in Packets
        /\ Packet("REQUIRE_TO_RELOAD") \in Packets
    BY <1>4, PlainPackets
  <1>6. found \in Locals(n)
    BY <1>3, <1>5, QuietLocal, ZenonT(20)
  <1> HIDE DEF found
  <1>7. asked \in Locals(n)
    BY <1>5, <1>6, QuietLocal
  <1> HIDE DEF asked
  <1>8. Send(asked, m, Packet("REQUIRE_TO_RELOAD")) \in Locals(n)
    BY <1>5, <1>7, QuietLocal
  <1>9. SetState(found, "JOINING") \in Locals(n)
    BY <1>6, QuietLocal
  <1>10. Found(S, m) \in {Send(asked, m, Packet("REQUIRE_TO_RELOAD")),
                          SetState(found, "JOINING"), found}
    BY <1>1
  <1> QED BY <1>6, <1>8, <1>9, <1>10

\* A coordinator that sees another one joins it, or insists.
LEMMA SplitBrainLocal ==
  ASSUME NEW n \in Nodes, NEW S \in Locals(n), NEW m, NEW p, NEW older
  PROVE  HandleSplitBrain(S, m, p, older) \in Locals(n)
  <1> DEFINE B == BroadcastService(S, "IAM_NOT_TRUE_LEADER")
  <1>1. "IAM_NOT_TRUE_LEADER" \in Services /\ "IAM_TRUE_LEADER" \in PlainTypes
    BY DEF Services, PlainTypes
  <1>2. B \in Locals(n)
    BY <1>1, QuietLocal
  <1>3. Send(S, m, Packet("IAM_TRUE_LEADER")) \in Locals(n)
    BY <1>1, PlainPackets, QuietLocal
  <1>4. HandleSplitBrain(S, m, p, older)
          \in {SetState(B, "JOINING"), Send(S, m, Packet("IAM_TRUE_LEADER"))}
    BY DEF HandleSplitBrain
  <1> HIDE DEF B
  <1>5. SetState(B, "JOINING") \in Locals(n)
    BY <1>2, QuietLocal
  <1> QED BY <1>3, <1>4, <1>5

-----------------------------------------------------------------------------
(* Packets that most states handle alike                                   *)

\* Node info: a node that knows no leader takes the sender that says so for it.
LEMMA InfoLocal ==
  ASSUME NEW n \in Nodes, NEW S \in Locals(n), NEW m \in Nodes \ {n},
         NEW p \in Packets, p.type = "INFO", NEW older
  PROVE  InfoOnce(S, m, p, older) \in Locals(n)
  <1> DEFINE known == [S EXCEPT !.view[m] = p.state]
             led == [known EXCEPT !.leader = m]
             checked ==
               CASE p.state = "COORDINATOR" /\ S.leader = None -> led
                 [] p.state = "COORDINATOR" /\ S.leader \notin {None, m} ->
                      IF S.state = "COORDINATOR" THEN HandleSplitBrain(known, m, p, older)
                      ELSE BroadcastService(known, "IN_SPLIT_BRAIN")
                 [] p.state # "COORDINATOR" /\ S.leader = m -> SetState(known, "JOINING")
                 [] OTHER -> known
             left == IF S.view[m] = "STANDBY" /\ p.state # "STANDBY"
                     THEN StandbyLeft(checked, m) ELSE checked
  <1>1. InfoOnce(S, m, p, older) \in {left, Found(left, m)}
    BY DEF InfoOnce
  <1>2. p.state \in States
    BY InfoFields
  <1>3. known \in Typed(n) /\ Alike(S, known)
    BY <1>2, ViewType DEF Locals
  <1>4. known \in Locals(n)
    BY <1>3, AlikeLocal
  <1>5. checked \in {HandleSplitBrain(known, m, p, older),
                     BroadcastService(known, "IN_SPLIT_BRAIN"),
                     SetState(known, "JOINING"), known}
        \/ (checked = led /\ S.leader = None)
    OBVIOUS
  <1> HIDE DEF known
  <1>6. /\ led \in Typed(n) /\ led.leader = m /\ led.state = known.state
        /\ led.escalated = known.escalated
    BY <1>3, LeaderUpdate
  <1>7. S.leader = None => led \in Locals(n)
    BY <1>3, <1>4, <1>6, ElectionAssumption, ZenonT(20) DEF Locals, Alike
  <1> HIDE DEF led
  <1>8. "IN_SPLIT_BRAIN" \in Services
    BY DEF Services
  <1>9. /\ HandleSplitBrain(known, m, p, older) \in Locals(n)
        /\ BroadcastService(known, "IN_SPLIT_BRAIN") \in Locals(n)
        /\ SetState(known, "JOINING") \in Locals(n)
    BY <1>3, <1>4, <1>8, SplitBrainLocal, QuietLocal
  <1>10. checked \in Locals(n)
    BY <1>4, <1>5, <1>7, <1>9
  <1> HIDE DEF checked
  <1>11. left \in Locals(n)
    BY <1>10, QuietLocal
  <1> HIDE DEF left
  <1> QED BY <1>1, <1>11, FoundLocal

\* A beacon in the states without a handler for it
LEMMA StandardBeaconLocal ==
  ASSUME NEW n \in Nodes, NEW S \in Locals(n), NEW m \in Nodes,
         NEW p \in Packets, p.type = "IAM_COORDINATOR"
  PROVE  StandardBeacon(S, m, p) \in Locals(n)
  <1> DEFINE known == [S EXCEPT !.view[m] = p.state]
  <1>1. StandardBeacon(S, m, p) \in {S, Send(known, m, Info(S, "INFO", "IAM_COORDINATOR")),
                                     BroadcastService(S, "IN_SPLIT_BRAIN")}
    BY DEF StandardBeacon
  <1>2. p.state \in States
    BY InfoFields
  <1>3. S \in Typed(n) /\ known \in Typed(n) /\ Alike(S, known)
    BY <1>2, ViewType DEF Locals
  <1>4. known \in Locals(n)
    BY <1>3, AlikeLocal
  <1> HIDE DEF known
  <1>5. Info(S, "INFO", "IAM_COORDINATOR") \in Packets /\ "IN_SPLIT_BRAIN" \in Services
    BY <1>3, PacketTypes DEF Services
  <1>6. Send(known, m, Info(S, "INFO", "IAM_COORDINATOR")) \in Locals(n)
        /\ BroadcastService(S, "IN_SPLIT_BRAIN") \in Locals(n)
    BY <1>4, <1>5, QuietLocal, ZenonT(20)
  <1> QED BY <1>1, <1>6

\* Service messages
LEMMA ServiceLocal ==
  ASSUME NEW n \in Nodes, NEW S \in Locals(n), NEW m \in Nodes, NEW p
  PROVE  Service(S, m, p) \in Locals(n)
  <1> DEFINE B(t) == BroadcastService(S, t)
             lost == [S EXCEPT !.lostUs = S.lostUs \cup {m}]
             found == [S EXCEPT !.lostUs = S.lostUs \ {m}]
             Replies1 == {S, SetState(B("RESIGNING_FROM_LEADER"), "JOINING"),
                          SetState(B("NEEDS_ELECTION"), "JOINING"), SetState(S, "JOINING"),
                          SendAll(S, Nodes, Info(S, "IAM_COORDINATOR", None)),
                          SetState(lost, "JOINING"), StandbyLeft(lost, m)}
             Replies2 == {Send(found, m, Packet("REQUIRE_TO_RELOAD")),
                          Send(found, m, Info(S, "INFO", None)),
                          SetState(found, "JOINING"), found}
  <1>1. \/ Service(S, m, p) \in Replies1 \cup Replies2
        \/ S.state = "STANDBY" /\ Service(S, m, p) = Command(S, {S.leader})
    BY DEF Service
  <1>2. S \in Typed(n)
    BY DEF Locals
  <1>3. lost \in Typed(n) /\ Alike(S, lost) /\ found \in Typed(n) /\ Alike(S, found)
    <2> DEFINE l == S.lostUs \cup {m}
               f == S.lostUs \ {m}
    <2>1. l \in SUBSET Nodes /\ f \in SUBSET Nodes
      BY <1>2, FieldTypes
    <2> HIDE DEF l, f
    <2>2. \A v \in SUBSET Nodes : [S EXCEPT !.lostUs = v] \in Typed(n)
                                  /\ Alike(S, [S EXCEPT !.lostUs = v])
      BY <1>2, FieldUpdates, ZenonT(20)
    <2>3. /\ [S EXCEPT !.lostUs = l] \in Typed(n) /\ Alike(S, [S EXCEPT !.lostUs = l])
          /\ [S EXCEPT !.lostUs = f] \in Typed(n) /\ Alike(S, [S EXCEPT !.lostUs = f])
      BY <2>1, <2>2
    <2> QED BY <2>3 DEF l, f
  <1>4. lost \in Locals(n) /\ found \in Locals(n)
    BY <1>3, AlikeLocal
  <1> HIDE DEF lost, found
  <1>5. {"RESIGNING_FROM_LEADER", "NEEDS_ELECTION"} \subseteq Services
        /\ "REQUIRE_TO_RELOAD" \in PlainTypes
    BY DEF Services, PlainTypes
  <1>6. B("RESIGNING_FROM_LEADER") \in Locals(n) /\ B("NEEDS_ELECTION") \in Locals(n)
    BY <1>5, QuietLocal
  <1> HIDE DEF B
  <1>7. /\ Packet("REQUIRE_TO_RELOAD") \in Packets
        /\ Info(S, "IAM_COORDINATOR", None) \in Packets /\ Info(S, "INFO", None) \in Packets
    BY <1>2, <1>5, PacketTypes
  <1>8. \A R \in Locals(n) : SetState(R, "JOINING") \in Locals(n)
    BY QuietLocal
  <1>9. Replies1 \subseteq Locals(n)
    BY <1>4, <1>6, <1>7, <1>8, QuietLocal
  <1>10. Replies2 \subseteq Locals(n)
    BY <1>4, <1>7, <1>8, QuietLocal
  <1> HIDE DEF Replies1, Replies2
  <1>11. S.state = "STANDBY" => Command(S, {S.leader}) \in Locals(n)
    BY <1>2, CommandType, AlikeLocal
  <1> QED BY <1>1, <1>9, <1>10, <1>11

-----------------------------------------------------------------------------
(* Packets that the states handle differently                              *)

\* Replies leave state and leader alone.
LEMMA ReplyLocal ==
  ASSUME NEW n \in Nodes, NEW S \in Locals(n), NEW m, NEW p \in Packets,
         p.type \in {"STAND", "DECLARE", "JOIN"}
  PROVE  /\ \A t \in {"ACCEPT", "REJECT", "ERROR"} :
              Reply(S, m, p, t) \in Locals(n) /\ Alike(S, Reply(S, m, p, t))
         /\ Defend(S, m, p) \in Locals(n)
  <1>1. ASSUME NEW t \in {"ACCEPT", "REJECT", "ERROR"}
        PROVE  Reply(S, m, p, t) \in Locals(n) /\ Alike(S, Reply(S, m, p, t))
    <2>1. ReplyTo(p, t) \in Packets
      BY PacketTypes, QuietLocal
    <2> QED BY <2>1, QuietLocal DEF Reply
  <1>2. "ASK_INFO" \in PlainTypes
    BY DEF PlainTypes
  <1>3. Defend(S, m, p) \in Locals(n)
    <2> DEFINE R == Reply(S, m, p, "ERROR")
    <2>1. R \in Locals(n)
      BY <1>1
    <2>2. Defend(S, m, p) = Send(R, S.leader, Packet("ASK_INFO"))
      BY DEF Defend
    <2> HIDE DEF R
    <2> QED BY <1>2, <2>1, <2>2, PlainPackets, QuietLocal
  <1> QED BY <1>1, <1>3

\* After a reply, a node that does not lead may change its state.
LEMMA ReplyAndChange ==
  ASSUME NEW n \in Nodes, NEW S \in Locals(n), NEW m, NEW p \in Packets,
         p.type \in {"STAND", "DECLARE", "JOIN"}, S.state # "COORDINATOR",
         NEW t \in {"ACCEPT", "REJECT"},
         NEW new \in {"JOINING", "INITIALIZING", "STAND_FOR_COORDINATOR",
                      "PARTICIPATE_IN_ELECTION"}
  PROVE  SetState(Reply(S, m, p, t), new) \in Locals(n)
  <1> DEFINE R == Reply(S, m, p, t)
  <1>1. R \in Locals(n) /\ R.state # "COORDINATOR"
    BY ReplyLocal DEF Alike
  <1>2. new \in States \ {"STANDBY"}
    BY DEF States
  <1> HIDE DEF R
  <1>3. SetState(R, new) \in Locals(n)
    BY <1>1, <1>2, ChangeLocal
  <1> QED BY <1>3 DEF R

\* A candidate asks for the lead.
LEMMA StandLocal ==
  ASSUME NEW n \in Nodes, NEW S \in Locals(n), NEW m, NEW p \in Packets, p.type = "STAND"
  PROVE  StandForCoordinator(S, m, p) \in Locals(n)
  <1> DEFINE R(t) == Reply(S, m, p, t)
             J(t, new) == SetState(R(t), new)
             D == Defend(S, m, p)
  <1>1. /\ StandForCoordinator(S, m, p)
             \in {R("REJECT"), J("REJECT", "STAND_FOR_COORDINATOR"),
                  J("ACCEPT", "PARTICIPATE_IN_ELECTION"), D, S}
        /\ S.state = "COORDINATOR" => StandForCoordinator(S, m, p) = R("REJECT")
    BY DEF StandForCoordinator
  <1>2. R("REJECT") \in Locals(n) /\ D \in Locals(n)
    BY ReplyLocal
  <1>3. S.state # "COORDINATOR" => /\ J("REJECT", "STAND_FOR_COORDINATOR") \in Locals(n)
                                   /\ J("ACCEPT", "PARTICIPATE_IN_ELECTION") \in Locals(n)
    BY ReplyAndChange
  <1> HIDE DEF R, J, D
  <1> QED BY <1>1, <1>2, <1>3

\* A candidate declares itself the coordinator.
LEMMA DeclareLocal ==
  ASSUME NEW n \in Nodes, NEW S \in Locals(n), NEW m, NEW p \in Packets, p.type = "DECLARE"
  PROVE  DeclareCoordinator(S, m, p) \in Locals(n)
  <1> DEFINE R(t) == Reply(S, m, p, t)
             J(t, new) == SetState(R(t), new)
             D == Defend(S, m, p)
  <1>1. /\ DeclareCoordinator(S, m, p)
             \in {R("REJECT"), R("ERROR"), J("REJECT", "STAND_FOR_COORDINATOR"),
                  J("ACCEPT", "JOINING"), J("ACCEPT", "INITIALIZING"), D, S}
        /\ S.state = "COORDINATOR" => DeclareCoordinator(S, m, p) = R("ERROR")
    BY DEF DeclareCoordinator
  <1>2. R("REJECT") \in Locals(n) /\ R("ERROR") \in Locals(n) /\ D \in Locals(n)
    BY ReplyLocal
  <1>3. S.state # "COORDINATOR" => /\ J("REJECT", "STAND_FOR_COORDINATOR") \in Locals(n)
                                   /\ J("ACCEPT", "JOINING") \in Locals(n)
                                   /\ J("ACCEPT", "INITIALIZING") \in Locals(n)
    BY ReplyAndChange
  <1> HIDE DEF R, J, D
  <1> QED BY <1>1, <1>2, <1>3

\* A beacon of a coordinator
LEMMA BeaconLocal ==
  ASSUME NEW n \in Nodes, NEW S \in Locals(n), NEW m \in Nodes,
         NEW p \in Packets, p.type = "IAM_COORDINATOR", NEW older
  PROVE  Beacon(S, m, p, older) \in Locals(n)
  <1> DEFINE known == [S EXCEPT !.view[m] = p.state]
  <1>1. Beacon(S, m, p, older)
          \in {HandleSplitBrain(known, m, p, older), SetState(S, "JOINING"),
               StandardBeacon(S, m, p)}
    BY DEF Beacon
  <1>2. p.state \in States
    BY InfoFields
  <1>3. known \in Typed(n) /\ Alike(S, known)
    BY <1>2, ViewType DEF Locals
  <1>4. known \in Locals(n)
    BY <1>3, AlikeLocal
  <1> HIDE DEF known
  <1> QED BY <1>1, <1>4, SplitBrainLocal, QuietLocal, StandardBeaconLocal

\* A standby joins.
LEMMA JoinCoordinatorLocal ==
  ASSUME NEW n \in Nodes, NEW S \in Locals(n), NEW m \in Nodes, NEW p \in Packets,
         p.type = "JOIN"
  PROVE  JoinCoordinator(S, m, p) \in Locals(n)
  <1> DEFINE A == Reply(S, m, p, "ACCEPT")
             b == A.standbys \cup {m}
  <1>1. JoinCoordinator(S, m, p) \in {[A EXCEPT !.standbys = b], A, Reply(S, m, p, "REJECT")}
    BY DEF JoinCoordinator
  <1>2. A \in Locals(n) /\ Reply(S, m, p, "REJECT") \in Locals(n)
    BY ReplyLocal
  <1> HIDE DEF A
  <1>3. A \in Typed(n)
    BY <1>2 DEF Locals
  <1>4. b \in SUBSET Nodes
    BY <1>3, FieldTypes
  <1> HIDE DEF b
  <1>5. [A EXCEPT !.standbys = b] \in Typed(n) /\ Alike(A, [A EXCEPT !.standbys = b])
    BY <1>3, <1>4, FieldUpdates
  <1>6. [A EXCEPT !.standbys = b] \in Locals(n)
    BY <1>2, <1>5, AlikeLocal
  <1> QED BY <1>1, <1>2, <1>6

\* A node connects again.
LEMMA AddNodeLocal ==
  ASSUME NEW n \in Nodes, NEW S \in Locals(n), NEW m \in Nodes, NEW p \in Packets,
         p.type = "ADD_NODE"
  PROVE  AddNode(S, m, p) \in Locals(n)
  <1> DEFINE known == [S EXCEPT !.view[m] = p.state]
             left == IF S.state = "STANDBY" /\ S.leader = m THEN SetState(known, "JOINING")
                     ELSE StandbyLeft(known, m)
             told == Send(left, m, Info(left, "INFO", None))
  <1>1. AddNode(S, m, p) \in {Found(told, m), known}
    BY DEF AddNode
  <1>2. p.state \in States
    BY InfoFields
  <1>3. known \in Typed(n) /\ Alike(S, known)
    BY <1>2, ViewType DEF Locals
  <1>4. known \in Locals(n)
    BY <1>3, AlikeLocal
  <1> HIDE DEF known
  <1>5. left \in Locals(n)
    BY <1>4, QuietLocal
  <1> HIDE DEF left
  <1>6. Info(left, "INFO", None) \in Packets
    BY <1>5, QuietLocal, PacketTypes
  <1>7. told \in Locals(n)
    BY <1>5, <1>6, QuietLocal, ZenonT(20)
  <1> HIDE DEF told
  <1> QED BY <1>1, <1>4, <1>7, FoundLocal

\* A command is finished: an accepted coordinator leads, others change state.
LEMMA FinishedLocal ==
  ASSUME NEW n \in Nodes, NEW S \in Locals(n), NEW answer
  PROVE  Finished(S, answer) \in Locals(n)
  <1> DEFINE done == [S EXCEPT !.pending = FALSE, !.waiting = {}]
             J(new) == SetState(done, new)
  <1>1. /\ S.state = "COORDINATOR" => Finished(S, answer) \in {J("JOINING"), Lead(done)}
        /\ S.state # "COORDINATOR" =>
             Finished(S, answer)
               \in {J("INITIALIZING"), J("NETWORK_ISOLATION"), J("PARTICIPATE_IN_ELECTION"),
                    J("COORDINATOR"), J("JOINING"), SendAll(done, Nodes, Info(done, "INFO", None))}
    BY DEF Finished
  <1>2. S \in Typed(n) /\ FALSE \in BOOLEAN /\ {} \in SUBSET Nodes
    BY DEF Locals
  <1>3. done \in Typed(n) /\ Alike(S, done)
    BY <1>2, PendingUpdate, ZenonT(20)
  <1>4. done \in Locals(n)
    BY <1>3, AlikeLocal
  <1> HIDE DEF done
  <1>5. Info(done, "INFO", None) \in Packets
    BY <1>3, PacketTypes
  <1>6. SendAll(done, Nodes, Info(done, "INFO", None)) \in Locals(n)
    BY <1>4, <1>5, QuietLocal, ZenonT(20)
  <1>7. J("JOINING") \in Locals(n)
    BY <1>4, QuietLocal
  <1>8. CASE S.state = "COORDINATOR"
    <2>1. Lead(done) \in Locals(n)
      BY <1>3, <1>8, LeadLocal DEF Alike
    <2> QED BY <1>1, <1>7, <1>8, <2>1
  <1>9. CASE S.state # "COORDINATOR"
    <2>1. {"INITIALIZING", "NETWORK_ISOLATION", "PARTICIPATE_IN_ELECTION", "COORDINATOR"}
            \subseteq States \ {"STANDBY"}
      BY DEF States
    <2>2. done.state # "COORDINATOR"
      BY <1>3, <1>9 DEF Alike
    <2>3. /\ J("INITIALIZING") \in Locals(n) /\ J("NETWORK_ISOLATION") \in Locals(n)
          /\ J("PARTICIPATE_IN_ELECTION") \in Locals(n) /\ J("COORDINATOR") \in Locals(n)
      BY <1>4, <2>1, <2>2, ChangeLocal
    <2> HIDE DEF J
    <2> QED BY <1>1, <1>6, <1>7, <1>9, <2>3
  <1> QED BY <1>8, <1>9

\* An answer to a command
LEMMA AnswerLocal ==
  ASSUME NEW n \in Nodes, NEW S \in Locals(n), NEW m, NEW p
  PROVE  Answer(S, m, p) \in Locals(n)
  <1> DEFINE w == S.waiting \ {m}
  <1>1. Answer(S, m, p) \in {S, Finished(S, p.type), [S EXCEPT !.waiting = w]}
    BY DEF Answer
  <1>2. S \in Typed(n)
    BY DEF Locals
  <1>3. w \in SUBSET Nodes
    BY <1>2, FieldTypes
  <1> HIDE DEF w
  <1>4. [S EXCEPT !.waiting = w] \in Typed(n) /\ Alike(S, [S EXCEPT !.waiting = w])
    BY <1>2, <1>3, FieldUpdates, ZenonT(20)
  <1>5. [S EXCEPT !.waiting = w] \in Locals(n)
    BY <1>4, AlikeLocal
  <1> QED BY <1>1, <1>5, FinishedLocal

\* Any packet of another node keeps the invariant of the node it comes to.
LEMMA ProcessLocal ==
  ASSUME NEW n \in Nodes, NEW S \in Locals(n), NEW m \in Nodes \ {n},
         NEW p \in Packets, NEW older
  PROVE  Process(S, m, p, older) \in Locals(n)
  <1>1. CASE p.type = "INFO"
    <2> DEFINE R == InfoOnce(S, m, p, older)
               Q == InfoOnce(R, m, p, older)
    <2>1. Process(S, m, p, older) = Answer(Q, m, p)
      BY <1>1 DEF Process
    <2>2. R \in Locals(n)
      BY <1>1, InfoLocal
    <2> HIDE DEF R
    <2>3. Q \in Locals(n)
      BY <1>1, <2>2, InfoLocal
    <2> HIDE DEF Q
    <2> QED BY <2>1, <2>3, AnswerLocal
  <1>2. CASE p.type \in {"REQ_INFO", "ASK_INFO"}
    <2>1. Process(S, m, p, older) = Send(S, m, Info(S, "INFO", p.type))
      BY <1>2 DEF Process
    <2>2. Info(S, "INFO", p.type) \in Packets
      BY <1>2, QuietLocal, PacketTypes
    <2> QED BY <2>1, <2>2, QuietLocal
  <1>3. CASE p.type = "EOF"
    <2> DEFINE c == S.conn \ {m}
               gone == [S EXCEPT !.conn = c]
    <2>1. Process(S, m, p, older) \in {gone, Lost(gone, m)}
      BY <1>3 DEF Process
    <2>2. S \in Typed(n)
      BY DEF Locals
    <2>3. c \in SUBSET (Nodes \ {n})
      BY <2>2, FieldTypes
    <2> HIDE DEF c
    <2>4. gone \in Typed(n) /\ Alike(S, gone)
      BY <2>2, <2>3, FieldUpdates, ZenonT(20)
    <2>5. gone \in Locals(n)
      BY <2>4, AlikeLocal
    <2> HIDE DEF gone
    <2> QED BY <2>1, <2>5, LostLocal
  <1>4. CASE p.type \in {"STAND", "DECLARE", "JOIN", "IAM_COORDINATOR", "ADD_NODE"}
    <2>1. Process(S, m, p, older) =
            CASE p.type = "STAND" -> StandForCoordinator(S, m, p)
              [] p.type = "DECLARE" -> DeclareCoordinator(S, m, p)
              [] p.type = "IAM_COORDINATOR" -> Beacon(S, m, p, older)
              [] p.type = "JOIN" -> JoinCoordinator(S, m, p)
              [] OTHER -> AddNode(S, m, p)
      BY <1>4 DEF Process
    <2>2. /\ p.type = "STAND" => StandForCoordinator(S, m, p) \in Locals(n)
          /\ p.type = "DECLARE" => DeclareCoordinator(S, m, p) \in Locals(n)
          /\ p.type = "IAM_COORDINATOR" => Beacon(S, m, p, older) \in Locals(n)
          /\ p.type = "JOIN" => JoinCoordinator(S, m, p) \in Locals(n)
          /\ p.type = "ADD_NODE" => AddNode(S, m, p) \in Locals(n)
      BY StandLocal, DeclareLocal, BeaconLocal, JoinCoordinatorLocal, AddNodeLocal
    <2> QED BY <1>4, <2>1, <2>2
  <1>5. CASE p.type \in {"ACCEPT", "REJECT", "ERROR"}
    <2>1. Process(S, m, p, older) = Answer(S, m, p)
      BY <1>5 DEF Process
    <2> QED BY <2>1, AnswerLocal
  <1>6. CASE p.type \notin {"INFO", "REQ_INFO", "ASK_INFO", "EOF", "STAND", "DECLARE", "JOIN",
                            "IAM_COORDINATOR", "ADD_NODE", "ACCEPT", "REJECT", "ERROR"}
    <2>1. Process(S, m, p, older) = Service(S, m, p)
      BY <1>6 DEF Process
    <2> QED BY <2>1, ServiceLocal
  <1> QED BY <1>1, <1>2, <1>3, <1>4, <1>5, <1>6

\* And so does a batch of them.
LEMMA ProcessAllLocal ==
  ASSUME NEW n \in Nodes, NEW S \in Locals(n), NEW m \in Nodes \ {n},
         NEW batch \in Seq(Packets), NEW older
  PROVE  ProcessAll(S, m, batch, older) \in Locals(n)
  <1> DEFINE k == Len(batch)
             Next1(T, i) == IF m \in T.conn THEN Process(T, m, batch[i], older) ELSE T
             step == [x \in Locals(n) \X (1..k) |-> Next1(x[1], x[2])]
             Loop(g) == g = [i \in 0..k |-> IF i = 0 THEN S ELSE Next1(g[i - 1], i)]
             f == CHOOSE g : Loop(g)
  <1>1. k \in Nat
    OBVIOUS
  <1>2. \A T \in Locals(n) : \A i \in 1..k : Next1(T, i) \in Locals(n)
    BY ProcessLocal
  <1>3. ProcessAll(S, m, batch, older) = f[k]
    BY DEF ProcessAll
  <1> HIDE DEF Next1
  <1>4. step \in Operations(Locals(n), k)
    BY <1>2 DEF Operations
  <1>5. \A T \in Locals(n) : \A i \in 1..k : step[<<T, i>>] = Next1(T, i)
    OBVIOUS
  <1> HIDE DEF step, k
  <1>6. PICK h : h \in Runs(Locals(n), S, k, step)
    BY <1>1, <1>4, RunExists
  <1>7. h \in [0..k -> Locals(n)] /\ h[0] = S /\ \A i \in 1..k : h[i] = step[<<h[i - 1], i>>]
    BY <1>6 DEF Runs
  <1>8. Loop(h)
    <2>1. ASSUME NEW i \in 0..k PROVE h[i] = IF i = 0 THEN S ELSE Next1(h[i - 1], i)
      <3>1. CASE i = 0
        BY <1>7, <3>1
      <3>2. CASE i # 0
        <4>1. i \in 1..k /\ i - 1 \in 0..k
          BY <1>1, <3>2
        <4>2. h[i - 1] \in Locals(n)
          BY <1>7, <4>1
        <4> QED BY <1>5, <1>7, <3>2, <4>1, <4>2, ZenonT(20)
      <3> QED BY <3>1, <3>2
    <2> QED BY <1>7, <2>1
  <1>9. Loop(f)
    <2> HIDE DEF Loop
    <2> QED BY <1>8
  <1> HIDE DEF f
  <1>10. \A i \in 0..k : i \in {j \in 0..k : f[j] \in Locals(n)}
    <2> DEFINE T == {j \in 0..k : f[j] \in Locals(n)}
    <2>1. 0 \in T
      BY <1>1, <1>9
    <2>2. ASSUME NEW i \in 0..(k - 1), i \in T PROVE i + 1 \in T
      <3>1. i + 1 \in 1..k /\ i + 1 \in 0..k /\ i + 1 # 0 /\ (i + 1) - 1 = i
        BY <1>1
      <3>2. f[i + 1] = Next1(f[i], i + 1)
        BY <1>9, <3>1, ZenonT(20)
      <3> QED BY <1>2, <2>2, <3>1, <3>2
    <2> HIDE DEF T
    <2>3. \A i \in 0..k : i \in T
      BY <1>1, <2>1, <2>2, UpTo
    <2> QED BY <2>3 DEF T
  <1>11. k \in 0..k
    BY <1>1
  <1> QED BY <1>3, <1>10, <1>11

-----------------------------------------------------------------------------
(* Steps                                                                   *)

\* What is kept of a node at the end of a round.
LEMMA StoredLocal ==
  ASSUME NEW n \in Nodes, NEW E \in Locals(n), Informed(E)
  PROVE  LET R == [E EXCEPT !.out = NoPackets]
         IN  /\ R \in Locals(n) /\ Informed(R) /\ R.out = NoPackets
             /\ R \in Records({NoPackets}) /\ R.state = E.state
  <1> DEFINE R == [E EXCEPT !.out = NoPackets]
  <1>1. E \in Typed(n)
    BY DEF Locals
  <1>2. NoPackets \in [Nodes -> Seq(Packets)]
    BY DEF NoPackets
  <1>3. R \in Typed(n) /\ Alike(E, R) /\ R.out = NoPackets /\ R.standbys = E.standbys
    BY <1>1, <1>2, FieldUpdates
  <1>4. R \in Locals(n)
    BY <1>3, AlikeLocal
  <1>5. Informed(R)
    BY <1>3 DEF Informed, Alike, QuorumOf
  <1>6. R \in Records({NoPackets})
    BY <1>3, ZenonT(20) DEF Typed, Records
  <1> QED BY <1>3, <1>4, <1>5, <1>6 DEF Alike

\* What a node sends is added to what is on its way.
LEMMA QueueType ==
  ASSUME NEW sent \in Seq(Seq(Packets)), NEW batch \in Seq(Packets)
  PROVE  Queue(sent, batch) \in Seq(Seq(Packets))
  BY DEF Queue

\* The end of a round of one node keeps the invariant.
LEMMA StepInv ==
  ASSUME ElectionInv, NEW n \in Nodes, NEW S \in Locals(n), NEW arriving \in Channels,
         Step(n, S, arriving), UNCHANGED <<cut, cuts>>
  PROVE  ElectionInv'
  <1> DEFINE E == UpdateQuorum(S)
             R == [E EXCEPT !.out = NoPackets]
             C(a, b) == CASE a = n /\ n \in node[b].conn -> Queue(arriving[a][b], E.out[b])
                          [] b = n /\ a \notin E.conn -> <<>>
                          [] OTHER -> arriving[a][b]
             was == node[n].state = "COORDINATOR"
             is == E.state = "COORDINATOR"
  <1>1. E \in Locals(n) /\ Informed(E)
    BY UpdateQuorumLocal
  <1>2. /\ node' = [node EXCEPT ![n] = R]
        /\ chan' = [a \in Nodes |-> [b \in Nodes |-> C(a, b)]]
        /\ elder' = CASE is /\ ~was -> elder \cup {<<m, n>> : m \in Coordinators}
                      [] is /\ was -> elder
                      [] OTHER -> {pair \in elder : n \notin {pair[1], pair[2]}}
    BY DEF Step
  <1>3. E \in Typed(n) /\ E.out \in [Nodes -> Seq(Packets)]
    BY <1>1, FieldTypes DEF Locals
  <1> HIDE DEF E
  <1>4. /\ R \in Locals(n) /\ Informed(R) /\ R.out = NoPackets
        /\ R \in Records({NoPackets}) /\ R.state = E.state
    BY <1>1, StoredLocal
  <1> HIDE DEF R
  <1>5. /\ node \in [Nodes -> Records({NoPackets})] /\ n \notin node[n].conn
        /\ \A m \in Nodes : node[m] \in Locals(m) /\ Informed(node[m]) /\ node[m].out = NoPackets
    BY FieldTypes, ZenonT(20) DEF ElectionInv, TypeOK, NodesInv, Locals, Typed
  <1>6. /\ node' \in [Nodes -> Records({NoPackets})]
        /\ node'[n] = R /\ \A m \in Nodes \ {n} : node'[m] = node[m]
    BY <1>2, <1>4, <1>5, ZenonT(20)
  <1>7. NodesInv'
    <2> SUFFICES ASSUME NEW m \in Nodes
                 PROVE  node'[m] \in Locals(m) /\ Informed(node'[m]) /\ node'[m].out = NoPackets
      BY DEF NodesInv
    <2>1. CASE m = n
      BY <1>4, <1>6, <2>1
    <2>2. CASE m # n
      BY <1>5, <1>6, <2>2
    <2> QED BY <2>1, <2>2
  <1>8. chan' \in Channels
    <2>1. /\ arriving \in [Nodes -> [Nodes -> Seq(Seq(Packets))]]
          /\ \A a \in Nodes : arriving[a][a] = <<>>
      BY ZenonT(20) DEF Channels
    <2>2. ASSUME NEW a \in Nodes, NEW b \in Nodes PROVE C(a, b) \in Seq(Seq(Packets))
      <3>1. arriving[a][b] \in Seq(Seq(Packets)) /\ E.out[b] \in Seq(Packets)
        BY <1>3, <2>1
      <3>2. Queue(arriving[a][b], E.out[b]) \in Seq(Seq(Packets))
        BY <3>1, QueueType
      <3>3. <<>> \in Seq(Seq(Packets))
        OBVIOUS
      <3>4. C(a, b) \in {Queue(arriving[a][b], E.out[b]), <<>>, arriving[a][b]}
        <4>1. CASE a = n /\ n \in node[b].conn
          <5>1. ~(b = n /\ a \notin E.conn)
            BY <1>5, <4>1
          <5> QED BY <4>1, <5>1
        <4>2. CASE ~(a = n /\ n \in node[b].conn)
          BY <4>2
        <4> QED BY <4>1, <4>2
      <3> QED BY <3>1, <3>2, <3>3, <3>4
    <2>3. ASSUME NEW a \in Nodes PROVE C(a, a) = <<>>
      <3>1. ~(a = n /\ n \in node[a].conn)
        BY <1>5
      <3> QED BY <2>1, <3>1
    <2> HIDE DEF C
    <2>4. chan' \in [Nodes -> [Nodes -> Seq(Seq(Packets))]]
      BY <1>2, <2>2
    <2>5. \A a \in Nodes : chan'[a][a] = <<>>
      BY <1>2, <2>3
    <2> QED BY <2>4, <2>5 DEF Channels
  <1>9. /\ elder' \subseteq Coordinators' \X Coordinators'
        /\ \A a, b \in Coordinators' : <<a, b>> \in elder' <=> ~(a = b \/ <<b, a>> \in elder')
    <2>1. /\ elder \subseteq Coordinators \X Coordinators
          /\ \A a, b \in Coordinators : <<a, b>> \in elder <=> ~(a = b \/ <<b, a>> \in elder)
      BY DEF ElectionInv, TypeOK
    <2>2. Coordinators' = IF is THEN Coordinators \cup {n} ELSE Coordinators \ {n}
      BY <1>4, <1>6 DEF Coordinators
    <2>3. was <=> n \in Coordinators
      BY DEF Coordinators
    <2> HIDE DEF is, was
    <2>4. CASE is /\ ~was
      <3>1. elder' = elder \cup {<<m, n>> : m \in Coordinators}
        BY <1>2, <2>4
      <3>2. Coordinators' = Coordinators \cup {n} /\ n \notin Coordinators
        BY <2>2, <2>3, <2>4
      <3>3. \A a, b : <<a, b>> \in elder' <=> \/ <<a, b>> \in elder
                                              \/ a \in Coordinators /\ b = n
        BY <3>1
      <3>4. elder' \subseteq Coordinators' \X Coordinators'
        BY <2>1, <3>1, <3>2
      <3>5. \A a, b : <<a, b>> \in elder => a \in Coordinators /\ b \in Coordinators
        BY <2>1
      <3> QED BY <2>1, <3>2, <3>3, <3>4, <3>5
    <2>5. CASE is /\ was
      BY <1>2, <2>1, <2>2, <2>3, <2>5
    <2>6. CASE ~is
      <3>1. elder' = {pair \in elder : n \notin {pair[1], pair[2]}}
        BY <1>2, <2>6
      <3>2. \A a, b : <<a, b>> \in elder' <=> <<a, b>> \in elder /\ a # n /\ b # n
        BY <3>1
      <3>3. Coordinators' = Coordinators \ {n}
        BY <2>2, <2>6
      <3>4. elder' \subseteq Coordinators' \X Coordinators'
        BY <2>1, <3>1, <3>3
      <3> QED BY <2>1, <3>2, <3>3, <3>4
    <2> QED BY <2>4, <2>5, <2>6
  <1>10. cut' \subseteq Links /\ cuts' \in 0..MaxCuts
    BY DEF ElectionInv, TypeOK
  <1>11. TypeOK'
    BY <1>6, <1>9, <1>10 DEF TypeOK
  <1> QED BY <1>7, <1>8, <1>11 DEF ElectionInv

\* Each action keeps the invariant; first the reception of a batch of packets.
LEMMA ReceiveInv ==
  ASSUME ElectionInv, NEW n \in Nodes, NEW m \in Nodes, Receive(n, m)
  PROVE  ElectionInv'
  <1>1. /\ chan \in [Nodes -> [Nodes -> Seq(Seq(Packets))]]
        /\ \A a \in Nodes : chan[a][a] = <<>>
        /\ node[n] \in Locals(n)
    BY DEF ElectionInv, Channels, NodesInv
  <1>2. chan[m][n] # <<>> /\ chan[m][n] \in Seq(Seq(Packets))
    BY <1>1 DEF Receive, Deliverable
  <1>3. m # n
    BY <1>1, <1>2
  <1>4. Head(chan[m][n]) \in Seq(Packets) /\ Tail(chan[m][n]) \in Seq(Seq(Packets))
    BY <1>2
  <1> DEFINE arriving == [chan EXCEPT ![m][n] = Tail(@)]
  <1>5. arriving \in Channels
    BY <1>1, <1>3, <1>4, ZenonT(20) DEF Channels
  <1>6. PICK older : Step(n, ProcessAll(node[n], m, Head(chan[m][n]), older), arriving)
    BY DEF Receive
  <1>7. UNCHANGED <<cut, cuts>>
    BY DEF Receive
  <1>8. ProcessAll(node[n], m, Head(chan[m][n]), older) \in Locals(n)
    BY <1>1, <1>3, <1>4, ProcessAllLocal
  <1> HIDE DEF arriving
  <1> QED BY <1>5, <1>6, <1>7, <1>8, StepInv

\* The expiry of a timer
LEMMA ExpireInv ==
  ASSUME ElectionInv, NEW n \in Nodes, NEW S \in Locals(n), Expire(n, S)
  PROVE  ElectionInv'
  <1> DEFINE R == [S EXCEPT !.bcast = None]
  <1>1. S \in Typed(n) /\ None \in Services \cup {None}
    BY DEF Locals
  <1>2. R \in Typed(n) /\ Alike(S, R)
    BY <1>1, FieldUpdates
  <1>3. R \in Locals(n)
    BY <1>2, AlikeLocal
  <1>4. Step(n, R, chan) /\ UNCHANGED <<cut, cuts>>
    BY DEF Expire
  <1> HIDE DEF R
  <1>5. chan \in Channels
    BY DEF ElectionInv
  <1> QED BY <1>3, <1>4, <1>5, StepInv

\* A timer of a state: a node that has heard of a leader becomes its standby.
LEMMA TimeoutInv ==
  ASSUME ElectionInv, NEW n \in Nodes, Timeout(n)
  PROVE  ElectionInv'
  <1> DEFINE S == node[n]
             new == CASE S.leader # None -> "STANDBY"
                      [] S.leader = None /\ Active(S) = {} -> "COORDINATOR"
                      [] S.leader = None /\ \E m \in Active(S) :
                           S.view[m] = "STAND_FOR_COORDINATOR" -> "PARTICIPATE_IN_ELECTION"
                      [] OTHER -> "STAND_FOR_COORDINATOR"
             T == CASE S.state = "INITIALIZING" -> SetState(S, new)
                    [] S.state = "COORDINATOR" ->
                         SendAll(S, Active(S), Info(S, "IAM_COORDINATOR", None))
                    [] S.state = "STANDBY" -> S
                    [] OTHER -> SetState(S, "JOINING")
  <1>1. Expire(n, T)
    BY DEF Timeout
  <1>2. S \in Locals(n)
    BY DEF ElectionInv, NodesInv
  <1>3. new = "STANDBY" => S.leader # None
    OBVIOUS
  <1>4. new \in {"STANDBY", "COORDINATOR", "PARTICIPATE_IN_ELECTION", "STAND_FOR_COORDINATOR"}
    BY ZenonT(20)
  <1>5. T \in {SendAll(S, Active(S), Info(S, "IAM_COORDINATOR", None)), S,
               SetState(S, "JOINING")}
        \/ (S.state = "INITIALIZING" /\ T = SetState(S, new))
    OBVIOUS
  <1> HIDE DEF S, T, new
  <1>6. S \in Typed(n) /\ (S.escalated => S.state = "COORDINATOR")
    BY <1>2 DEF Locals
  <1>7. S.state = "INITIALIZING" => SetState(S, new) \in Locals(n)
    <2> SUFFICES ASSUME S.state = "INITIALIZING" PROVE SetState(S, new) \in Locals(n)
      OBVIOUS
    <2>1. S.leader # n /\ S.leader \in Nodes \cup {None}
      BY <1>2, <1>6, FieldTypes DEF Locals
    <2>2. new \in States /\ S.state # new
      BY <1>4 DEF States
    <2> QED BY <1>3, <1>6, <2>1, <2>2, SetStateLocal
  <1>8. Info(S, "IAM_COORDINATOR", None) \in Packets
    BY <1>6, PacketTypes
  <1>9. T \in Locals(n)
    BY <1>2, <1>5, <1>7, <1>8, QuietLocal
  <1> QED BY <1>1, <1>9, ExpireInv

\* The other timers, and a connection that the kernel gives up
LEMMA TimersInv ==
  ASSUME ElectionInv, NEW n \in Nodes,
         \/ CommandTimeout(n) \/ AskInfo(n)
         \/ \E m \in Nodes : Silence(n, m) \/ Broken(n, m)
  PROVE  ElectionInv'
  <1>1. node[n] \in Locals(n) /\ node[n] \in Typed(n) /\ chan \in Channels
    BY DEF ElectionInv, NodesInv, Locals
  <1>2. CASE CommandTimeout(n)
    <2>1. Expire(n, Finished(node[n], "TIMEOUT"))
      BY <1>2 DEF CommandTimeout
    <2> QED BY <1>1, <2>1, FinishedLocal, ExpireInv
  <1>3. CASE AskInfo(n)
    <2>1. Expire(n, Send(node[n], node[n].leader, Packet("ASK_INFO")))
      BY <1>3 DEF AskInfo
    <2>2. "ASK_INFO" \in PlainTypes
      BY DEF PlainTypes
    <2>3. Send(node[n], node[n].leader, Packet("ASK_INFO")) \in Locals(n)
      BY <1>1, <2>2, PlainPackets, QuietLocal
    <2> QED BY <2>1, <2>3, ExpireInv
  <1>4. ASSUME NEW m \in Nodes, Silence(n, m) PROVE ElectionInv'
    <2>1. m \in node[n].conn /\ Expire(n, Lost(node[n], m))
      BY <1>4 DEF Silence
    <2>2. m # n
      BY <1>1, <2>1, FieldTypes
    <2>3. Lost(node[n], m) \in Locals(n)
      BY <1>1, <2>2, LostLocal
    <2> QED BY <2>1, <2>3, ExpireInv
  <1>5. ASSUME NEW m \in Nodes, Broken(n, m) PROVE ElectionInv'
    <2>1. /\ m \in node[n].conn /\ Step(n, Lost(Close(node[n], m), m), chan)
          /\ UNCHANGED <<cut, cuts>>
      BY <1>5 DEF Broken, Overdue
    <2>2. m # n
      BY <1>1, <2>1, FieldTypes
    <2>3. Close(node[n], m) \in Locals(n)
      BY <1>1, CloseType, AlikeLocal
    <2>4. Lost(Close(node[n], m), m) \in Locals(n)
      BY <2>2, <2>3, LostLocal
    <2> QED BY <1>1, <2>1, <2>4, StepInv
  <1> QED BY <1>2, <1>3, <1>4, <1>5

\* More connections leave the rest of a node as it is.
LEMMA ConnectedLocal ==
  ASSUME NEW n \in Nodes, NEW S \in Locals(n), Informed(S), S.out = NoPackets,
         NEW m \in Nodes \ {n}
  PROVE  LET R == [S EXCEPT !.conn = S.conn \cup {m}]
         IN  /\ R \in Locals(n) /\ Informed(R) /\ R.out = NoPackets
             /\ R \in Records({NoPackets}) /\ R.state = S.state
  <1> DEFINE c == S.conn \cup {m}
             R == [S EXCEPT !.conn = c]
  <1>1. S \in Typed(n)
    BY DEF Locals
  <1>2. c \in SUBSET (Nodes \ {n})
    BY <1>1, FieldTypes
  <1> HIDE DEF c
  <1>3. R \in Typed(n) /\ Alike(S, R)
    BY <1>1, <1>2, FieldUpdates, ZenonT(20)
  <1>4. R \in Locals(n)
    BY <1>3, AlikeLocal
  <1>5. R.out = NoPackets /\ R.standbys = S.standbys
    BY <1>1 DEF Typed, Records
  <1>6. Informed(R)
    BY <1>3, <1>5 DEF Informed, Alike, QuorumOf
  <1>7. R \in Records({NoPackets})
    BY <1>3, <1>5, ZenonT(20) DEF Typed, Records
  <1> QED BY <1>3, <1>4, <1>5, <1>6, <1>7 DEF Alike, c

\* A connection is made again.
LEMMA ReconnectInv ==
  ASSUME ElectionInv, NEW n \in Nodes, NEW m \in Nodes, Reconnect(n, m)
  PROVE  ElectionInv'
  <1> DEFINE A == [node[n] EXCEPT !.conn = node[n].conn \cup {m}]
             B == [node[m] EXCEPT !.conn = node[m].conn \cup {n}]
             added == <<<<Info(node[n], "ADD_NODE", None)>>>>
  <1>1. /\ n # m /\ UNCHANGED <<cut, cuts, elder>>
        /\ node' = [node EXCEPT ![n].conn = @ \cup {m}, ![m].conn = @ \cup {n}]
        /\ chan' = [chan EXCEPT ![n][m] = added, ![m][n] = <<>>]
    BY DEF Reconnect
  <1>2. /\ node \in [Nodes -> Records({NoPackets})]
        /\ \A a \in Nodes : node[a] \in Locals(a) /\ Informed(node[a]) /\ node[a].out = NoPackets
        /\ chan \in [Nodes -> [Nodes -> Seq(Seq(Packets))]]
        /\ \A a \in Nodes : chan[a][a] = <<>>
    BY ZenonT(20) DEF ElectionInv, TypeOK, NodesInv, Channels
  <1>3. node' = [node EXCEPT ![n] = A, ![m] = B]
    BY <1>1, <1>2, ZenonT(20)
  <1>a. \A a \in Nodes : \A b \in Nodes \ {a} :
          LET R == [node[a] EXCEPT !.conn = node[a].conn \cup {b}]
          IN  /\ R \in Locals(a) /\ Informed(R) /\ R.out = NoPackets
              /\ R \in Records({NoPackets}) /\ R.state = node[a].state
    <2> SUFFICES ASSUME NEW a \in Nodes, NEW b \in Nodes \ {a}
                 PROVE  LET R == [node[a] EXCEPT !.conn = node[a].conn \cup {b}]
                        IN  /\ R \in Locals(a) /\ Informed(R) /\ R.out = NoPackets
                            /\ R \in Records({NoPackets}) /\ R.state = node[a].state
      OBVIOUS
    <2> DEFINE S == node[a]
    <2>1. S \in Locals(a) /\ Informed(S) /\ S.out = NoPackets
      BY <1>2
    <2> HIDE DEF S
    <2>2. LET R == [S EXCEPT !.conn = S.conn \cup {b}]
          IN  /\ R \in Locals(a) /\ Informed(R) /\ R.out = NoPackets
              /\ R \in Records({NoPackets}) /\ R.state = S.state
      BY <2>1, ConnectedLocal
    <2> QED BY <2>2 DEF S
  <1>4. /\ A \in Locals(n) /\ Informed(A) /\ A.out = NoPackets
        /\ A \in Records({NoPackets}) /\ A.state = node[n].state
    <2>1. m \in Nodes \ {n}
      BY <1>1
    <2> QED BY <1>a, <2>1
  <1>5. /\ B \in Locals(m) /\ Informed(B) /\ B.out = NoPackets
        /\ B \in Records({NoPackets}) /\ B.state = node[m].state
    <2>1. n \in Nodes \ {m}
      BY <1>1
    <2> QED BY <1>a, <2>1
  <1> HIDE DEF A, B
  <1>6. /\ node' \in [Nodes -> Records({NoPackets})] /\ node'[n] = A /\ node'[m] = B
        /\ \A a \in Nodes \ {n, m} : node'[a] = node[a]
    BY <1>1, <1>2, <1>3, <1>4, <1>5, ZenonT(20)
  <1>7. NodesInv'
    <2> SUFFICES ASSUME NEW a \in Nodes
                 PROVE  node'[a] \in Locals(a) /\ Informed(node'[a]) /\ node'[a].out = NoPackets
      BY DEF NodesInv
    <2>1. CASE a = n
      BY <1>4, <1>6, <2>1
    <2>2. CASE a = m
      BY <1>5, <1>6, <2>2
    <2>3. CASE a \notin {n, m}
      BY <1>2, <1>6, <2>3
    <2> QED BY <2>1, <2>2, <2>3
  <1>8. chan' \in Channels
    <2>1. node[n] \in Typed(n)
      BY <1>2 DEF Locals
    <2>2. Info(node[n], "ADD_NODE", None) \in Packets
      BY <2>1, PacketTypes
    <2>3. added \in Seq(Seq(Packets)) /\ <<>> \in Seq(Seq(Packets))
      BY <2>2
    <2> HIDE DEF added
    <2>4. chan' \in [Nodes -> [Nodes -> Seq(Seq(Packets))]]
      BY <1>1, <1>2, <2>3, ZenonT(20)
    <2>5. \A a \in Nodes : chan'[a][a] = <<>>
      BY <1>1, <1>2
    <2> QED BY <2>4, <2>5 DEF Channels
  <1>9. Coordinators' = Coordinators
    BY <1>4, <1>5, <1>6 DEF Coordinators
  <1>10. TypeOK'
    BY <1>1, <1>6, <1>9, ZenonT(20) DEF ElectionInv, TypeOK
  <1> QED BY <1>7, <1>8, <1>10 DEF ElectionInv

\* Links break and heal.
LEMMA NetworkInv ==
  ASSUME ElectionInv,
         Heal \/ (\E l \in Links : CutLink(l)) \/ (\E n \in Nodes : Isolate(n))
  PROVE  ElectionInv'
  <1>1. UNCHANGED <<node, chan, elder>>
    BY DEF Heal, CutLink, Isolate
  <1>2. cut \subseteq Links /\ cuts \in 0..MaxCuts
    BY DEF ElectionInv, TypeOK
  <1>3. cut' \subseteq Links /\ cuts' \in 0..MaxCuts
    <2>1. CASE Heal
      BY <1>2, <2>1 DEF Heal
    <2>2. ASSUME NEW l \in Links, CutLink(l) PROVE cut' \subseteq Links /\ cuts' \in 0..MaxCuts
      BY <1>2, <2>2, ElectionAssumption DEF CutLink
    <2>3. ASSUME NEW n \in Nodes, Isolate(n) PROVE cut' \subseteq Links /\ cuts' \in 0..MaxCuts
      BY <1>2, <2>3, ElectionAssumption DEF Isolate
    <2> QED BY <2>1, <2>2, <2>3
  <1>4. Coordinators' = Coordinators /\ NodesInv'
    BY <1>1 DEF Coordinators, ElectionInv, NodesInv
  <1>5. TypeOK'
    BY <1>1, <1>3, <1>4 DEF ElectionInv, TypeOK
  <1> QED BY <1>1, <1>4, <1>5 DEF ElectionInv

\* The nodes as they have started
LEMMA InitInv ==
  ASSUME Init
  PROVE  ElectionInv
  <1>1. NoPackets \in [Nodes -> Seq(Packets)]
    BY DEF NoPackets
  <1>2. "INITIALIZING" \in States /\ -1 \in -1..1 /\ FALSE \in BOOLEAN
    BY DEF States
  <1>3. ASSUME NEW n \in Nodes
        PROVE  /\ node[n] \in Records({NoPackets}) /\ node[n] \in Typed(n)
               /\ node[n].state = "INITIALIZING" /\ node[n].leader = None
               /\ node[n].escalated = FALSE /\ node[n].out = NoPackets
    <2> DEFINE v == [m \in Nodes |-> "INITIALIZING"]
               c == Nodes \ {n}
    <2>1. v \in [Nodes -> States \cup {"LOST", "LOADING"}] /\ c \in SUBSET Nodes /\ n \notin c
      BY <1>2
    <2>2. node[n] = [self |-> n, state |-> "INITIALIZING", leader |-> None,
                     view |-> v, conn |-> c,
                     standbys |-> {}, quorum |-> -1, escalated |-> FALSE,
                     pending |-> FALSE, waiting |-> {}, lostUs |-> {}, bcast |-> None,
                     out |-> NoPackets]
      BY DEF Init
    <2> HIDE DEF v, c
    <2>3. \A p \in BOOLEAN :
            [self |-> n, state |-> "INITIALIZING", leader |-> None, view |-> v, conn |-> c,
             standbys |-> {}, quorum |-> -1, escalated |-> p, pending |-> p, waiting |-> {},
             lostUs |-> {}, bcast |-> None, out |-> NoPackets] \in Records({NoPackets})
      BY <1>2, <2>1 DEF Records
    <2>4. node[n] \in Records({NoPackets})
      BY <1>2, <2>2, <2>3, ZenonT(20)
    <2>5. /\ node[n].state = "INITIALIZING" /\ node[n].leader = None /\ node[n].self = n
          /\ node[n].escalated = FALSE /\ node[n].out = NoPackets /\ node[n].conn = c
      BY <2>2
    <2>6. node[n] \in Records([Nodes -> Seq(Packets)])
      BY <1>1, <2>4 DEF Records
    <2>7. node[n] \in Typed(n)
      BY <2>1, <2>5, <2>6 DEF Typed
    <2> QED BY <2>4, <2>5, <2>7
  <1>4. NodesInv
    BY <1>3, ElectionAssumption, ZenonT(20) DEF NodesInv, Locals, Informed
  <1>5. node \in [Nodes -> Records({NoPackets})]
    <2>1. node = [n \in Nodes |-> node[n]]
      BY DEF Init
    <2> QED BY <1>3, <2>1, ZenonT(20)
  <1>6. Coordinators = {}
    BY <1>3, ZenonT(20) DEF Coordinators
  <1>7. TypeOK
    <2>1. cut = {} /\ cuts = 0 /\ elder = {}
      BY DEF Init
    <2>2. cuts \in 0..MaxCuts
      BY <2>1, ElectionAssumption
    <2>3. /\ cut \subseteq Links /\ elder \subseteq Coordinators \X Coordinators
          /\ \A n, m \in Coordinators : <<n, m>> \in elder <=> ~(n = m \/ <<m, n>> \in elder)
      BY <1>6, <2>1, ZenonT(20)
    <2> QED BY <1>5, <2>2, <2>3, ZenonT(20) DEF TypeOK
  <1>8. chan \in Channels
    <2>1. chan = [n \in Nodes |-> [m \in Nodes |-> <<>>]]
      BY DEF Init, NoPackets
    <2>2. <<>> \in Seq(Seq(Packets))
      OBVIOUS
    <2>3. \A a \in Nodes : chan[a] = [m \in Nodes |-> <<>>] /\ chan[a][a] = <<>>
      BY <2>1
    <2>4. [m \in Nodes |-> <<>>] \in [Nodes -> Seq(Seq(Packets))]
      BY <2>2
    <2>5. chan \in [Nodes -> [Nodes -> Seq(Seq(Packets))]]
      BY <2>1, <2>4
    <2> QED BY <2>3, <2>5 DEF Channels
  <1> QED BY <1>4, <1>7, <1>8 DEF ElectionInv

-----------------------------------------------------------------------------
(* Theorems                                                                *)

\* Whatever packets, timeouts and cuts the main loop of watchdog.c handles, the
\* inductive invariant holds between two of its turns, for any number of nodes.
THEOREM ElectionInvariance == Spec => []ElectionInv
  <1>1. Init => ElectionInv
    BY InitInv
  <1>2. ElectionInv /\ [Next]_vars => ElectionInv'
    <2> SUFFICES ASSUME ElectionInv, [Next]_vars PROVE ElectionInv'
      OBVIOUS
    <2>1. CASE UNCHANGED vars
      BY <2>1, ZenonT(20) DEF vars, ElectionInv, TypeOK, NodesInv, Coordinators
    <2>2. ASSUME NEW n \in Nodes, NEW m \in Nodes, Receive(n, m) PROVE ElectionInv'
      BY <2>2, ReceiveInv
    <2>3. ASSUME NEW n \in Nodes, NEW m \in Nodes, Reconnect(n, m) PROVE ElectionInv'
      BY <2>3, ReconnectInv
    <2>4. ASSUME NEW n \in Nodes, Timeout(n) PROVE ElectionInv'
      BY <2>4, TimeoutInv
    <2>5. ASSUME NEW n \in Nodes,
                 \/ CommandTimeout(n) \/ AskInfo(n)
                 \/ \E m \in Nodes : Silence(n, m) \/ Broken(n, m)
          PROVE  ElectionInv'
      BY <2>5, TimersInv
    <2>6. ASSUME Heal \/ (\E l \in Links : CutLink(l)) \/ (\E n \in Nodes : Isolate(n))
          PROVE  ElectionInv'
      BY <2>6, NetworkInv
    <2> QED BY <2>1, <2>2, <2>3, <2>4, <2>5, <2>6 DEF Next
  <1> QED BY <1>1, <1>2, PTL DEF Spec

\* Type correctness: the handlers of watchdog.c leave every node in one of its
\* states, with views and lists of nodes, and coordinators in the order of age.
THEOREM TypeCorrect == Spec => []TypeOK
  <1>1. ElectionInv => TypeOK
    BY DEF ElectionInv
  <1> QED BY <1>1, ElectionInvariance, PTL

\* A standby always has a leader, another node: watchdog_state_machine_standby
\* may use WD_LEADER_NODE without looking whether it is set.
THEOREM StandbyLeaderSet == Spec => []StandbyHasLeader
  <1>1. ElectionInv => StandbyHasLeader
    <2> SUFFICES ASSUME ElectionInv, NEW n \in Nodes, node[n].state = "STANDBY"
                 PROVE  node[n].leader \in Nodes \ {n}
      BY DEF StandbyHasLeader
    <2>1. node[n] \in Locals(n)
      BY DEF ElectionInv, NodesInv
    <2>2. node[n] \in Typed(n) /\ node[n].leader # None /\ node[n].leader # n
      BY <2>1 DEF Locals
    <2> QED BY <2>2, FieldTypes
  <1> QED BY <1>1, ElectionInvariance, PTL

\* Escalation is given up with the quorum: update_quorum_status and the lists of
\* standbys keep an escalated node in the majority of any number of nodes.
THEOREM EscalationCorrect == Spec => []EscalatedHasQuorum
  <1>1. ElectionInv => EscalatedHasQuorum
    <2> SUFFICES ASSUME ElectionInv, NEW n \in Nodes, node[n].escalated
                 PROVE  LET votes == Cardinality(node[n].standbys) + 1
                        IN  /\ node[n].state = "COORDINATOR" /\ node[n].leader = n
                            /\ \/ 2 * votes > Cardinality(Nodes)
                               \/ HalfVotes /\ 2 * votes = Cardinality(Nodes)
      BY DEF EscalatedHasQuorum
    <2>1. node[n] \in Locals(n) /\ Informed(node[n])
      BY DEF ElectionInv, NodesInv
    <2>2. /\ node[n] \in Typed(n) /\ node[n].state = "COORDINATOR" /\ node[n].leader = n
          /\ node[n].quorum >= 0
      BY <2>1 DEF Locals
    <2>3. QuorumOf(node[n]) >= 0
      BY <2>1, <2>2 DEF Informed
    <2>4. Cardinality(node[n].standbys) \in Nat /\ Cardinality(Nodes) \in Nat
      BY <2>2, ElectionAssumption, FieldTypes, FS_Subset, FS_CardinalityType
    <2> QED
      BY <2>2, <2>3, <2>4, ElectionAssumption DEF QuorumOf, QuorumStatus, MinimumRemoteNodes
  <1> QED BY <1>1, ElectionInvariance, PTL

\* A leader counts its own vote beside those of its standbys.
LEMMA VotesCount ==
  ASSUME NEW n \in Nodes, NEW T \in SUBSET Nodes, n \notin T
  PROVE  /\ IsFiniteSet(T \cup {n})
         /\ Cardinality(T) \in Nat
         /\ Cardinality(T \cup {n}) = Cardinality(T) + 1
  <1>1. IsFiniteSet(T)
    BY ElectionAssumption, FS_Subset
  <1> QED BY <1>1, FS_CardinalityType, FS_AddElement

\* Two majorities of the nodes have a node in common.
LEMMA MajoritiesMeet ==
  ASSUME NEW A \in SUBSET Nodes, NEW B \in SUBSET Nodes,
         2 * Cardinality(A) > Cardinality(Nodes), 2 * Cardinality(B) > Cardinality(Nodes)
  PROVE  A \cap B # {}
  <1>1. IsFiniteSet(A) /\ IsFiniteSet(B) /\ IsFiniteSet(A \cup B) /\ IsFiniteSet(Nodes)
    BY ElectionAssumption, FS_Subset
  <1>2. /\ Cardinality(A) \in Nat /\ Cardinality(B) \in Nat /\ Cardinality(Nodes) \in Nat
        /\ Cardinality(A \cup B) \in Nat
    BY <1>1, FS_CardinalityType
  <1>3. Cardinality(A \cup B) <= Cardinality(Nodes)
    BY <1>1, FS_Subset
  <1>4. SUFFICES ASSUME A \cap B = {} PROVE FALSE
    OBVIOUS
  <1>5. Cardinality(A \cap B) = 0
    BY <1>4, FS_EmptySet
  <1>6. Cardinality(A \cup B) = Cardinality(A) + Cardinality(B)
    <2>1. Cardinality(A \cup B) = Cardinality(A) + Cardinality(B) - Cardinality(A \cap B)
      BY <1>1, FS_Union, ZenonT(20)
    <2> QED BY <2>1, <1>2, <1>5
  <1> QED BY <1>2, <1>3, <1>6

\* The lists of the standbys are what protects the virtual IP: unless half of
\* the votes is enough, two nodes of a cluster in which every connection is up
\* and every packet has arrived are not both escalated, however many nodes there
\* are, as long as no list names a node that follows another leader.
THEOREM EscalationUnique ==
  ~HalfVotes => (Spec => [](ListsAreCurrent => OneEscalated))
  <1>1. ASSUME ~HalfVotes, ElectionInv, EscalatedHasQuorum, ListsAreCurrent
        PROVE  OneEscalated
    <2> SUFFICES ASSUME \A n \in Nodes : \A m \in Nodes \ {n} : Settled(n, m) /\ m \in node[n].conn
                 PROVE  Cardinality({n \in Nodes : node[n].escalated}) <= 1
      BY DEF OneEscalated
    <2>1. ASSUME NEW n \in Nodes, NEW m \in node[n].standbys
          PROVE  node[m].state = "STANDBY" /\ node[m].leader = n
      <3>1. m \in Nodes
        BY <1>1, FieldTypes DEF ElectionInv, NodesInv, Locals
      <3>2. CASE m = n
        <4>1. chan[n][n] = <<>> /\ {n} \notin Links /\ cut \subseteq Links
          BY <1>1 DEF ElectionInv, Channels, Links, TypeOK
        <4>2. Settled(n, n)
          BY <4>1, ZenonT(20) DEF Settled, Link
        <4> QED BY <1>1, <3>2, <4>2 DEF ListsAreCurrent
      <3>3. CASE m # n
        BY <1>1, <3>1, <3>3 DEF ListsAreCurrent
      <3> QED BY <3>2, <3>3
    <2> DEFINE votes(n) == node[n].standbys \cup {n}
    <2>2. ASSUME NEW n \in Nodes, node[n].escalated
          PROVE  /\ node[n].state = "COORDINATOR" /\ votes(n) \in SUBSET Nodes
                 /\ 2 * Cardinality(votes(n)) > Cardinality(Nodes)
      <3>1. node[n].state = "COORDINATOR"
        BY <1>1, <2>2 DEF EscalatedHasQuorum
      <3>2. 2 * (Cardinality(node[n].standbys) + 1) > Cardinality(Nodes)
        BY <1>1, <2>2 DEF EscalatedHasQuorum
      <3>3. node[n].standbys \in SUBSET Nodes
        BY <1>1, FieldTypes DEF ElectionInv, NodesInv, Locals
      <3>4. n \notin node[n].standbys
        BY <2>1, <3>1
      <3>5. Cardinality(votes(n)) = Cardinality(node[n].standbys) + 1
        BY <3>3, <3>4, VotesCount
      <3> QED BY <3>1, <3>2, <3>3, <3>5
    <2>3. ASSUME NEW n \in Nodes, NEW m \in Nodes, node[n].escalated, node[m].escalated
          PROVE  n = m
      <3>1. PICK x \in votes(n) : x \in votes(m)
        BY <2>2, <2>3, MajoritiesMeet, ZenonT(20)
      <3>2. x \in Nodes /\ node[n].state = "COORDINATOR" /\ node[m].state = "COORDINATOR"
        BY <2>2, <2>3, <3>1, ZenonT(20)
      <3>3. \A k \in {n, m} : x \in node[k].standbys => node[x].state = "STANDBY" /\ node[x].leader = k
        BY <2>1
      <3>4. \A k \in {n, m} : x = k \/ x \in node[k].standbys
        BY <3>1
      <3> QED BY <3>2, <3>3, <3>4
    <2> DEFINE E == {n \in Nodes : node[n].escalated}
    <2>4. CASE E = {}
      BY <2>4, FS_EmptySet
    <2>5. CASE E # {}
      <3>1. PICK n \in E : E = {n}
        BY <2>3, <2>5
      <3>2. Cardinality({n}) = 1
        BY FS_Singleton, ZenonT(20)
      <3> QED BY <3>1, <3>2
    <2> QED BY <2>4, <2>5
  <1>2. ASSUME ~HalfVotes
        PROVE  ElectionInv /\ EscalatedHasQuorum => (ListsAreCurrent => OneEscalated)
    BY <1>1, <1>2
  <1>3. ASSUME ~HalfVotes PROVE Spec => [](ListsAreCurrent => OneEscalated)
    BY <1>2, <1>3, ElectionInvariance, EscalationCorrect, PTL
  <1> QED BY <1>3
=============================================================================
