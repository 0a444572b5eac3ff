--------------------------- MODULE FailoverProofs ---------------------------
(***************************************************************************)
(* Proofs about Failover, and about its composition with the session       *)
(* processes (Sessions), for any number of backends, requests, failures    *)
(* and session processes.                                                  *)
(***************************************************************************)
EXTENDS Sessions, Iteration, SequenceTheorems, TLAPS

\* The provers a step is tried with, and the seconds each may take
USE ZenonT(2), SMTT(20), ZenonT(20)

\* failover() has taken a request and not yet run the follow-primary command.
Handling == pc \in {"kill", "command", "determine", "search", "follow"}

\* Every follow-primary child that waits comes from a request of its own.
Counted ==
  follow.waiting + Len(queue) + (IF Handling THEN 1 ELSE 0) <= registered

TypeInv == TypeOK /\ Counted /\ (pc # "start" => primary # -2)

\* The main node is the first valid node, or is about to be.
MainInv ==
  Valid # {} => NextMainNode(Valid) = IF Handling \/ pc = "save" THEN newMain ELSE mainNode

\* ... and a step keeps it so.
MainStep == MainInv => MainInv'

\* Without watchdog and follow_primary_command nothing is in quarantine and no
\* follow-primary child runs.
PlainInv ==
  /\ \A n \in Nodes : ~quarantine[n]
  /\ ctx.kind # "NODE_QUARANTINE"
  /\ \A i \in 1..Len(queue) : /\ queue[i].kind # "NODE_QUARANTINE"
                               /\ "UPDATE" \notin queue[i].details
  /\ follow = [waiting |-> 0, ongoing |-> FALSE]

\* An invalid primary is the node that is being taken down, and is replaced.
PrimaryInv ==
  /\ pc \in {"idle", "dequeue", "restart"} /\ primary >= 0 => primary \in Valid
  /\ pc \in {"kill", "command", "determine"} /\ primary >= 0 =>
       primary \in Valid \/ (primary = ctx.node /\ ctx.kind = "NODE_DOWN")
  /\ pc \in {"follow", "save"} /\ newPrimary >= 0 => newPrimary \in Valid

\* The status file names the last nodes in use, from the first start on.
FileInv ==
  /\ serving # {}
  /\ Valid # {} => serving = Valid
  /\ statusFile = serving \/ (pc = "start" /\ statusFile = {} /\ Valid = Nodes)

PlainSafe == PlainInv /\ PrimaryInv

\* ... and a step keeps it so.
FileStep == FileInv => FileInv'

\* failover() is not at work on a request.
Calm == pc \in {"start", "idle", "dequeue"}

\* A process connects to a node of its private status.
ConnectInv ==
  \A c \in Children : child[c].at = "connect" => child[c].node \in child[c].view

\* Nobody asks for a failback that promotes.
AskedInv ==
  \A i \in 1..Len(queue) : queue[i].kind = "NODE_UP" => "PROMOTE" \notin queue[i].details

\* A private status names a detached node only while failover() is at work on
\* a request, or in a process that has been flagged since.
StaleInv ==
  Calm => \A c \in Children :
            Running(child[c]) => child[c].view \subseteq Valid \/ child[c].restart

StartInv ==
  pc = "start" => \A c \in Children : Running(child[c]) => child[c].view \subseteq Valid

\* A failback without any other node in use replaces every process.
AllDownInv ==
  ~Calm /\ ctx.kind = "NODE_UP" =>
    /\ ctx.allDown \/ Valid \ {ctx.node} # {}
    /\ ctx.allDown /\ pc # "kill" => ctx.restartChildren /\ ~ctx.partialRestart

SystemInv == ConnectInv /\ AskedInv /\ StaleInv /\ StartInv /\ AllDownInv

\* A private status is up to date, or its process is flagged.
FreshInv ==
  Calm => \A c \in Children :
            Running(child[c]) => child[c].view = Valid \/ child[c].restart

\* While failover() is at work a private status lacks no valid node but the
\* one that it attaches.
Attaching == IF ctx.kind = "NODE_UP" THEN {ctx.node} ELSE {}

BehindInv ==
  ~Calm => \A c \in Children :
             Running(child[c]) => Valid \ Attaching \subseteq child[c].view \/ child[c].restart

\* A private status without any node is right, or its process will be replaced.
EmptyInv ==
  \A c \in Children :
    Running(child[c]) /\ child[c].view = {} =>
      Valid = {} \/ (~Calm /\ ctx.kind = "NODE_UP" /\ ctx.allDown)

ViewInv == FreshInv /\ BehindInv /\ EmptyInv

-----------------------------------------------------------------------------
(* The scan for the main node                                              *)

\* get_next_main_node finds the first valid node, if there is one.
LEMMA MainNodeFound ==
  ASSUME NEW S \in SUBSET Nodes
  PROVE  /\ NextMainNode(S) \in NodeIds
         /\ S # {} => /\ NextMainNode(S) \in S /\ NextMainNode(S) >= 0
                      /\ \A m \in S : NextMainNode(S) <= m
  <1>1. S \subseteq Nat
    BY BackendsAssumption DEF Nodes
  <1>2. CASE S = {}
    BY <1>2 DEF NextMainNode, NodeIds
  <1>3. CASE S # {}
    <2>1. \E n \in S : \A m \in S : n <= m
      BY <1>1, <1>3, LeastNatural
    <2>2. Least(S) \in S /\ \A m \in S : Least(S) <= m
      BY <2>1 DEF Least
    <2>3. NextMainNode(S) = Least(S)
      BY <1>3 DEF NextMainNode
    <2>4. Least(S) \in Nat /\ Least(S) \in Nodes
      BY <1>1, <2>2, ZenonT(20)
    <2> QED BY <2>2, <2>3, <2>4 DEF NodeIds
  <1> QED BY <1>2, <1>3

\* exec_follow_primary_command writes the status file last for a node with a
\* greatest index: there is one.
LEMMA GreatestNode ==
  ASSUME NEW T \in SUBSET Nodes, T # {}
  PROVE  \E x \in T : \A y \in T : y <= x
  <1> DEFINE D == {NumBackends - 1 - x : x \in T}
  <1>1. NumBackends \in Nat \ {0}
    BY BackendsAssumption
  <1>2. D \in SUBSET Nat /\ D # {}
    <2>1. \A x \in Nodes : NumBackends - 1 - x \in Nat
      BY <1>1 DEF Nodes
    <2>2. \A x \in T : NumBackends - 1 - x \in Nat
      BY <2>1
    <2> QED BY <2>2, ZenonT(20)
  <1>3. PICK d \in D : \A e \in D : d <= e
    BY <1>2, LeastNatural, ZenonT(20)
  <1>4. PICK x \in T : d = NumBackends - 1 - x
    BY <1>3
  <1>5. \A y \in T : d <= NumBackends - 1 - y
    BY <1>3
  <1> QED BY <1>1, <1>4, <1>5 DEF Nodes

\* The servers and processes that the nodes and children stand for
LEMMA NodesNonempty == 0 \in Nodes /\ Nodes \subseteq Nat /\ Nodes # {}
  <1>1. NumBackends \in Nat \ {0}
    BY BackendsAssumption
  <1>2. 0 \in Nodes /\ Nodes \subseteq Nat
    BY <1>1 DEF Nodes
  <1> QED BY <1>2

-----------------------------------------------------------------------------
(* Types                                                                   *)

Contexts == [kind: Kinds, node: NodeIds, details: SUBSET Details,
             nodes: SUBSET Nodes, searchPrimary: BOOLEAN,
             restartChildren: BOOLEAN, partialRestart: BOOLEAN,
             allDown: BOOLEAN]

\* The context that failover() starts with.
LEMMA FreshTyped == FreshContext \in Contexts /\ FreshContext.kind = "NODE_DOWN"
  BY DEF FreshContext, Contexts, Kinds, NodeIds

\* A new session process.
LEMMA ForkedTyped ==
  ASSUME NEW ch, ch.restart \in BOOLEAN, NEW st
  PROVE  Forked(ch, st) \in ChildType
  BY DEF Forked, ChildType, Places, NodeIds, Up

\* The session processes of a start.
LEMMA FirstChildren ==
  ASSUME NEW st
  PROVE  [c \in Children |-> Forked([restart |-> FALSE], st)] \in [Children -> ChildType]
  <1>1. Forked([restart |-> FALSE], st) \in ChildType
    BY DEF Forked, ChildType, Places, NodeIds, Up
  <1> QED BY <1>1

\* The nodes in use are nodes.
LEMMA UpNodes == \A st : Up(st) \in SUBSET Nodes
  BY DEF Up

\* read_status_file leaves a node in use, whatever the file says.
LEMMA FileRead ==
  ASSUME NEW f \in SUBSET Nodes
  PROVE  /\ FromFile(f) \in [Nodes -> Statuses]
         /\ Up(FromFile(f)) = IF f = {} THEN Nodes ELSE f
         /\ Up(FromFile(f)) # {}
  <1>1. FromFile(f) \in [Nodes -> Statuses]
    BY DEF FromFile, Statuses
  <1>2. Up(FromFile(f)) = IF f = {} THEN Nodes ELSE f
    BY DEF FromFile, Up
  <1> QED BY <1>1, <1>2, NodesNonempty

\* The next request of the queue.
LEMMA HeadTyped ==
  ASSUME TypeOK, queue # <<>>
  PROVE  /\ Head(queue) \in Requests /\ Tail(queue) \in Seq(Requests)
         /\ Len(Tail(queue)) = Len(queue) - 1
         /\ Len(queue) \in Nat /\ Len(queue) >= 1
         /\ Head(queue) = queue[1] /\ 1 \in 1..Len(queue)
         /\ \A i \in 1..(Len(queue) - 1) : /\ Tail(queue)[i] = queue[i + 1]
                                          /\ i + 1 \in 1..Len(queue)
  <1>1. queue \in Seq(Requests)
    BY DEF TypeOK, SharedTypeOK
  <1> QED BY <1>1

\* The copy of a request in the context.
LEMMA TakenTyped ==
  ASSUME TypeInv, pc # "start", NEW r \in Requests
  PROVE  /\ Taken(r) \in Contexts
         /\ Taken(r).kind = r.kind /\ Taken(r).details = r.details
         /\ Taken(r).node = IF "PROMOTE" \in r.details THEN primary ELSE r.node
         /\ Taken(r).searchPrimary = ctx.searchPrimary
  <1>1. ctx \in Contexts
    BY DEF TypeInv, TypeOK, Contexts
  <1>2. r.kind \in Kinds /\ r.details \in SUBSET Details /\ r.node \in NodeIds
    BY DEF Requests, NodeIds
  <1>3. primary \in NodeIds
    BY DEF TypeInv, TypeOK, SharedTypeOK
  <1> DEFINE n == IF "PROMOTE" \in r.details THEN primary ELSE r.node
  <1>4. n \in NodeIds
    BY <1>2, <1>3
  <1>5. Taken(r) = [ctx EXCEPT !.kind = r.kind, !.details = r.details, !.node = n]
    BY DEF Taken
  <1> HIDE DEF n
  <1>6. /\ Taken(r) \in Contexts /\ Taken(r).kind = r.kind
        /\ Taken(r).details = r.details /\ Taken(r).node = n
        /\ Taken(r).searchPrimary = ctx.searchPrimary
    BY <1>1, <1>2, <1>4, <1>5, ZenonT(20) DEF Contexts
  <1> QED BY <1>6 DEF n

\* A start of pgbalancer.
LEMMA InitTyped == Init => TypeInv /\ MainInv
  <1> SUFFICES ASSUME Init PROVE TypeInv /\ MainInv
    OBVIOUS
  <1>1. /\ status \in [Nodes -> Statuses] /\ Up(status) # {}
        /\ Up(status) \in SUBSET Nodes
    BY FileRead, UpNodes DEF Init
  <1>2. mainNode \in NodeIds
    BY <1>1, MainNodeFound DEF Init
  <1>3. child \in [Children -> ChildType]
    BY FirstChildren DEF Init
  <1>4. queue \in Seq(Requests) /\ Len(queue) = 0
    BY DEF Init
  <1>5. follow \in [waiting: 0..MaxRequests, ongoing: BOOLEAN] /\ follow.waiting = 0
    BY BackendsAssumption DEF Init
  <1>6. server \in [Nodes -> {"primary", "standby", "stopped"}]
    BY DEF Init
  <1>7. registered \in 0..MaxRequests /\ events \in 0..MaxEvents
    BY BackendsAssumption DEF Init
  <1>8. SharedTypeOK
    BY <1>1, <1>2, <1>3, <1>4, <1>6, <1>7, ZenonT(20) DEF Init, SharedTypeOK, NodeIds
  <1>9. TypeOK
    BY <1>5, <1>8, FreshTyped DEF Init, TypeOK, MainPlaces, NodeIds, Contexts
  <1>10. Counted /\ ~Handling
    BY <1>4, <1>5 DEF Init, Counted, Handling
  <1>11. MainInv
    BY <1>10 DEF Init, MainInv, Valid
  <1> QED BY <1>9, <1>10, <1>11 DEF Init, TypeInv

-----------------------------------------------------------------------------
(* Types and the main node, step by step                                   *)

\* What a step keeps that changes neither the nodes nor failover()'s progress
\* with a request.
LEMMA MainKept ==
  ASSUME UNCHANGED <<status, mainNode, newMain>>, UNCHANGED (Handling \/ pc = "save")
  PROVE  MainStep
  BY DEF MainStep, MainInv, Valid

\* A restart with any status file.
LEMMA RestartInv ==
  ASSUME TypeInv, Restart
  PROVE  TypeInv' /\ MainStep
  <1> DEFINE st == FromFile(statusFile)
  <1>1. /\ status' = st /\ st \in [Nodes -> Statuses]
        /\ Up(st) \in SUBSET Nodes /\ Up(st) # {}
    BY FileRead, UpNodes DEF Restart, TypeInv, TypeOK, SharedTypeOK
  <1>2. mainNode' = NextMainNode(Up(st)) /\ mainNode' \in NodeIds
    BY <1>1, MainNodeFound DEF Restart
  <1>3. child' \in [Children -> ChildType]
    BY FirstChildren DEF Restart
  <1>4. queue' \in Seq(Requests) /\ Len(queue') = 0
    BY DEF Restart
  <1>5. follow' \in [waiting: 0..MaxRequests, ongoing: BOOLEAN] /\ follow'.waiting = 0
    BY BackendsAssumption DEF Restart
  <1>6. registered' \in 0..MaxRequests /\ events' \in 0..MaxEvents
    BY BackendsAssumption DEF Restart, TypeInv, TypeOK, SharedTypeOK
  <1>7. serving' \in SUBSET Nodes
    BY <1>1 DEF Restart, Serve, TypeInv, TypeOK, SharedTypeOK
  <1>8. SharedTypeOK'
    BY <1>1, <1>2, <1>3, <1>4, <1>6, <1>7, ZenonT(20)
       DEF Restart, TypeInv, TypeOK, SharedTypeOK, NodeIds
  <1>9. TypeOK'
    BY <1>5, <1>8, FreshTyped DEF Restart, TypeOK, MainPlaces, NodeIds, Contexts
  <1>10. Counted' /\ ~Handling' /\ pc' = "start"
    BY <1>4, <1>5, <1>6 DEF Restart, Counted, Handling
  <1>11. MainStep
    BY <1>1, <1>2, <1>10 DEF MainStep, MainInv, Valid
  <1> QED BY <1>9, <1>10, <1>11 DEF TypeInv

\* The first search for the primary.
LEMMA StartUpInv ==
  ASSUME TypeInv, StartUp
  PROVE  TypeInv' /\ MainStep
  <1>1. primary' \in NodeIds
    BY DEF StartUp
  <1>2. statusFile' \in SUBSET Nodes
    BY UpNodes DEF StartUp, WriteStatusFile, TypeInv, TypeOK, SharedTypeOK
  <1>3. TypeOK'
    BY <1>1, <1>2 DEF StartUp, TypeInv, TypeOK, SharedTypeOK, MainPlaces, bounds, locals,
                      external
  <1>4. Counted' /\ ~Handling' /\ ~Handling
    BY DEF StartUp, TypeInv, Counted, Handling, bounds, external
  <1>5. MainStep
    BY <1>4, MainKept DEF StartUp, Handling, locals
  <1>6. primary' # -2
    BY <1>1, NodesNonempty DEF NodeIds
  <1> QED BY <1>3, <1>4, <1>5, <1>6 DEF TypeInv

\* The two ends of failover().
LEMMA EndsInv ==
  ASSUME TypeInv, EnterFailover \/ LeaveFailover
  PROVE  TypeInv' /\ MainStep
  <1>1. TypeOK'
    BY FreshTyped, ZenonT(20)
       DEF EnterFailover, LeaveFailover, TypeInv, TypeOK, SharedTypeOK, MainPlaces,
                      nodeInfo, bounds, locals, external, NodeIds, Contexts
  <1>2. Counted' /\ ~Handling' /\ ~Handling
    BY DEF EnterFailover, LeaveFailover, Idle, TypeInv, Counted, Handling, bounds, external
  <1>3. MainStep
    BY DEF EnterFailover, LeaveFailover, Idle, MainStep, MainInv, Valid, Handling, nodeInfo
  <1>4. pc # "start" /\ UNCHANGED primary
    BY DEF EnterFailover, LeaveFailover, Idle, nodeInfo
  <1> QED BY <1>1, <1>2, <1>3, <1>4 DEF TypeInv

\* Requests that arrive, follow-primary children and servers.
LEMMA EnvironmentInv ==
  ASSUME TypeInv, NEW n \in Nodes,
         \/ FollowStart \/ FollowEnd \/ FollowNode(n) \/ ServerFails(n) \/ ServerStarts(n)
         \/ DegenerateBackend(n) \/ PromoteBackend(n) \/ SendFailbackRequest(n)
  PROVE  TypeInv' /\ MainStep
  <1> USE DEF TypeInv
  <1>0. UNCHANGED <<nodeInfo, statusFile, switching, child, serving, mainVars>>
    BY DEF FollowStart, FollowEnd, FollowNode, ServerFails, ServerStarts, DegenerateBackend,
           PromoteBackend, SendFailbackRequest, Asks
  <1>1. MainStep /\ (pc' # "start" => primary' # -2) /\ UNCHANGED Handling
    BY <1>0, MainKept DEF nodeInfo, mainVars, Handling
  <1>2. CASE FollowStart \/ FollowEnd
    <2>1. UNCHANGED <<queue, bounds, server>>
      BY <1>2 DEF FollowStart, FollowEnd
    <2>2. /\ follow.waiting \in 0..MaxRequests /\ MaxRequests \in Nat
          /\ follow \in [waiting: 0..MaxRequests, ongoing: BOOLEAN]
          /\ registered \in 0..MaxRequests /\ Len(queue) \in Nat
      BY BackendsAssumption DEF TypeOK, SharedTypeOK
    <2>3. /\ follow' \in [waiting: 0..MaxRequests, ongoing: BOOLEAN]
          /\ follow'.waiting <= follow.waiting /\ follow'.waiting \in Nat
      <3>1. CASE FollowStart
        <4>1. follow.waiting - 1 \in 0..MaxRequests
          BY <2>2, <3>1 DEF FollowStart
        <4> QED BY <2>2, <3>1, <4>1 DEF FollowStart
      <3>2. CASE FollowEnd
        <4>1. follow' = [follow EXCEPT !.ongoing = FALSE]
          BY <3>2 DEF FollowEnd
        <4>2. /\ follow' \in [waiting: 0..MaxRequests, ongoing: BOOLEAN]
              /\ follow'.waiting = follow.waiting
          BY <2>2, <4>1, ZenonT(20)
        <4> QED BY <2>2, <4>2
      <3> QED BY <1>2, <3>1, <3>2
    <2>4. TypeOK'
      BY <1>0, <2>1, <2>3 DEF TypeOK, SharedTypeOK, nodeInfo, mainVars, bounds
    <2>5. Counted'
      BY <1>1, <2>1, <2>2, <2>3 DEF Counted, bounds
    <2> QED BY <1>1, <2>4, <2>5
  <1>3. CASE FollowNode(n) \/ ServerFails(n) \/ ServerStarts(n)
    <2>1. UNCHANGED <<queue, registered, follow>>
      BY <1>3 DEF FollowNode, ServerFails, ServerStarts, bounds
    <2>2. /\ events' \in 0..MaxEvents
          /\ server' \in [Nodes -> {"primary", "standby", "stopped"}]
      BY <1>3, BackendsAssumption
         DEF FollowNode, ServerFails, ServerStarts, bounds, TypeOK, SharedTypeOK
    <2>3. TypeOK'
      BY <1>0, <2>1, <2>2 DEF TypeOK, SharedTypeOK, nodeInfo, mainVars
    <2>4. Counted'
      BY <1>1, <2>1 DEF Counted
    <2> QED BY <1>1, <2>3, <2>4
  <1>4. CASE DegenerateBackend(n) \/ PromoteBackend(n) \/ SendFailbackRequest(n)
    <2>1. PICK k \in Kinds, d \in SUBSET Details : Asks(k, n, d)
      <3>1. CASE DegenerateBackend(n)
        BY <3>1 DEF DegenerateBackend, Kinds, Details
      <3>2. CASE PromoteBackend(n)
        BY <3>2 DEF PromoteBackend, Kinds, Details
      <3>3. CASE SendFailbackRequest(n)
        BY <3>3 DEF SendFailbackRequest, Kinds, Details
      <3> QED BY <1>4, <3>1, <3>2, <3>3
    <2> DEFINE r == [kind |-> k, node |-> n, details |-> d]
    <2>2. r \in Requests
      BY DEF Requests
    <2>3. /\ registered < MaxRequests /\ registered' = registered + 1
          /\ queue' = Append(queue, r) /\ UNCHANGED <<events, server, follow>>
      BY <2>1 DEF Asks, RegisterRequest, external
    <2> HIDE DEF r
    <2>4. /\ queue \in Seq(Requests) /\ registered \in 0..MaxRequests
          /\ follow.waiting \in Nat /\ MaxRequests \in Nat
      BY BackendsAssumption DEF TypeOK, SharedTypeOK
    <2>5. /\ queue' \in Seq(Requests) /\ Len(queue') = Len(queue) + 1
          /\ registered' \in 0..MaxRequests
      BY <2>2, <2>3, <2>4
    <2>6. TypeOK'
      BY <1>0, <2>3, <2>5 DEF TypeOK, SharedTypeOK, nodeInfo, mainVars
    <2>7. Counted'
      BY <1>1, <2>3, <2>4, <2>5 DEF Counted
    <2> QED BY <1>1, <2>6, <2>7
  <1> QED BY <1>2, <1>3, <1>4

\* A request that changes nothing.
LEMMA RefusedInv ==
  ASSUME TypeInv, NEW k, Dequeue(k), Refuse(Head(queue))
  PROVE  TypeInv' /\ MainStep
  <1>1. /\ Head(queue) \in Requests /\ queue' \in Seq(Requests)
        /\ Len(queue') = Len(queue) - 1 /\ Len(queue) \in Nat /\ pc = "dequeue"
    BY HeadTyped DEF Dequeue, TypeInv
  <1>2. ctx' \in Contexts
    BY <1>1, TakenTyped DEF Refuse
  <1>3. promoteNode' \in NodeIds
    BY <1>1, NodesNonempty DEF Dequeue, Requests, NodeIds
  <1>4. TypeOK'
    BY <1>1, <1>2, <1>3 DEF Dequeue, Refuse, TypeInv, TypeOK, SharedTypeOK, Contexts, nodeInfo,
                            bounds, external
  <1>5. follow.waiting \in Nat /\ registered \in Nat
    BY BackendsAssumption DEF TypeInv, TypeOK, SharedTypeOK
  <1>6. Counted'
    BY <1>1, <1>5 DEF Dequeue, Refuse, TypeInv, Counted, Handling, bounds, external
  <1>7. MainStep
    BY MainKept DEF Refuse, nodeInfo, Handling
  <1>8. pc' # "start" => primary' # -2
    BY DEF Refuse, TypeInv, nodeInfo
  <1> QED BY <1>4, <1>6, <1>7, <1>8 DEF TypeInv

\* A request that is carried out: the next main node is computed from the new
\* status.
LEMMA AcceptedInv ==
  ASSUME TypeInv, NEW k, Dequeue(k), NEW st \in [Nodes -> Statuses],
         status' = st, Proceed(st), ctx' \in Contexts,
         quarantine' \in [Nodes -> BOOLEAN], wasPrimary' = wasPrimary,
         primary' \in NodeIds, mainNode' \in NodeIds, statusFile' \in SUBSET Nodes
  PROVE  TypeInv' /\ MainStep
  <1>1. /\ Head(queue) \in Requests /\ queue' \in Seq(Requests)
        /\ Len(queue') = Len(queue) - 1 /\ Len(queue) \in Nat /\ pc = "dequeue"
    BY HeadTyped DEF Dequeue, TypeInv
  <1>2. newMain' \in NodeIds /\ serving' \in SUBSET Nodes /\ pc' = "kill"
    BY UpNodes, MainNodeFound DEF Proceed, Serve, TypeInv, TypeOK, SharedTypeOK
  <1>3. promoteNode' \in NodeIds
    BY <1>1, NodesNonempty DEF Dequeue, Requests, NodeIds
  <1>4. TypeOK'
    BY <1>1, <1>2, <1>3 DEF Dequeue, TypeInv, TypeOK, SharedTypeOK, Contexts, MainPlaces,
                            bounds, external
  <1>5. follow.waiting \in Nat /\ registered \in Nat
    BY BackendsAssumption DEF TypeInv, TypeOK, SharedTypeOK
  <1>6. Counted'
    BY <1>1, <1>2, <1>5 DEF Dequeue, TypeInv, Counted, Handling, bounds, external
  <1>7. MainStep
    BY <1>2 DEF Proceed, MainStep, MainInv, Valid, Handling
  <1>8. primary' # -2
    <2>1. -2 \notin NodeIds
      BY NodesNonempty DEF NodeIds
    <2> QED BY <2>1, ZenonT(20)
  <1> QED BY <1>4, <1>6, <1>7, <1>8 DEF TypeInv

\* handle_failback_request
LEMMA FailbackInv ==
  ASSUME TypeInv, HandleFailback
  PROVE  TypeInv' /\ MainStep
  <1> DEFINE r == Head(queue)
             n == r.node
             c == Taken(r)
             st == [status EXCEPT ![n] = "CON_CONNECT_WAIT"]
  <1>1. Dequeue({"NODE_UP"}) /\ r \in Requests /\ n \in Nodes /\ pc = "dequeue"
    BY HeadTyped DEF HandleFailback, Dequeue, TypeInv, Requests
  <1>2. CASE r.node \in Valid
    BY <1>1, <1>2, RefusedInv DEF HandleFailback
  <1>3. CASE r.node \notin Valid
    <2>1. FailBack(n, c)
      BY <1>3 DEF HandleFailback
    <2>2. st \in [Nodes -> Statuses] /\ status' = st /\ wasPrimary' = wasPrimary /\ Proceed(st)
      BY <1>1, <2>1 DEF FailBack, TypeInv, TypeOK, SharedTypeOK, Statuses
    <2>3. c \in Contexts
      BY <1>1, TakenTyped
    <2>4. primary \in NodeIds /\ n \in NodeIds /\ mainNode \in NodeIds
      BY <1>1 DEF TypeInv, TypeOK, SharedTypeOK, NodeIds
    <2>5. NextMainNode(Up(st)) \in NodeIds
      BY UpNodes, MainNodeFound
    <2>6. Up(st) \in SUBSET Nodes /\ statusFile \in SUBSET Nodes
      BY UpNodes DEF TypeInv, TypeOK, SharedTypeOK
    <2> HIDE DEF st, c, n
    <2>7. /\ quarantine' \in [Nodes -> BOOLEAN] /\ primary' \in NodeIds
          /\ mainNode' \in NodeIds /\ statusFile' \in SUBSET Nodes
      BY <1>1, <2>1, <2>4, <2>5, <2>6, ZenonT(20)
         DEF FailBack, WriteStatusFile, TypeInv, TypeOK, SharedTypeOK, st
    <2>8. ctx' \in Contexts
      <3>1. \E a, b, d, e \in BOOLEAN :
               \/ ctx' = [c EXCEPT !.allDown = a, !.searchPrimary = b,
                                   !.restartChildren = d, !.partialRestart = e]
               \/ ctx' = [c EXCEPT !.allDown = a]
        BY <2>1, ZenonT(20) DEF FailBack
      <3> QED BY <2>3, <3>1, ZenonT(20) DEF Contexts
    <2> QED BY <1>1, <2>2, <2>7, <2>8, AcceptedInv
  <1> QED BY <1>2, <1>3

\* handle_promote
LEMMA PromoteInv ==
  ASSUME TypeInv, HandlePromote
  PROVE  TypeInv' /\ MainStep
  <1> DEFINE r == Head(queue)
  <1>1. Dequeue({"PROMOTE_NODE"}) /\ r \in Requests /\ pc = "dequeue"
    BY HeadTyped DEF HandlePromote, Dequeue, TypeInv
  <1>2. CASE Taken(r).node \in Valid
    <2>1. /\ ctx' = Taken(r) /\ Proceed(status) /\ UNCHANGED <<nodeInfo, statusFile>>
      BY <1>2 DEF HandlePromote
    <2>2. ctx' \in Contexts
      BY <1>1, <2>1, TakenTyped
    <2>3. primary' \in NodeIds
      BY <1>1, <2>1 DEF nodeInfo, TypeInv, TypeOK, SharedTypeOK
    <2>4. status \in [Nodes -> Statuses]
      BY DEF TypeInv, TypeOK, SharedTypeOK
    <2> HIDE DEF r
    <2> QED BY <1>1, <2>1, <2>2, <2>3, <2>4, AcceptedInv DEF nodeInfo, TypeInv, TypeOK, SharedTypeOK
  <1>3. CASE Taken(r).node \notin Valid
    BY <1>1, <1>3, RefusedInv DEF HandlePromote
  <1> QED BY <1>2, <1>3

\* handle_failover_request
LEMMA DegenerateInv ==
  ASSUME TypeInv, HandleFailover
  PROVE  TypeInv' /\ MainStep
  <1> DEFINE r == Head(queue)
             c == Taken(r)
             n == c.node
             st == [status EXCEPT ![n] = "CON_DOWN"]
  <1>1. Dequeue({"NODE_DOWN", "NODE_QUARANTINE"}) /\ r \in Requests /\ pc = "dequeue"
    BY HeadTyped DEF HandleFailover, Dequeue, TypeInv
  <1>2. CASE ~MayDegenerate(n)
    BY <1>1, <1>2, RefusedInv DEF HandleFailover
  <1>3. CASE MayDegenerate(n)
    <2>1. Degenerate(n, c) /\ n \in Nodes
      BY <1>3 DEF HandleFailover, MayDegenerate
    <2>2. c \in Contexts
      BY <1>1, TakenTyped
    <2> HIDE DEF c, n
    <2>3. st \in [Nodes -> Statuses] /\ status' = st /\ wasPrimary' = wasPrimary /\ Proceed(st)
      BY <2>1 DEF Degenerate, TypeInv, TypeOK, SharedTypeOK, Statuses
    <2>4. primary \in NodeIds /\ n \in NodeIds /\ mainNode \in NodeIds
      BY <1>1, <2>1 DEF TypeInv, TypeOK, SharedTypeOK, NodeIds
    <2>5. Up(st) \in SUBSET Nodes /\ statusFile \in SUBSET Nodes
      BY UpNodes DEF TypeInv, TypeOK, SharedTypeOK
    <2> HIDE DEF st
    <2>6. /\ quarantine' \in [Nodes -> BOOLEAN] /\ primary' \in NodeIds
          /\ mainNode' \in NodeIds /\ statusFile' \in SUBSET Nodes
      BY <2>1, <2>4, <2>5, ZenonT(20)
         DEF Degenerate, WriteStatusFile, TypeInv, TypeOK, SharedTypeOK, st
    <2>7. ctx' \in Contexts
      <3>1. \E b \in BOOLEAN :
               ctx' = [c EXCEPT !.nodes = c.nodes \cup {n}, !.searchPrimary = c.searchPrimary /\ b]
        BY <2>1, ZenonT(20) DEF Degenerate
      <3>2. c.nodes \cup {n} \in SUBSET Nodes /\ c.searchPrimary \in BOOLEAN
        BY <2>1, <2>2 DEF Contexts
      <3> QED BY <2>2, <3>1, <3>2, ZenonT(20) DEF Contexts
    <2> QED BY <1>1, <2>3, <2>6, <2>7, AcceptedInv
  <1> QED BY <1>2, <1>3

\* kill_failover_children
LEMMA KillInv ==
  ASSUME TypeInv, KillFailoverChildren
  PROVE  TypeInv' /\ MainStep
  <1>1. ctx \in Contexts /\ child \in [Children -> ChildType]
    BY DEF TypeInv, TypeOK, SharedTypeOK, Contexts
  <1>2. \E a, b \in BOOLEAN :
           ctx' = ctx \/ ctx' = [ctx EXCEPT !.restartChildren = a, !.partialRestart = b]
    BY ZenonT(20) DEF KillFailoverChildren
  <1>3. ctx' \in Contexts
    BY <1>1, <1>2, ZenonT(20) DEF Contexts
  <1>4. \A c \in Children : Quit(child[c]) \in ChildType
    BY <1>1, ZenonT(20) DEF Quit, ChildType
  <1>5. child' \in [Children -> ChildType]
    BY <1>1, <1>4 DEF KillFailoverChildren
  <1>6. TypeOK'
    BY <1>3, <1>5 DEF KillFailoverChildren, TypeInv, TypeOK, SharedTypeOK, MainPlaces,
                      Contexts, nodeInfo, bounds, locals, external
  <1>7. Counted' /\ MainStep
    BY MainKept DEF KillFailoverChildren, TypeInv, Counted, Handling, nodeInfo, bounds, locals,
                    external
  <1> QED BY <1>6, <1>7 DEF KillFailoverChildren, TypeInv, nodeInfo

\* exec_failover_command
LEMMA CommandInv ==
  ASSUME TypeInv, ExecFailoverCommand
  PROVE  TypeInv' /\ MainStep
  <1>1. server' \in [Nodes -> {"primary", "standby", "stopped"}]
    BY DEF ExecFailoverCommand, Promoted, TypeInv, TypeOK, SharedTypeOK
  <1>2. TypeOK'
    BY <1>1 DEF ExecFailoverCommand, TypeInv, TypeOK, SharedTypeOK, MainPlaces, nodeInfo,
                bounds, locals
  <1>3. Counted' /\ MainStep
    BY MainKept DEF ExecFailoverCommand, TypeInv, Counted, Handling, nodeInfo, bounds, locals
  <1> QED BY <1>2, <1>3 DEF ExecFailoverCommand, TypeInv, nodeInfo

\* determine_new_primary_node and find_primary_node_repeatedly
LEMMA DetermineInv ==
  ASSUME TypeInv, DetermineNewPrimary \/ SearchPrimary
  PROVE  TypeInv' /\ MainStep
  <1>1. primary \in NodeIds /\ -1 \in NodeIds /\ ctx.node \in NodeIds
    BY DEF DetermineNewPrimary, SearchPrimary, TypeInv, TypeOK, SharedTypeOK, NodeIds
  <1>2. newPrimary' \in NodeIds /\ pc' \in {"search", "follow"}
    BY <1>1 DEF DetermineNewPrimary, SearchPrimary, StartSearch, Determined, TypeInv, TypeOK
  <1>3. wasPrimary' \in [Nodes -> BOOLEAN]
    <2>1. CASE SearchPrimary
      BY <2>1 DEF SearchPrimary, nodeInfo, TypeInv, TypeOK, SharedTypeOK
    <2>2. CASE DetermineNewPrimary
      BY <2>2, ZenonT(20) DEF DetermineNewPrimary, TypeInv, TypeOK, SharedTypeOK
    <2> QED BY <2>1, <2>2
  <1>4. /\ UNCHANGED <<status, quarantine, primary, mainNode, statusFile, queue, switching,
                       child, bounds, serving, ctx, newMain, promoteNode, external>>
        /\ pc \in {"determine", "search"}
    BY DEF DetermineNewPrimary, SearchPrimary, nodeInfo
  <1>5. TypeOK'
    BY <1>2, <1>3, <1>4 DEF TypeInv, TypeOK, SharedTypeOK, MainPlaces, bounds, external
  <1>6. Counted' /\ MainStep
    BY <1>2, <1>4, MainKept DEF TypeInv, Counted, Handling, bounds, external
  <1> QED BY <1>4, <1>5, <1>6 DEF TypeInv

\* save_node_info: the new main node takes effect.
LEMMA SaveInv ==
  ASSUME TypeInv, SaveNodeInfo
  PROVE  TypeInv' /\ MainStep
  <1>1. mainNode' \in NodeIds /\ primary' \in NodeIds /\ wasPrimary' \in [Nodes -> BOOLEAN]
    BY DEF SaveNodeInfo, TypeInv, TypeOK, SharedTypeOK
  <1>2. TypeOK'
    BY <1>1 DEF SaveNodeInfo, TypeInv, TypeOK, SharedTypeOK, MainPlaces, bounds, locals,
                external
  <1>3. Counted' /\ ~Handling' /\ pc' # "save"
    BY DEF SaveNodeInfo, TypeInv, Counted, Handling, bounds, external
  <1>4. MainStep
    <2> SUFFICES ASSUME MainInv PROVE MainInv'
      BY DEF MainStep
    <2>1. Valid' = Valid /\ Valid \in SUBSET Nodes
      BY UpNodes DEF SaveNodeInfo, Valid
    <2>2. Valid # {} => newMain = NextMainNode(Valid) /\ newMain >= 0
      BY <2>1, MainNodeFound DEF SaveNodeInfo, MainInv
    <2>3. Valid # {} => mainNode' = NextMainNode(Valid)
      BY <2>2 DEF SaveNodeInfo
    <2> QED BY <1>3, <2>1, <2>3 DEF MainInv, NextMainNode
  <1>5. primary' # -2
    BY <1>1, NodesNonempty DEF NodeIds
  <1> QED BY <1>2, <1>3, <1>4, <1>5 DEF TypeInv

\* exec_child_restart and reaper: new session processes.
LEMMA ChildrenInv ==
  ASSUME TypeInv, ChildRestart \/ \E c \in Children : Reap(c)
  PROVE  TypeInv' /\ MainStep
  <1>1. child \in [Children -> ChildType]
    BY DEF TypeInv, TypeOK, SharedTypeOK
  <1>2. \A c \in Children : Forked(child[c], status) \in ChildType
    BY <1>1, ForkedTyped DEF ChildType
  <1>3. child' \in [Children -> ChildType]
    <2>1. CASE ChildRestart
      <3>1. \A c \in Children : Restarted(c) \in ChildType
        BY <1>1, <1>2, ZenonT(20) DEF Restarted, ChildType
      <3> QED BY <2>1, <3>1 DEF ChildRestart
    <2>2. ASSUME NEW c \in Children, Reap(c) PROVE child' \in [Children -> ChildType]
      <3>1. [Forked(child[c], status) EXCEPT !.at = "gone", !.view = {}] \in ChildType
        BY <1>2, ZenonT(20) DEF ChildType, Places
      <3> QED BY <1>1, <1>2, <2>2, <3>1, ZenonT(20) DEF Reap
    <2> QED BY <2>1, <2>2
  <1>4. /\ UNCHANGED <<nodeInfo, statusFile, queue, switching, bounds, serving, ctx, locals,
                       external>>
        /\ pc \in {"restart", "idle"} /\ pc' \in {"dequeue", "idle"}
    BY ZenonT(20) DEF ChildRestart, Reap, Idle, mainVars, locals
  <1>5. TypeOK'
    BY <1>3, <1>4 DEF TypeInv, TypeOK, SharedTypeOK, MainPlaces, nodeInfo, bounds, locals,
                      external
  <1>6. Counted' /\ MainStep
    BY <1>4, MainKept DEF TypeInv, Counted, Handling, nodeInfo, bounds, locals, external
  <1> QED BY <1>4, <1>5, <1>6 DEF TypeInv, nodeInfo

\* exec_follow_primary_command, after it has taken node i down
Lowered(i) ==
  [n \in Nodes |-> IF n <= i /\ n # newPrimary THEN "CON_DOWN" ELSE status[n]]

\* What a run of exec_follow_primary_command changes: the last status file it
\* writes shows a state on the way.
LEMMA FollowEffect ==
  ASSUME TypeInv, FollowPrimary, Follows
  PROVE  /\ status' = Lowered(NumBackends - 1) /\ status' \in [Nodes -> Statuses]
         /\ \/ statusFile' = statusFile
            \/ \E i \in Nodes : statusFile' = Up(Lowered(i))
         /\ newMain' = IF Up(status') = {} THEN newMain ELSE NextMainNode(Up(status'))
         /\ follow' = IF FollowPrimaryCommand
                      THEN [follow EXCEPT !.waiting = @ + 1] ELSE follow
         /\ Serve(status')
  <1>1. status' = Lowered(NumBackends - 1)
    BY DEF FollowPrimary, Lowered
  <1>2. status' \in [Nodes -> Statuses]
    BY <1>1 DEF Lowered, TypeInv, TypeOK, SharedTypeOK, Statuses
  <1> DEFINE written == {i \in Nodes \ {newPrimary} : Up(Lowered(i)) # {}}
             last == CHOOSE i \in written : \A j \in written : j <= i
  <1>3. statusFile' = IF written = {} THEN statusFile ELSE Up(Lowered(last))
    BY ZenonT(20) DEF FollowPrimary, Lowered
  <1>4. written # {} => last \in written
    BY GreatestNode, ZenonT(20)
  <1>5. \/ statusFile' = statusFile \/ \E i \in Nodes : statusFile' = Up(Lowered(i))
    BY <1>3, <1>4, ZenonT(20)
  <1>6. /\ newMain' = IF Up(status') = {} THEN newMain ELSE NextMainNode(Up(status'))
        /\ Serve(status')
    BY <1>1 DEF FollowPrimary, Lowered
  <1>7. follow' = IF FollowPrimaryCommand
                  THEN [follow EXCEPT !.waiting = @ + 1] ELSE follow
    BY DEF FollowPrimary
  <1> QED BY <1>1, <1>2, <1>5, <1>6, <1>7

\* exec_follow_primary_command
LEMMA FollowInv ==
  ASSUME TypeInv, FollowPrimary
  PROVE  TypeInv' /\ MainStep
  <1>1. /\ UNCHANGED <<quarantine, wasPrimary, primary, mainNode, queue, switching, child,
                       bounds, ctx, newPrimary, promoteNode, server>>
        /\ pc = "follow" /\ pc' = "save" /\ Handling /\ ~Handling'
    BY DEF FollowPrimary, Handling
  <1>2. /\ follow \in [waiting: 0..MaxRequests, ongoing: BOOLEAN] /\ follow.waiting \in Nat
        /\ registered \in 0..MaxRequests /\ Len(queue) \in Nat /\ MaxRequests \in Nat
    BY BackendsAssumption DEF TypeInv, TypeOK, SharedTypeOK
  <1>3. /\ follow.waiting + Len(queue) + 1 <= registered
        /\ follow.waiting + 1 \in 0..MaxRequests
    BY <1>1, <1>2 DEF TypeInv, Counted
  <1>4. /\ follow' \in [waiting: 0..MaxRequests, ongoing: BOOLEAN]
        /\ follow'.waiting \in Nat /\ follow'.waiting <= follow.waiting + 1
    <2>1. \/ follow' = follow \/ follow' = [follow EXCEPT !.waiting = follow.waiting + 1]
      BY DEF FollowPrimary
    <2> QED BY <1>2, <1>3, <2>1
  <1>5. Counted'
    BY <1>1, <1>2, <1>3, <1>4 DEF Counted, bounds
  <1>6. /\ status' \in [Nodes -> Statuses] /\ statusFile' \in SUBSET Nodes
        /\ serving' \in SUBSET Nodes /\ newMain' \in NodeIds
    <2>1. CASE Follows
      <3>1. newMain \in NodeIds /\ statusFile \in SUBSET Nodes /\ serving \in SUBSET Nodes
        BY DEF TypeInv, TypeOK, SharedTypeOK
      <3>2. NextMainNode(Up(status')) \in NodeIds /\ Up(status') \in SUBSET Nodes
        BY MainNodeFound, UpNodes
      <3> QED BY <2>1, <3>1, <3>2, FollowEffect, UpNodes DEF Serve
    <2>2. CASE ~Follows
      BY <2>2 DEF FollowPrimary, TypeInv, TypeOK, SharedTypeOK
    <2> QED BY <2>1, <2>2
  <1>7. TypeOK'
    BY <1>1, <1>4, <1>6 DEF TypeInv, TypeOK, SharedTypeOK, MainPlaces, bounds
  <1>8. MainStep
    <2>1. CASE Follows
      BY <1>1, <2>1, FollowEffect DEF MainStep, MainInv, Valid
    <2>2. CASE ~Follows
      BY <1>1, <2>2 DEF FollowPrimary, MainStep, MainInv, Valid
    <2> QED BY <2>1, <2>2
  <1> QED BY <1>1, <1>5, <1>7, <1>8 DEF TypeInv

\* Every step keeps the types and the main node.
LEMMA StepInv == TypeInv /\ [Next]_vars => TypeInv' /\ MainStep
  <1> SUFFICES ASSUME TypeInv, [Next]_vars PROVE TypeInv' /\ MainStep
    OBVIOUS
  <1>1. CASE UNCHANGED vars
    BY <1>1 DEF vars, nodeInfo, bounds, mainVars, external, TypeInv, TypeOK, SharedTypeOK,
                Counted, Handling, MainStep, MainInv, Valid
  <1>2. CASE MainSteps
    BY <1>2, StartUpInv, EndsInv, FailbackInv, PromoteInv, DegenerateInv, KillInv,
       CommandInv, DetermineInv, FollowInv, SaveInv, ChildrenInv DEF MainSteps
  <1>3. CASE EnvironmentSteps
    BY <1>3, RestartInv, EnvironmentInv, NodesNonempty DEF EnvironmentSteps
  <1> QED BY <1>1, <1>2, <1>3 DEF Next

\* Types and the main node, of every behaviour.
LEMMA Invariance == Spec => [](TypeInv /\ MainInv)
  BY InitTyped, StepInv, PTL DEF Spec, MainStep

\* The state of the main process keeps its types, for any number of backends,
\* requests and failures; no more follow-primary children wait than requests
\* were registered.
THEOREM TypeCorrect == Spec => []TypeOK
  BY Invariance, PTL DEF TypeInv

\* Outside failover() Req_info->main_node_id is the first node that is not
\* down, whenever there is one (get_next_main_node, save_node_info), for any
\* number of backends, with quarantine and follow-primary commands.
THEOREM MainNodeCorrect == Spec => []MainNodeIsFirstValid
  <1>1. MainInv => MainNodeIsFirstValid
    BY DEF MainInv, MainNodeIsFirstValid, Idle, Handling
  <1> QED BY <1>1, Invariance, PTL

-----------------------------------------------------------------------------
(* The primary and the status file, without quarantine and without         *)
(* follow_primary_command                                                  *)

\* What a step keeps that leaves the nodes, the file and the place alone.
LEMMA SafeKept ==
  ASSUME PrimaryInv,
         UNCHANGED <<status, primary, statusFile, serving, pc, ctx, newPrimary>>
  PROVE  PrimaryInv' /\ FileStep
  BY DEF PrimaryInv, FileStep, FileInv, Valid

\* The requests that remain after one was taken.
LEMMA PlainTaken ==
  ASSUME TypeInv, PlainInv, NEW k, Dequeue(k),
         UNCHANGED quarantine, ctx'.kind = Head(queue).kind
  PROVE  /\ PlainInv' /\ Head(queue).kind # "NODE_QUARANTINE"
         /\ "UPDATE" \notin Head(queue).details
  <1>1. /\ queue' = Tail(queue) /\ queue # <<>> /\ UNCHANGED follow
    BY DEF Dequeue, external
  <1>2. Head(queue).kind # "NODE_QUARANTINE" /\ "UPDATE" \notin Head(queue).details
    BY <1>1, HeadTyped DEF PlainInv, TypeInv
  <1>3. \A i \in 1..Len(queue') : /\ queue'[i].kind # "NODE_QUARANTINE"
                                  /\ "UPDATE" \notin queue'[i].details
    BY <1>1, HeadTyped DEF PlainInv, TypeInv
  <1> QED BY <1>1, <1>2, <1>3 DEF PlainInv

\* A request that is refused changes neither the nodes nor the file.
LEMMA RefusedSafe ==
  ASSUME TypeInv, PlainSafe, NEW k, Dequeue(k), Refuse(Head(queue))
  PROVE  PlainSafe' /\ FileStep
  <1>1. pc = "dequeue" /\ pc' = "dequeue" /\ UNCHANGED <<status, quarantine, primary,
                                                       statusFile, serving>>
    BY DEF Dequeue, Refuse, nodeInfo
  <1>2. ctx'.kind = Head(queue).kind
    BY <1>1, HeadTyped, TakenTyped DEF Refuse, Dequeue, TypeInv
  <1>3. PlainInv'
    BY <1>1, <1>2, PlainTaken DEF PlainSafe
  <1>4. PrimaryInv' /\ FileStep
    BY <1>1 DEF PlainSafe, PrimaryInv, FileStep, FileInv, Valid
  <1> QED BY <1>3, <1>4 DEF PlainSafe

\* Starts of pgbalancer: the file decides which nodes are in use.
LEMMA InitSafe == Init => PlainSafe /\ FileInv
  <1> SUFFICES ASSUME Init PROVE PlainSafe /\ FileInv
    OBVIOUS
  <1>1. /\ Valid = (IF statusFile = {} THEN Nodes ELSE statusFile)
        /\ Valid # {} /\ serving = Valid /\ pc = "start"
    BY FileRead DEF Init, Valid
  <1>2. FileInv
    BY <1>1 DEF FileInv
  <1>3. PrimaryInv
    BY <1>1 DEF PrimaryInv
  <1>4. PlainInv
    BY FreshTyped DEF Init, PlainInv
  <1> QED BY <1>2, <1>3, <1>4 DEF PlainSafe

\* A restart: what the file names is what was valid last.
LEMMA RestartSafe ==
  ASSUME TypeInv, PlainSafe, Restart
  PROVE  PlainSafe' /\ FileInv' /\ (FileInv /\ Valid # {} => Valid' = Valid)
  <1>1. statusFile \in SUBSET Nodes
    BY DEF TypeInv, TypeOK, SharedTypeOK
  <1>2. /\ Valid' = (IF statusFile = {} THEN Nodes ELSE statusFile)
        /\ Valid' # {} /\ statusFile' = Valid' /\ serving' = Valid' /\ pc' = "start"
    BY <1>1, FileRead DEF Restart, Serve, Valid
  <1>3. FileInv'
    BY <1>2 DEF FileInv
  <1>4. PrimaryInv'
    BY <1>2 DEF PrimaryInv
  <1>5. PlainInv'
    BY FreshTyped DEF Restart, PlainInv
  <1>6. FileInv /\ Valid # {} => Valid' = Valid
    BY <1>2 DEF FileInv
  <1> QED BY <1>3, <1>4, <1>5, <1>6 DEF PlainSafe

\* The first search, and the file that is written after it.
LEMMA StartUpSafe ==
  ASSUME TypeInv, PlainSafe, StartUp
  PROVE  PlainSafe' /\ FileStep
  <1>1. primary' >= 0 => primary' \in Valid
    BY DEF StartUp, Search, Primaries
  <1>2. UNCHANGED <<status, quarantine, queue, serving, ctx, follow>> /\ pc' = "idle"
    BY DEF StartUp, external
  <1>3. PlainInv'
    BY <1>2 DEF PlainSafe, PlainInv
  <1>4. PrimaryInv'
    BY <1>1, <1>2 DEF PrimaryInv, Valid
  <1>5. FileStep
    <2>1. statusFile' = IF Valid = {} THEN statusFile ELSE Valid
      BY DEF StartUp, WriteStatusFile, Valid
    <2>2. Valid' = Valid
      BY <1>2 DEF Valid
    <2> QED BY <1>2, <2>1, <2>2, NodesNonempty DEF PlainSafe, FileStep, FileInv
  <1> QED BY <1>3, <1>4, <1>5 DEF PlainSafe

\* handle_failback_request: a node comes back, none goes.
LEMMA FailbackSafe ==
  ASSUME TypeInv, PlainSafe, HandleFailback
  PROVE  PlainSafe' /\ FileStep
  <1> DEFINE r == Head(queue)
             n == r.node
             c == Taken(r)
             st == [status EXCEPT ![n] = "CON_CONNECT_WAIT"]
  <1>1. Dequeue({"NODE_UP"}) /\ r \in Requests /\ n \in Nodes /\ pc = "dequeue"
    BY HeadTyped DEF HandleFailback, Dequeue, TypeInv, Requests
  <1>2. CASE r.node \in Valid
    BY <1>1, <1>2, RefusedSafe DEF HandleFailback
  <1>3. CASE r.node \notin Valid
    <2>1. FailBack(n, c)
      BY <1>3 DEF HandleFailback
    <2>2. "UPDATE" \notin r.details
      BY <1>1, HeadTyped DEF PlainSafe, PlainInv, TypeInv, Dequeue
    <2>3. c \in Contexts /\ c.kind = r.kind /\ c.details = r.details
      BY <1>1, TakenTyped
    <2> HIDE DEF c, n
    <2>4. /\ status' = st /\ statusFile' = WriteStatusFile(st)
          /\ \E b \in BOOLEAN : ctx' = [c EXCEPT !.allDown = b]
          /\ UNCHANGED <<quarantine, primary, mainNode>> /\ Proceed(st)
      BY <2>1, <2>2, <2>3, ZenonT(20) DEF FailBack
    <2>5. ctx'.kind = r.kind
      BY <2>3, <2>4 DEF Contexts
    <2>6. PlainInv'
      BY <1>1, <2>4, <2>5, PlainTaken DEF PlainSafe
    <2>7. Up(st) = Valid \cup {n}
      BY <1>1 DEF Valid, Up, TypeInv, TypeOK, SharedTypeOK, n
    <2>8. pc' = "kill" /\ serving' = Valid \cup {n} /\ statusFile' = Valid \cup {n}
          /\ Valid' = Valid \cup {n}
      BY <2>4, <2>7, ZenonT(20) DEF Proceed, Serve, WriteStatusFile, Valid
    <2>9. PrimaryInv'
      BY <1>1, <2>4, <2>8 DEF PlainSafe, PrimaryInv
    <2>10. FileStep
      BY <2>8 DEF FileStep, FileInv
    <2> QED BY <2>6, <2>9, <2>10 DEF PlainSafe
  <1> QED BY <1>2, <1>3

\* handle_promote
LEMMA PromoteSafe ==
  ASSUME TypeInv, PlainSafe, HandlePromote
  PROVE  PlainSafe' /\ FileStep
  <1> DEFINE r == Head(queue)
  <1>1. Dequeue({"PROMOTE_NODE"}) /\ r \in Requests /\ pc = "dequeue"
    BY HeadTyped DEF HandlePromote, Dequeue, TypeInv
  <1>2. CASE Taken(r).node \in Valid
    <2>1. /\ ctx' = Taken(r) /\ Proceed(status) /\ UNCHANGED <<nodeInfo, statusFile>>
      BY <1>2 DEF HandlePromote
    <2>2. ctx'.kind = r.kind
      BY <1>1, <2>1, TakenTyped
    <2>3. PlainInv'
      BY <1>1, <2>1, <2>2, PlainTaken DEF PlainSafe, nodeInfo
    <2>4. pc' = "kill" /\ serving' = IF Valid = {} THEN serving ELSE Valid
      BY <2>1 DEF Proceed, Serve, Valid
    <2>5. PrimaryInv' /\ FileStep
      BY <1>1, <2>1, <2>4 DEF PlainSafe, PrimaryInv, FileStep, FileInv, nodeInfo, Valid
    <2> QED BY <2>3, <2>5 DEF PlainSafe
  <1>3. CASE Taken(r).node \notin Valid
    BY <1>1, <1>3, RefusedSafe DEF HandlePromote
  <1> QED BY <1>2, <1>3

\* handle_failover_request: the node that goes may be the primary.
LEMMA DegenerateSafe ==
  ASSUME TypeInv, PlainSafe, HandleFailover
  PROVE  PlainSafe' /\ FileStep
  <1> DEFINE r == Head(queue)
             c == Taken(r)
             n == c.node
             st == [status EXCEPT ![n] = "CON_DOWN"]
  <1>1. Dequeue({"NODE_DOWN", "NODE_QUARANTINE"}) /\ r \in Requests /\ pc = "dequeue"
    BY HeadTyped DEF HandleFailover, Dequeue, TypeInv
  <1>2. CASE ~MayDegenerate(n)
    BY <1>1, <1>2, RefusedSafe DEF HandleFailover
  <1>3. CASE MayDegenerate(n)
    <2>1. Degenerate(n, c) /\ n \in Nodes /\ ~quarantine[n]
      BY <1>3 DEF HandleFailover, MayDegenerate, PlainSafe, PlainInv
    <2>2. r.kind = "NODE_DOWN"
      BY <1>1, HeadTyped DEF PlainSafe, PlainInv, TypeInv, Dequeue
    <2>3. c \in Contexts /\ c.kind = "NODE_DOWN"
      BY <1>1, <2>2, TakenTyped
    <2>4. c.node = n
      OBVIOUS
    <2> HIDE DEF c, n
    <2>5. /\ status' = st /\ statusFile' = WriteStatusFile(st) /\ primary' = primary
          /\ quarantine' = [quarantine EXCEPT ![n] = FALSE] /\ Proceed(st)
      BY <2>1, <2>3, ZenonT(20) DEF Degenerate
    <2>6. \E b \in BOOLEAN :
             ctx' = [c EXCEPT !.nodes = c.nodes \cup {n}, !.searchPrimary = c.searchPrimary /\ b]
      BY <2>1, ZenonT(20) DEF Degenerate
    <2>7. ctx'.kind = "NODE_DOWN" /\ ctx'.node = n
      BY <2>3, <2>4, <2>6 DEF Contexts
    <2>8. UNCHANGED quarantine
      BY <2>1, <2>5 DEF TypeInv, TypeOK, SharedTypeOK
    <2>9. PlainInv'
      BY <1>1, <2>2, <2>7, <2>8, PlainTaken DEF PlainSafe
    <2>10. Up(st) = Valid \ {n}
      BY <2>1 DEF Valid, Up, TypeInv, TypeOK, SharedTypeOK
    <2>11. /\ pc' = "kill" /\ Valid' = Valid \ {n}
           /\ serving' = IF Valid \ {n} = {} THEN serving ELSE Valid \ {n}
           /\ statusFile' = IF Valid \ {n} = {} THEN statusFile ELSE Valid \ {n}
      BY <2>5, <2>10, ZenonT(20) DEF Proceed, Serve, WriteStatusFile, Valid
    <2>12. PrimaryInv'
      BY <1>1, <2>5, <2>7, <2>11 DEF PlainSafe, PrimaryInv
    <2>13. FileStep
      BY <1>1, <2>11 DEF PlainSafe, FileStep, FileInv
    <2> QED BY <2>9, <2>12, <2>13 DEF PlainSafe
  <1> QED BY <1>2, <1>3

\* The ends of failover(), and new session processes.
LEMMA EndsSafe ==
  ASSUME PlainSafe,
         EnterFailover \/ LeaveFailover \/ ChildRestart \/ \E c \in Children : Reap(c)
  PROVE  PlainSafe' /\ FileStep
  <1>1. /\ UNCHANGED <<status, quarantine, primary, statusFile, queue, serving, follow>>
        /\ pc \in {"idle", "dequeue", "restart"} /\ pc' \in {"idle", "dequeue"}
    BY ZenonT(20)
       DEF EnterFailover, LeaveFailover, ChildRestart, Reap, Idle, nodeInfo, external, mainVars
  <1>2. ctx' = ctx \/ ctx'.kind = "NODE_DOWN"
    BY FreshTyped, ZenonT(20) DEF EnterFailover, LeaveFailover, ChildRestart, Reap, mainVars
  <1>3. PlainInv'
    BY <1>1, <1>2, ZenonT(20) DEF PlainSafe, PlainInv
  <1>4. PrimaryInv' /\ FileStep
    BY <1>1 DEF PlainSafe, PrimaryInv, FileStep, FileInv, Valid
  <1> QED BY <1>3, <1>4 DEF PlainSafe

\* kill_failover_children and exec_failover_command
LEMMA CommandSafe ==
  ASSUME TypeInv, PlainSafe, KillFailoverChildren \/ ExecFailoverCommand
  PROVE  PlainSafe' /\ FileStep
  <1>1. /\ UNCHANGED <<status, quarantine, primary, statusFile, queue, serving, follow>>
        /\ pc \in {"kill", "command"} /\ pc' \in {"command", "determine"}
    BY DEF KillFailoverChildren, ExecFailoverCommand, nodeInfo, external
  <1>2. ctx \in Contexts
    BY DEF TypeInv, TypeOK, Contexts
  <1>3. \E a, b \in BOOLEAN :
           ctx' = ctx \/ ctx' = [ctx EXCEPT !.restartChildren = a, !.partialRestart = b]
    BY ZenonT(20) DEF KillFailoverChildren, ExecFailoverCommand
  <1>4. ctx'.kind = ctx.kind /\ ctx'.node = ctx.node
    BY <1>2, <1>3, ZenonT(20) DEF Contexts
  <1>5. PlainInv'
    BY <1>1, <1>4 DEF PlainSafe, PlainInv
  <1>6. PrimaryInv' /\ FileStep
    BY <1>1, <1>4 DEF PlainSafe, PrimaryInv, FileStep, FileInv, Valid
  <1> QED BY <1>5, <1>6 DEF PlainSafe

\* determine_new_primary_node and find_primary_node_repeatedly: a primary that
\* went down is never the new one.
LEMMA DetermineSafe ==
  ASSUME TypeInv, PlainSafe, DetermineNewPrimary \/ SearchPrimary
  PROVE  PlainSafe' /\ FileStep
  <1>1. /\ UNCHANGED <<status, quarantine, primary, statusFile, queue, serving, ctx, follow>>
        /\ pc \in {"determine", "search"} /\ pc' \in {"search", "follow"}
    BY DEF DetermineNewPrimary, SearchPrimary, StartSearch, Determined, nodeInfo, external
  <1>2. PlainInv'
    BY <1>1 DEF PlainSafe, PlainInv
  <1>3. FileStep
    BY <1>1 DEF PlainSafe, FileStep, FileInv, Valid
  <1>4. pc' = "follow" /\ newPrimary' >= 0 => newPrimary' \in Valid
    <2>1. CASE SearchPrimary
      BY <2>1 DEF SearchPrimary, Determined, Search, Primaries
    <2>2. CASE DetermineNewPrimary
      <3>1. pc = "determine" /\ ctx.kind # "NODE_QUARANTINE" /\ ~follow.ongoing
        BY <2>2 DEF DetermineNewPrimary, PlainSafe, PlainInv
      <3>2. \/ newPrimary' = ctx.node /\ ctx.node \in Valid
            \/ newPrimary' = -1
            \/ pc' = "search"
            \/ newPrimary' = primary /\ primary >= 0 /\ primary # ctx.node
            \/ newPrimary' = primary /\ ctx.kind # "NODE_DOWN"
        BY <2>2, <3>1 DEF DetermineNewPrimary, StartSearch, Determined
      <3>3. primary >= 0 => primary \in Valid \/ (primary = ctx.node /\ ctx.kind = "NODE_DOWN")
        BY <3>1 DEF PlainSafe, PrimaryInv
      <3> QED BY <3>2, <3>3
    <2> QED BY <2>1, <2>2
  <1>5. PrimaryInv'
    BY <1>1, <1>4 DEF PrimaryInv, Valid
  <1> QED BY <1>2, <1>3, <1>5 DEF PlainSafe

\* save_node_info
LEMMA SaveSafe ==
  ASSUME PlainSafe, SaveNodeInfo
  PROVE  PlainSafe' /\ FileStep
  <1>1. /\ UNCHANGED <<status, quarantine, statusFile, queue, serving, ctx, follow>>
        /\ pc = "save" /\ pc' = "restart" /\ primary' = newPrimary
    BY DEF SaveNodeInfo, external
  <1> QED BY <1>1 DEF PlainSafe, PlainInv, PrimaryInv, FileStep, FileInv, Valid

\* exec_follow_primary_command for a promotion: only the new primary stays in
\* use, and the last file it writes says so.
LEMMA FollowSafe ==
  ASSUME TypeInv, PlainSafe, FollowPrimary, ~FollowPrimaryCommand
  PROVE  PlainSafe' /\ FileStep
  <1>1. /\ UNCHANGED <<quarantine, primary, queue, ctx, newPrimary, follow>>
        /\ pc = "follow" /\ pc' = "save"
    BY DEF FollowPrimary
  <1>2. PlainInv'
    BY <1>1 DEF PlainSafe, PlainInv
  <1>3. newPrimary >= 0 => newPrimary \in Valid
    BY <1>1 DEF PlainSafe, PrimaryInv
  <1>4. CASE ~Follows
    <2>1. UNCHANGED <<status, statusFile, serving>>
      BY <1>4 DEF FollowPrimary
    <2> QED BY <1>1, <1>2, <2>1 DEF PlainSafe, PrimaryInv, FileStep, FileInv, Valid
  <1>5. CASE Follows
    <2>1. /\ newPrimary \in Valid /\ newPrimary \in Nodes /\ NumBackends > 1
          /\ NumBackends \in Nat /\ status[newPrimary] # "CON_DOWN"
      BY <1>3, <1>5, BackendsAssumption DEF Follows, Valid, Up
    <2>2. \A i : newPrimary \in Up(Lowered(i))
      BY <2>1 DEF Lowered, Up
    <2>3. ASSUME NEW i, \A n \in Nodes \ {newPrimary} : n <= i
          PROVE  Up(Lowered(i)) = {newPrimary}
      BY <2>1, <2>3 DEF Lowered, Up
    <2>4. Up(status') = {newPrimary} /\ status' = Lowered(NumBackends - 1)
      BY <1>5, <2>1, <2>3, FollowEffect DEF Nodes
    <2> DEFINE written == {i \in Nodes \ {newPrimary} : Up(Lowered(i)) # {}}
               last == CHOOSE i \in written : \A j \in written : j <= i
    <2>5. statusFile' = IF written = {} THEN statusFile ELSE Up(Lowered(last))
      BY <1>5, ZenonT(20) DEF FollowPrimary, Lowered
    <2>6. written = Nodes \ {newPrimary}
      BY <2>2
    <2>7. 0 \in Nodes /\ 1 \in Nodes
      BY <2>1 DEF Nodes
    <2>8. written # {} /\ written \in SUBSET Nodes
      BY <2>6, <2>7
    <2>9. \E i \in written : \A j \in written : j <= i
      BY <2>8, GreatestNode, ZenonT(20)
    <2>10. last \in written /\ \A j \in written : j <= last
      BY <2>9, ZenonT(20)
    <2> HIDE DEF last, written
    <2>11. Up(Lowered(last)) = {newPrimary}
      BY <2>3, <2>6, <2>10
    <2>12. statusFile' = {newPrimary} /\ serving' = {newPrimary} /\ Valid' = {newPrimary}
      BY <1>5, <2>4, <2>5, <2>8, <2>11, FollowEffect DEF Serve, Valid
    <2>13. PrimaryInv' /\ FileStep
      BY <1>1, <2>12 DEF PrimaryInv, FileStep, FileInv
    <2> QED BY <1>2, <2>13 DEF PlainSafe
  <1> QED BY <1>4, <1>5

\* Requests that arrive, and servers.  No request is a quarantine, or an
\* update of one.
LEMMA EnvironmentSafe ==
  ASSUME TypeInv, PlainSafe, ~Quorumless, NEW n \in Nodes,
         \/ FollowStart \/ FollowEnd \/ FollowNode(n) \/ ServerFails(n) \/ ServerStarts(n)
         \/ DegenerateBackend(n) \/ PromoteBackend(n) \/ SendFailbackRequest(n)
  PROVE  PlainSafe' /\ FileStep /\ UNCHANGED status
  <1>0. UNCHANGED <<nodeInfo, statusFile, serving, mainVars>>
    BY DEF FollowStart, FollowEnd, FollowNode, ServerFails, ServerStarts, DegenerateBackend,
           PromoteBackend, SendFailbackRequest, Asks
  <1>1. PrimaryInv' /\ FileStep
    BY <1>0, SafeKept DEF PlainSafe, nodeInfo, mainVars
  <1>2. CASE FollowStart \/ FollowEnd \/ FollowNode(n)
    BY <1>2 DEF FollowStart, FollowEnd, FollowNode, PlainSafe, PlainInv
  <1>3. CASE ServerFails(n) \/ ServerStarts(n)
    BY <1>0, <1>1, <1>3, ZenonT(20)
       DEF ServerFails, ServerStarts, PlainSafe, PlainInv, nodeInfo, mainVars
  <1>4. CASE DegenerateBackend(n) \/ PromoteBackend(n) \/ SendFailbackRequest(n)
    <2>1. PICK k \in Kinds, d \in SUBSET Details :
             Asks(k, n, d) /\ k # "NODE_QUARANTINE" /\ "UPDATE" \notin d
      <3>1. CASE DegenerateBackend(n)
        BY <3>1 DEF DegenerateBackend, Kinds, Details
      <3>2. CASE PromoteBackend(n)
        BY <3>2 DEF PromoteBackend, Kinds, Details
      <3>3. CASE SendFailbackRequest(n)
        BY <3>3 DEF SendFailbackRequest, Kinds, Details, PlainSafe, PlainInv
      <3> QED BY <1>4, <3>1, <3>2, <3>3
    <2> DEFINE r == [kind |-> k, node |-> n, details |-> d]
    <2>2. r \in Requests /\ r.kind # "NODE_QUARANTINE" /\ "UPDATE" \notin r.details
      BY <2>1 DEF Requests
    <2>3. queue' = Append(queue, r) /\ UNCHANGED follow
      BY <2>1 DEF Asks, RegisterRequest, external
    <2> HIDE DEF r
    <2>4. queue \in Seq(Requests)
      BY DEF TypeInv, TypeOK, SharedTypeOK
    <2>5. \A i \in 1..Len(queue') : /\ queue'[i].kind # "NODE_QUARANTINE"
                                    /\ "UPDATE" \notin queue'[i].details
      <3> SUFFICES ASSUME NEW i \in 1..Len(queue')
                   PROVE  queue'[i].kind # "NODE_QUARANTINE" /\ "UPDATE" \notin queue'[i].details
        OBVIOUS
      <3>1. (i \in 1..Len(queue) /\ queue'[i] = queue[i]) \/ queue'[i] = r
        BY <2>2, <2>3, <2>4
      <3> QED BY <2>2, <3>1 DEF PlainSafe, PlainInv
    <2>6. PlainInv'
      BY <1>0, <2>3, <2>5, ZenonT(20) DEF PlainSafe, PlainInv, nodeInfo, mainVars
    <2> QED BY <1>0, <1>1, <2>6 DEF PlainSafe, nodeInfo
  <1> QED BY <1>2, <1>3, <1>4

\* Every step keeps the primary and the status file right.
LEMMA StepSafe ==
  ASSUME ~Quorumless, ~FollowPrimaryCommand, TypeInv, PlainSafe, [Next]_vars
  PROVE  PlainSafe' /\ FileStep
  <1>1. CASE UNCHANGED vars
    BY <1>1, ZenonT(20) DEF vars, nodeInfo, mainVars, external, PlainSafe, PlainInv, PrimaryInv,
                            FileStep, FileInv, Valid
  <1>2. CASE MainSteps
    BY <1>2, StartUpSafe, EndsSafe, FailbackSafe, PromoteSafe, DegenerateSafe, CommandSafe,
       DetermineSafe, FollowSafe, SaveSafe DEF MainSteps
  <1>3. CASE EnvironmentSteps
    BY <1>3, RestartSafe, EnvironmentSafe, NodesNonempty DEF EnvironmentSteps, FileStep
  <1> QED BY <1>1, <1>2, <1>3 DEF Next

\* The main process reaches "start" only by a restart.
LEMMA OnlyRestartStarts ==
  ASSUME MainSteps
  PROVE  pc' # "start"
  BY ZenonT(20) DEF MainSteps, StartUp, EnterFailover, LeaveFailover, HandleFailback, HandlePromote,
         HandleFailover, FailBack, Degenerate, Proceed, Refuse, Dequeue, KillFailoverChildren,
         ExecFailoverCommand, DetermineNewPrimary, StartSearch, Determined, SearchPrimary,
         FollowPrimary, SaveNodeInfo, ChildRestart, Reap, Idle, mainVars

\* A start attaches no node that was detached.
LEMMA StepKeepsDetached ==
  ASSUME ~Quorumless, TypeInv, PlainSafe, FileInv, [Next]_vars
  PROVE  pc' = "start" /\ Valid # {} => Valid' \subseteq Valid
  <1>1. CASE UNCHANGED vars
    BY <1>1 DEF vars, nodeInfo, Valid
  <1>2. CASE MainSteps
    BY <1>2, OnlyRestartStarts
  <1>3. CASE EnvironmentSteps
    <2>1. CASE Restart
      BY <2>1, RestartSafe
    <2>2. CASE ~Restart
      <3>1. UNCHANGED status
        BY <1>3, <2>2, EnvironmentSafe, NodesNonempty DEF EnvironmentSteps
      <3> QED BY <3>1 DEF Valid
    <2> QED BY <2>1, <2>2
  <1> QED BY <1>1, <1>2, <1>3 DEF Next

\* The inductive invariant, of every behaviour without quarantine and without
\* follow_primary_command.
LEMMA SafeInvariance ==
  ASSUME ~Quorumless, ~FollowPrimaryCommand
  PROVE  Spec => [](TypeInv /\ PlainSafe /\ FileInv)
  <1>1. TypeInv /\ PlainSafe /\ FileInv /\ [Next]_vars => PlainSafe' /\ FileInv'
    BY StepSafe DEF FileStep
  <1> QED BY <1>1, InitSafe, Invariance, PTL DEF Spec

\* Outside failover() Req_info->primary_node_id names a node in use or none:
\* determine_new_primary_node replaces a primary that went down, for any
\* number of backends and however requests and failures interleave.
THEOREM PrimaryCorrect ==
  ASSUME ~Quorumless, ~FollowPrimaryCommand
  PROVE  Spec => []PrimaryIsValid
  <1>1. PlainSafe => PrimaryIsValid
    BY DEF PlainSafe, PrimaryInv, PrimaryIsValid, Idle
  <1> QED BY <1>1, SafeInvariance, PTL

\* Outside failover() the status file names the nodes that were in use last
\* (write_status_file), for any number of backends.
THEOREM StatusFileCorrect ==
  ASSUME ~Quorumless, ~FollowPrimaryCommand
  PROVE  Spec => []StatusFileFaithful
  <1>1. FileInv => StatusFileFaithful
    BY DEF FileInv, StatusFileFaithful, Idle
  <1> QED BY <1>1, SafeInvariance, PTL

\* A restart at any point of failover() attaches no node that was detached
\* while another was in use (read_status_file after write_status_file).
THEOREM RestartsKeepDetached ==
  ASSUME ~Quorumless, ~FollowPrimaryCommand
  PROVE  Spec => RestartKeepsDetached
  <1>1. /\ TypeInv /\ PlainSafe /\ FileInv /\ [Next]_vars
        => [pc' = "start" /\ Valid # {} => Valid' \subseteq Valid]_vars
    BY StepKeepsDetached
  <1> QED BY <1>1, SafeInvariance, PTL DEF Spec, RestartKeepsDetached

-----------------------------------------------------------------------------
(* What a session process does to its private status                       *)

\* Where and with what record the processes stand that have not ended.
LEMMA EndedType ==
  ASSUME NEW ch \in ChildType
  PROVE  Ended(ch) \in ChildType /\ ~Running(Ended(ch))
  BY ZenonT(20) DEF Ended, ChildType, Places, NodeIds, Running

\* The top of do_child's loop keeps the private status; the process ends if
\* it is flagged.
LEMMA LoopTopEffect ==
  ASSUME NEW ch \in ChildType
  PROVE  /\ LoopTop(ch) \in ChildType /\ LoopTop(ch).view = ch.view
         /\ LoopTop(ch).at \in {"accept", "exited"}
         /\ Running(LoopTop(ch)) => ~ch.restart /\ LoopTop(ch).restart = ch.restart
  <1>1. CASE ch.restart
    <2> DEFINE off == [ch EXCEPT !.restart = FALSE]
    <2>1. off \in ChildType /\ off.view = ch.view
      BY ZenonT(20) DEF ChildType
    <2>2. LoopTop(ch) = Ended(off)
      BY <1>1 DEF LoopTop
    <2> HIDE DEF off
    <2>3. Ended(off).view = off.view /\ Ended(off).at = "exited"
      BY <2>1, ZenonT(20) DEF Ended, ChildType
    <2> QED BY <2>1, <2>2, <2>3, EndedType
  <1>2. CASE ~ch.restart
    <2>1. LoopTop(ch) = [ch EXCEPT !.at = "accept", !.node = -1]
      BY <1>2 DEF LoopTop
    <2>2. /\ LoopTop(ch) \in ChildType /\ LoopTop(ch).view = ch.view
          /\ LoopTop(ch).at = "accept" /\ LoopTop(ch).restart = ch.restart
      BY <2>1, ZenonT(20) DEF ChildType, Places, NodeIds
    <2> QED BY <1>2, <2>2
  <1> QED BY <1>1, <1>2

\* validate_backend_connectivity keeps the private status.
LEMMA ValidatedEffect ==
  ASSUME NEW ch \in ChildType
  PROVE  /\ Validated(ch) \in ChildType /\ Validated(ch).view = ch.view
         /\ Validated(ch).restart = ch.restart /\ Validated(ch).at \in {"accepted", "exited"}
  BY ZenonT(20) DEF Validated, Ended, ChildType, Places, NodeIds

\* new_connection's progress strikes nodes out of the private status only if
\* they are down, and never the ones it has passed; without any node left it
\* goes on only in a process that is not flagged.
LEMMA AdvanceEffect ==
  ASSUME NEW ch \in ChildType, NEW st
  PROVE  /\ Advance(ch, st) \in ChildType
         /\ Advance(ch, st).at \in {"connect", "opened", "accept", "exited"}
         /\ Advance(ch, st).view \subseteq ch.view
         /\ ch.view \cap Up(st) \subseteq Advance(ch, st).view
         /\ \A n \in ch.view : n <= ch.node => n \in Advance(ch, st).view
         /\ Advance(ch, st).at = "connect" => Advance(ch, st).node \in Advance(ch, st).view
         /\ Running(Advance(ch, st)) =>
              /\ Advance(ch, st).restart = ch.restart
              /\ Advance(ch, st).view = {} => ~ch.restart
  <1> DEFINE ahead == {n \in ch.view : n > ch.node}
             next == ahead \cap Up(st)
             kept == [ch EXCEPT !.view = ch.view \ ahead]
             passed == {n \in ahead : n < Least(next)}
             on == [ch EXCEPT !.node = Least(next), !.at = "connect",
                              !.view = ch.view \ passed]
             a == Advance(ch, st)
  <1>1. /\ ch.view \in SUBSET Nodes /\ ch.node \in NodeIds /\ NodeIds \subseteq Int
        /\ Nodes \subseteq NodeIds /\ Nodes \subseteq Nat
    BY NodesNonempty DEF ChildType, NodeIds
  <1>2. a = IF next # {} THEN on
            ELSE IF kept.view = {} THEN LoopTop(kept)
            ELSE [kept EXCEPT !.node = -1, !.at = "opened"]
    BY ZenonT(20) DEF Advance
  <1>3. \A n \in ch.view : n <= ch.node => n \notin ahead
    <2>1. ch.node \in Int /\ \A n \in ch.view : n \in Int
      BY <1>1, ZenonT(20)
    <2>2. \A n \in ch.view : n <= ch.node => ~(n > ch.node)
      BY <2>1
    <2> QED BY <2>2, ZenonT(20)
  <1>4. CASE next # {}
    <2>1. next \in SUBSET Nodes
      BY <1>1, ZenonT(20)
    <2>2. Least(next) \in next /\ \A m \in next : Least(next) <= m
      BY <1>4, <2>1, MainNodeFound DEF NextMainNode
    <2>3. /\ Least(next) \in NodeIds /\ Least(next) \in ch.view /\ Least(next) \notin passed
          /\ passed \cap Up(st) = {}
      <3>1. Least(next) \in Nat /\ \A m \in next : m \in Nat
        BY <1>1, <2>1, <2>2, ZenonT(20)
      <3>2. \A m, k \in Nat : k <= m => ~(m < k)
        OBVIOUS
      <3>3. \A m \in next : ~(m < Least(next))
        BY <2>2, <3>1, <3>2, ZenonT(20)
      <3> QED BY <1>1, <2>1, <2>2, <3>3, ZenonT(20)
    <2> HIDE DEF passed, next
    <2>4. /\ on \in ChildType /\ on.view = ch.view \ passed /\ on.node = Least(next)
          /\ on.at = "connect" /\ on.restart = ch.restart
      <3>1. ch.view \ passed \in SUBSET Nodes
        BY <1>1
      <3> QED BY <2>3, <3>1, ZenonT(20) DEF ChildType, Places
    <2>5. a = on
      BY <1>2, <1>4
    <2>6. passed \subseteq ahead
      BY DEF passed
    <2> HIDE DEF on, a, ahead
    <2> QED BY <1>3, <2>3, <2>4, <2>5, <2>6, ZenonT(20) DEF a
  <1>5. CASE next = {}
    <2>1. /\ kept \in ChildType /\ kept.view = ch.view \ ahead /\ kept.restart = ch.restart
      <3>1. ch.view \ ahead \in SUBSET Nodes
        BY <1>1
      <3> HIDE DEF ahead
      <3> QED BY <3>1, ZenonT(20) DEF ChildType
    <2>2. ch.view \cap Up(st) \subseteq kept.view /\ \A n \in ch.view : n <= ch.node => n \in kept.view
      BY <1>3, <1>5, <2>1
    <2> HIDE DEF kept
    <2>3. CASE kept.view = {}
      <3>1. a = LoopTop(kept)
        BY <1>2, <1>5, <2>3
      <3> HIDE DEF a
      <3> QED BY <2>1, <2>2, <2>3, <3>1, LoopTopEffect, ZenonT(20) DEF a
    <2>4. CASE kept.view # {}
      <3>1. a = [kept EXCEPT !.node = -1, !.at = "opened"]
        BY <1>2, <1>5, <2>4
      <3>2. /\ a \in ChildType /\ a.at = "opened" /\ a.view = kept.view /\ a.restart = kept.restart
        BY <2>1, <3>1, ZenonT(20) DEF ChildType, Places, NodeIds
      <3> HIDE DEF a
      <3> QED BY <2>1, <2>2, <2>4, <3>2, ZenonT(20) DEF a
    <2> QED BY <2>3, <2>4, ZenonT(20)
  <1> QED BY <1>4, <1>5, ZenonT(20)

\* A step of process c that leaves it running: it is flagged and goes on
\* without a node, or it drops only nodes that are down, or it renews its
\* private status.
Skips(c) ==
  child'[c].restart /\ child'[c].view # {} /\ child'[c].view \subseteq child[c].view

Keeps(c) ==
  /\ child'[c].restart = child[c].restart
  /\ child'[c].view \subseteq child[c].view
  /\ child[c].view \cap Valid' \subseteq child'[c].view
  /\ child'[c].view = {} => child[c].view = {} \/ ~child[c].restart

Renews(c) == child'[c].view = Valid /\ Valid' = Valid

\* What a step of process c may do to the state that the processes share: it
\* attaches no node but one of its private status.
Moves(c) ==
  /\ UNCHANGED <<pc, ctx>> /\ (AskedInv => AskedInv')
  /\ Running(child[c]) /\ \A d \in Children \ {c} : child'[d] = child[d]
  /\ Valid \subseteq Valid' /\ Valid' \ Valid \subseteq child[c].view
  /\ child'[c].at = "connect" => child'[c].node \in child'[c].view
  /\ Running(child'[c]) => Skips(c) \/ Keeps(c) \/ Renews(c)

\* A step that changes nothing but the process.
LEMMA Becoming ==
  ASSUME TypeInv, NEW c \in Children, NEW ch \in ChildType, Becomes(c, ch), UNCHANGED nodeInfo
  PROVE  /\ TypeInv' /\ UNCHANGED <<pc, ctx, queue, status>> /\ Valid' = Valid
         /\ child'[c] = ch /\ \A d \in Children \ {c} : child'[d] = child[d]
  <1>1. /\ child \in [Children -> ChildType] /\ child' = [child EXCEPT ![c] = ch]
        /\ UNCHANGED <<statusFile, queue, switching, bounds, serving, mainVars, external>>
    BY DEF Becomes, TypeInv, TypeOK, SharedTypeOK
  <1>2. /\ child' \in [Children -> ChildType] /\ child'[c] = ch
        /\ \A d \in Children \ {c} : child'[d] = child[d]
    BY <1>1
  <1>3. TypeOK'
    BY <1>1, <1>2 DEF TypeInv, TypeOK, SharedTypeOK, nodeInfo, bounds, mainVars, external
  <1>4. Counted' /\ (pc' # "start" => primary' # -2)
    BY <1>1 DEF TypeInv, Counted, Handling, nodeInfo, bounds, mainVars, external
  <1>5. Valid' = Valid /\ UNCHANGED <<pc, ctx, queue, status>>
    BY <1>1 DEF Valid, nodeInfo, mainVars
  <1> QED BY <1>2, <1>3, <1>4, <1>5 DEF TypeInv

\* The same, with what becomes of the process.
LEMMA BecomingMoves ==
  ASSUME TypeInv, NEW c \in Children, NEW ch \in ChildType, Becomes(c, ch), UNCHANGED nodeInfo,
         Running(child[c]), ch.at = "connect" => ch.node \in ch.view,
         Running(ch) =>
           \/ ch.view = Valid
           \/ /\ ch.restart = child[c].restart /\ ch.view \subseteq child[c].view
              /\ child[c].view \cap Valid \subseteq ch.view
              /\ ch.view = {} => child[c].view = {} \/ ~child[c].restart
  PROVE  TypeInv' /\ Moves(c)
  <1>1. /\ TypeInv' /\ UNCHANGED <<pc, ctx, queue, status>> /\ Valid' = Valid
        /\ child'[c] = ch /\ \A d \in Children \ {c} : child'[d] = child[d]
    BY Becoming, ZenonT(20)
  <1>2. AskedInv => AskedInv'
    BY <1>1, ZenonT(20) DEF AskedInv
  <1>3. Running(child'[c]) => Keeps(c) \/ Renews(c)
    BY <1>1, ZenonT(20) DEF Keeps, Renews
  <1> QED BY <1>1, <1>2, <1>3 DEF Moves

\* The record of a process.
LEMMA ChildTyped ==
  ASSUME TypeInv, NEW c \in Children
  PROVE  child[c] \in ChildType
  BY DEF TypeInv, TypeOK, SharedTypeOK

\* The steps of do_child's loop outside new_connection.
LEMMA LoopMoves ==
  ASSUME TypeInv, NEW c \in Children,
         \/ CheckRestartRequest(c) \/ Accept(c) \/ Negotiate(c) \/ OpenSession(c)
         \/ EndSession(c) \/ Die(c)
  PROVE  TypeInv' /\ Moves(c)
  <1> DEFINE old == child[c]
  <1>1. old \in ChildType
    BY ChildTyped
  <1>2. CASE CheckRestartRequest(c)
    BY <1>1, <1>2, BecomingMoves, LoopTopEffect, ZenonT(20) DEF CheckRestartRequest, Running
  <1>3. CASE Accept(c)
    <2>1. CASE switching
      <3> DEFINE ch == [old EXCEPT !.at = "waiting"]
      <3>1. /\ ch \in ChildType /\ ch.at = "waiting" /\ ch.view = old.view
            /\ ch.restart = old.restart
        BY <1>1, ZenonT(20) DEF ChildType, Places
      <3>2. Becomes(c, ch) /\ UNCHANGED nodeInfo /\ Running(old)
        BY <1>3, <2>1 DEF Accept, Running
      <3> HIDE DEF ch
      <3> QED BY <3>1, <3>2, BecomingMoves, ZenonT(20)
    <2>2. CASE ~switching
      BY <1>1, <1>3, <2>2, BecomingMoves, ValidatedEffect DEF Accept, Running
    <2> QED BY <2>1, <2>2
  <1>4. CASE Negotiate(c)
    <2> DEFINE p == IF switching THEN "holding" ELSE "ready"
               ch == [old EXCEPT !.at = p]
    <2>1. p \in Places /\ p # "connect"
      BY DEF Places
    <2>2. Becomes(c, ch) /\ UNCHANGED nodeInfo /\ Running(old)
      BY <1>4 DEF Negotiate, Running
    <2> HIDE DEF p
    <2>3. ch \in ChildType /\ ch.at = p /\ ch.view = old.view /\ ch.restart = old.restart
      BY <1>1, <2>1, ZenonT(20) DEF ChildType
    <2> HIDE DEF ch
    <2> QED BY <2>1, <2>2, <2>3, BecomingMoves, ZenonT(20)
  <1>5. CASE OpenSession(c)
    <2>1. PICK n \in old.view : Becomes(c, [old EXCEPT !.at = "session", !.lb = n])
      BY <1>5, ZenonT(20) DEF OpenSession
    <2> DEFINE ch == [old EXCEPT !.at = "session", !.lb = n]
    <2>2. Becomes(c, ch) /\ UNCHANGED nodeInfo /\ Running(old)
      BY <1>5, <2>1, ZenonT(20) DEF OpenSession, Running
    <2>3. n \in NodeIds
      BY <1>1 DEF ChildType, NodeIds
    <2>4. ch \in ChildType /\ ch.at = "session" /\ ch.view = old.view /\ ch.restart = old.restart
      BY <1>1, <2>3, ZenonT(20) DEF ChildType, Places
    <2> HIDE DEF ch
    <2> QED BY <2>2, <2>4, BecomingMoves, ZenonT(20)
  <1>6. CASE EndSession(c)
    <2> DEFINE off == [old EXCEPT !.lb = -1]
    <2>1. off \in ChildType /\ off.view = old.view /\ off.restart = old.restart
      BY <1>1, ZenonT(20) DEF ChildType, NodeIds
    <2>2. Becomes(c, LoopTop(off)) /\ UNCHANGED nodeInfo /\ Running(old)
      BY <1>6 DEF EndSession, Running
    <2> HIDE DEF off
    <2> QED BY <2>1, <2>2, LoopTopEffect, BecomingMoves, ZenonT(20)
  <1>7. CASE Die(c)
    <2> DEFINE ch == [old EXCEPT !.at = "killed", !.quit = FALSE, !.node = -1]
    <2>1. ch \in ChildType /\ ch.at = "killed"
      BY <1>1, ZenonT(20) DEF ChildType, Places, NodeIds
    <2>2. Becomes(c, ch) /\ UNCHANGED nodeInfo /\ Running(old)
      BY <1>7 DEF Die, Running
    <2> HIDE DEF ch
    <2> QED BY <2>1, <2>2, BecomingMoves, ZenonT(20) DEF Running
  <1> QED BY <1>2, <1>3, <1>4, <1>5, <1>6, <1>7

\* The steps that renew the private status: the end of a wait for failover(),
\* and get_backend_connection in a flagged process.
LEMMA RenewMoves ==
  ASSUME TypeInv, NEW c \in Children, WaitOver(c) \/ StartConnect(c)
  PROVE  TypeInv' /\ Moves(c)
  <1> DEFINE old == child[c]
  <1>1. old \in ChildType /\ Valid \in SUBSET Nodes
    BY ChildTyped, UpNodes DEF Valid
  <1>2. CASE WaitOver(c)
    <2> DEFINE ch == [old EXCEPT !.view = Valid]
    <2>1. ch \in ChildType /\ ch.view = Valid
      BY <1>1, ZenonT(20) DEF ChildType
    <2>2. /\ UNCHANGED nodeInfo /\ Running(old)
          /\ Becomes(c, IF ch.at = "waiting" THEN Validated(ch) ELSE [ch EXCEPT !.at = "ready"])
      BY <1>2 DEF WaitOver, Running
    <2> HIDE DEF ch
    <2>3. CASE ch.at = "waiting"
      BY <2>1, <2>2, <2>3, ValidatedEffect, BecomingMoves
    <2>4. CASE ch.at # "waiting"
      <3> DEFINE r == [ch EXCEPT !.at = "ready"]
      <3>1. r \in ChildType /\ r.at = "ready" /\ r.view = Valid
        BY <2>1, ZenonT(20) DEF ChildType, Places
      <3>2. Becomes(c, r)
        BY <2>2, <2>4
      <3> HIDE DEF r
      <3> QED BY <2>2, <3>1, <3>2, BecomingMoves
    <2> QED BY <2>3, <2>4
  <1>3. CASE StartConnect(c)
    <2> DEFINE ch == IF old.restart THEN [old EXCEPT !.restart = FALSE, !.view = Valid] ELSE old
    <2>1. /\ ch \in ChildType
          /\ old.restart => ch.view = Valid
          /\ ~old.restart => ch.view = old.view /\ ch.restart = old.restart
      BY <1>1, ZenonT(20) DEF ChildType
    <2>2. Becomes(c, Advance(ch, status)) /\ UNCHANGED nodeInfo /\ Running(old)
      BY <1>3 DEF StartConnect, Running
    <2> HIDE DEF ch
    <2> DEFINE a == Advance(ch, status)
    <2>3. /\ a \in ChildType /\ a.view \subseteq ch.view /\ ch.view \cap Valid \subseteq a.view
          /\ a.at = "connect" => a.node \in a.view
          /\ Running(a) => a.restart = ch.restart
      BY <2>1, AdvanceEffect DEF Valid
    <2>4. Becomes(c, a)
      BY <2>2
    <2> HIDE DEF a
    <2>5. CASE old.restart
      <3>1. a.view = Valid
        BY <2>1, <2>3, <2>5, ZenonT(20)
      <3> QED BY <2>2, <2>3, <2>4, <3>1, BecomingMoves, ZenonT(20)
    <2>6. CASE ~old.restart
      <3>1. /\ Running(a) => a.restart = old.restart
            /\ a.view \subseteq old.view /\ old.view \cap Valid \subseteq a.view
        BY <2>1, <2>3, <2>6, ZenonT(20)
      <3> QED BY <2>2, <2>3, <2>4, <2>6, <3>1, BecomingMoves, ZenonT(20)
    <2> QED BY <2>5, <2>6
  <1> QED BY <1>2, <1>3

\* A new connection to a node marks it as up whatever its status is: this is
\* the one step that attaches a node without a request.
LEMMA ConnectedMoves ==
  ASSUME TypeInv, ConnectInv, NEW c \in Children, Connected(c)
  PROVE  TypeInv' /\ Moves(c)
  <1> DEFINE old == child[c]
             n == old.node
             st == [status EXCEPT ![n] = "CON_UP"]
             b == old.changed \/ status[n] # "CON_UP"
             ch == [old EXCEPT !.changed = b]
             next == Advance(ch, st)
             last == next.at = "opened"
             new == [next EXCEPT !.changed = next.changed /\ ~last]
  <1>1. old \in ChildType /\ old.at = "connect" /\ n \in old.view /\ n \in Nodes /\ Running(old)
    BY ChildTyped DEF Connected, ConnectInv, ChildType, Running
  <1>2. /\ status' = st /\ child' = [child EXCEPT ![c] = new]
        /\ statusFile' = IF last /\ ch.changed THEN WriteStatusFile(st) ELSE statusFile
        /\ Serve(st)
        /\ UNCHANGED <<quarantine, wasPrimary, primary, mainNode, queue, switching, bounds,
                       mainVars, external>>
    BY ZenonT(20) DEF Connected
  <1>3. ch \in ChildType /\ ch.view = old.view /\ ch.restart = old.restart /\ ch.node = n
    BY <1>1, ZenonT(20) DEF ChildType
  <1>4. st \in [Nodes -> Statuses] /\ Up(st) \in SUBSET Nodes /\ Up(st) = Valid \cup {n}
    BY <1>1 DEF TypeInv, TypeOK, SharedTypeOK, Statuses, Up, Valid
  <1> HIDE DEF ch, st
  <1>5. /\ next \in ChildType /\ next.view \subseteq old.view
        /\ old.view \cap Up(st) \subseteq next.view
        /\ next.at = "connect" => next.node \in next.view
        /\ Running(next) => next.restart = old.restart
    BY <1>3, AdvanceEffect
  <1> HIDE DEF next, last
  <1>6. /\ new \in ChildType /\ new.view = next.view /\ new.at = next.at
        /\ new.node = next.node /\ new.restart = next.restart
    BY <1>5, ZenonT(20) DEF ChildType
  <1> HIDE DEF new
  <1>7. /\ child' \in [Children -> ChildType] /\ child'[c] = new
        /\ \A d \in Children \ {c} : child'[d] = child[d]
    BY <1>2, <1>6 DEF TypeInv, TypeOK, SharedTypeOK
  <1>8. statusFile' \in SUBSET Nodes /\ serving' \in SUBSET Nodes
    BY <1>2, <1>4 DEF WriteStatusFile, Serve, TypeInv, TypeOK, SharedTypeOK
  <1>9. TypeOK'
    BY <1>2, <1>4, <1>7, <1>8 DEF TypeInv, TypeOK, SharedTypeOK, bounds, mainVars, external
  <1>10. Counted' /\ (pc' # "start" => primary' # -2)
    BY <1>2 DEF TypeInv, Counted, Handling, bounds, mainVars, external
  <1>11. Valid' = Up(st)
    BY <1>2 DEF Valid
  <1>12. Running(new) => Keeps(c)
    <2> SUFFICES ASSUME Running(new) PROVE Keeps(c)
      OBVIOUS
    <2>1. new.restart = old.restart
      BY <1>5, <1>6 DEF Running
    <2>2. n \in new.view
      BY <1>1, <1>4, <1>5, <1>6
    <2> QED BY <1>5, <1>6, <1>7, <1>11, <2>1, <2>2 DEF Keeps
  <1>13. AskedInv => AskedInv'
    BY <1>2 DEF AskedInv
  <1>14. UNCHANGED <<pc, ctx>>
    BY <1>2 DEF mainVars
  <1>15. Valid \subseteq Valid' /\ Valid' \ Valid \subseteq old.view
    BY <1>1, <1>4, <1>11
  <1>16. new.at = "connect" => new.node \in new.view
    BY <1>5, <1>6
  <1> QED BY <1>1, <1>7, <1>9, <1>10, <1>12, <1>13, <1>14, <1>15, <1>16, ZenonT(20)
             DEF TypeInv, Moves

\* A request is added to the queue; none is a failback that promotes.
LEMMA AskedKept ==
  ASSUME TypeInv, NEW k, NEW n, NEW d, RegisterRequest(k, n, d),
         k = "NODE_UP" => "PROMOTE" \notin d
  PROVE  AskedInv => AskedInv'
  <1> DEFINE r == [kind |-> k, node |-> n, details |-> d]
  <1>1. queue' = Append(queue, r) /\ queue \in Seq(Requests)
    BY DEF RegisterRequest, TypeInv, TypeOK, SharedTypeOK
  <1>2. r.kind = k /\ r.details = d
    OBVIOUS
  <1> HIDE DEF r
  <1>3. \A i \in 1..Len(queue') : (i \in 1..Len(queue) /\ queue'[i] = queue[i]) \/ queue'[i] = r
    BY <1>1
  <1> QED BY <1>2, <1>3 DEF AskedInv

\* A failed connection, with and without failover_on_backend_error: the
\* process ends, or it is flagged and goes on without the node.
LEMMA FailedMoves ==
  ASSUME TypeInv, ConnectInv, NEW c \in Children, ConnectFailover(c) \/ ConnectSkips(c)
  PROVE  TypeInv' /\ Moves(c)
  <1> DEFINE old == child[c]
             n == old.node
             skip == Skipped(old)
             ch == Advance(skip, status)
             went == [ch EXCEPT !.changed = ch.changed /\ ch.at = "connect"]
  <1>1. old \in ChildType /\ old.at = "connect" /\ n \in old.view /\ n \in Nodes /\ Running(old)
    BY ChildTyped, ZenonT(20) DEF ConnectFailover, ConnectSkips, ConnectInv, ChildType, Running
  <1>2. child \in [Children -> ChildType] /\ queue \in Seq(Requests)
    BY DEF TypeInv, TypeOK, SharedTypeOK
  <1>3. CASE ConnectFailover(c)
    <2> DEFINE r == [kind |-> "NODE_DOWN", node |-> n, details |-> {"SWITCHOVER"}]
    <2>1. /\ registered < MaxRequests /\ registered' = registered + 1
          /\ queue' = Append(queue, r) /\ UNCHANGED events
          /\ child' = [child EXCEPT ![c] = Ended(old)]
          /\ UNCHANGED <<nodeInfo, statusFile, switching, serving, mainVars, external>>
      BY <1>3, ZenonT(20) DEF ConnectFailover, RegisterRequest
    <2>2. r \in Requests
      BY <1>1, ZenonT(20) DEF Requests, Kinds, Details
    <2> HIDE DEF r
    <2>3. /\ registered \in 0..MaxRequests /\ follow.waiting \in Nat /\ MaxRequests \in Nat
      BY BackendsAssumption DEF TypeInv, TypeOK, SharedTypeOK
    <2>4. /\ queue' \in Seq(Requests) /\ Len(queue') = Len(queue) + 1
          /\ registered' \in 0..MaxRequests
      BY <1>2, <2>1, <2>2, <2>3
    <2>5. /\ child' \in [Children -> ChildType] /\ child'[c] = Ended(old)
          /\ \A d \in Children \ {c} : child'[d] = child[d]
      BY <1>1, <1>2, <2>1, EndedType
    <2>6. TypeOK'
      BY <2>1, <2>4, <2>5 DEF TypeInv, TypeOK, SharedTypeOK, nodeInfo, mainVars, external
    <2>7. Counted' /\ (pc' # "start" => primary' # -2)
      BY <1>2, <2>1, <2>3, <2>4 DEF TypeInv, Counted, Handling, nodeInfo, mainVars, external
    <2>8. AskedInv => AskedInv'
      BY <1>3, AskedKept, ZenonT(20) DEF ConnectFailover
    <2>9. Valid' = Valid /\ UNCHANGED <<pc, ctx>>
      BY <2>1 DEF Valid, nodeInfo, mainVars
    <2>10. ~Running(child'[c]) /\ child'[c].at # "connect"
      BY <1>1, <2>5, EndedType, ZenonT(20) DEF Running
    <2> QED BY <1>1, <2>5, <2>6, <2>7, <2>8, <2>9, <2>10, ZenonT(20) DEF TypeInv, Moves
  <1>4. CASE ConnectSkips(c)
    <2>1. skip \in ChildType /\ skip.view = old.view \ {n} /\ skip.restart
      <3>1. old.view \ {n} \in SUBSET Nodes
        BY <1>1, ZenonT(20) DEF ChildType
      <3> QED BY <1>1, <3>1, ZenonT(20) DEF Skipped, ChildType
    <2>2. /\ UNCHANGED <<status, quarantine, wasPrimary, primary, queue, switching, bounds,
                         serving, mainVars, external>>
          /\ \/ /\ child' = [child EXCEPT ![c] = went]
                /\ mainNode' = IF mainNode = n THEN NextMainNode(skip.view) ELSE mainNode
                /\ statusFile' = IF old.changed /\ ch.at # "connect"
                                 THEN WriteStatusFile(status) ELSE statusFile
             \/ child' = [child EXCEPT ![c] = Ended(old)] /\ UNCHANGED <<mainNode, statusFile>>
      BY <1>4, ZenonT(20) DEF ConnectSkips
    <2> HIDE DEF skip
    <2>3. /\ ch \in ChildType /\ ch.view \subseteq skip.view
          /\ ch.at = "connect" => ch.node \in ch.view
          /\ Running(ch) => ch.restart /\ ch.view # {}
      BY <2>1, AdvanceEffect, ZenonT(20)
    <2>4. skip.view \in SUBSET Nodes
      BY <2>1, ZenonT(20) DEF ChildType
    <2> HIDE DEF ch
    <2>5. /\ went \in ChildType /\ went.view = ch.view /\ went.at = ch.at
          /\ went.node = ch.node /\ went.restart = ch.restart
      BY <2>3, ZenonT(20) DEF ChildType
    <2> HIDE DEF went
    <2>6. mainNode' \in NodeIds
      <3>1. mainNode \in NodeIds
        BY DEF TypeInv, TypeOK, SharedTypeOK
      <3>2. NextMainNode(skip.view) \in NodeIds
        BY <2>4, MainNodeFound
      <3>3. mainNode' = mainNode \/ mainNode' = NextMainNode(skip.view)
        BY <2>2, ZenonT(20)
      <3> QED BY <3>1, <3>2, <3>3, ZenonT(20)
    <2>7. statusFile' \in SUBSET Nodes
      BY <2>2, UpNodes DEF WriteStatusFile, TypeInv, TypeOK, SharedTypeOK
    <2>8. /\ child' \in [Children -> ChildType]
          /\ child'[c] = went \/ child'[c] = Ended(old)
          /\ \A d \in Children \ {c} : child'[d] = child[d]
      BY <1>1, <1>2, <2>2, <2>5, EndedType, ZenonT(20)
    <2>9. TypeOK'
      BY <2>2, <2>6, <2>7, <2>8 DEF TypeInv, TypeOK, SharedTypeOK, bounds, mainVars, external
    <2>10. Counted' /\ (pc' # "start" => primary' # -2)
      BY <2>2 DEF TypeInv, Counted, Handling, bounds, mainVars, external
    <2>11. Valid' = Valid /\ UNCHANGED <<pc, ctx>> /\ (AskedInv => AskedInv')
      BY <2>2, ZenonT(20) DEF Valid, AskedInv, mainVars
    <2>12. CASE child'[c] = went
      <3>1. Running(went) => went.restart /\ went.view # {} /\ went.view \subseteq old.view
        BY <2>1, <2>3, <2>5, ZenonT(20) DEF Running
      <3>2. Running(child'[c]) => Skips(c)
        BY <2>12, <3>1 DEF Skips
      <3>3. child'[c].at = "connect" => child'[c].node \in child'[c].view
        BY <2>3, <2>5, <2>12
      <3> QED BY <1>1, <2>8, <2>9, <2>10, <2>11, <3>2, <3>3, ZenonT(20) DEF TypeInv, Moves
    <2>13. CASE child'[c] = Ended(old)
      <3>1. ~Running(child'[c]) /\ child'[c].at # "connect"
        BY <1>1, <2>13, EndedType DEF Running
      <3> QED BY <1>1, <2>8, <2>9, <2>10, <2>11, <3>1, ZenonT(20) DEF TypeInv, Moves
    <2> QED BY <2>8, <2>12, <2>13
  <1> QED BY <1>3, <1>4

\* Every step of a session process.
LEMMA ChildMoves ==
  ASSUME TypeInv, ConnectInv, NEW c \in Children, ChildSteps(c)
  PROVE  TypeInv' /\ Moves(c)
  BY LoopMoves, RenewMoves, ConnectedMoves, FailedMoves DEF ChildSteps

-----------------------------------------------------------------------------
(* The private status of the session processes                             *)

\* There is one session process.
LoneChild == \A c, d \in Children : c = d

\* A step of a session process leaves no stale private status unflagged.
LEMMA MovesSystem ==
  ASSUME SystemInv, NEW c \in Children, Moves(c)
  PROVE  SystemInv'
  <1>1. Calm' = Calm /\ pc' = pc /\ ctx' = ctx /\ Valid \subseteq Valid'
    BY ZenonT(20) DEF Moves, Calm
  <1>2. ConnectInv'
    BY DEF SystemInv, ConnectInv, Moves
  <1>3. AskedInv'
    BY ZenonT(20) DEF SystemInv, Moves
  <1>4. StaleInv'
    <2> SUFFICES ASSUME Calm, NEW d \in Children, Running(child'[d]), ~child'[d].restart
                 PROVE  child'[d].view \subseteq Valid'
      BY <1>1 DEF StaleInv
    <2>1. CASE d # c
      <3>1. child'[d] = child[d]
        BY <2>1 DEF Moves
      <3> QED BY <1>1, <3>1 DEF SystemInv, StaleInv
    <2>2. CASE d = c
      <3>1. (Running(child[c]) /\ Keeps(c)) \/ Renews(c)
        BY <2>2 DEF Moves, Skips
      <3>2. CASE Running(child[c]) /\ Keeps(c)
        <4>1. child[c].view \subseteq Valid
          BY <2>2, <3>2 DEF SystemInv, StaleInv, Keeps
        <4> QED BY <1>1, <2>2, <3>2, <4>1 DEF Keeps
      <3>3. CASE Renews(c)
        BY <2>2, <3>3 DEF Renews
      <3> QED BY <3>1, <3>2, <3>3
    <2> QED BY <2>1, <2>2
  <1>5. StartInv'
    <2> SUFFICES ASSUME pc = "start", NEW d \in Children, Running(child'[d])
                 PROVE  child'[d].view \subseteq Valid'
      BY <1>1 DEF StartInv
    <2>1. CASE d # c
      <3>1. child'[d] = child[d]
        BY <2>1 DEF Moves
      <3> QED BY <1>1, <3>1 DEF SystemInv, StartInv
    <2>2. CASE d = c
      <3>1. child[c].view \subseteq Valid
        BY DEF Moves, SystemInv, StartInv
      <3> QED BY <1>1, <2>2, <3>1, ZenonT(20) DEF Moves, Skips, Keeps, Renews
    <2> QED BY <2>1, <2>2
  <1>6. AllDownInv'
    <2>1. Valid \ {ctx.node} # {} => Valid' \ {ctx.node} # {}
      BY <1>1
    <2> QED BY <1>1, <2>1 DEF SystemInv, AllDownInv
  <1> QED BY <1>2, <1>3, <1>4, <1>5, <1>6 DEF SystemInv

\* ... and no private status without a valid node, as long as it attaches no
\* node behind the back of another process.
LEMMA MovesView ==
  ASSUME SystemInv, ViewInv, NEW c \in Children, Moves(c), LoneChild \/ AttachedOnRequest
  PROVE  ViewInv'
  <1>1. Calm' = Calm /\ pc' = pc /\ ctx' = ctx /\ Attaching' = Attaching /\ Valid \subseteq Valid'
    BY DEF Moves, Calm, Attaching
  <1>2. Valid' = Valid \/ \A d \in Children : d = c
    <2>1. CASE LoneChild
      BY <2>1 DEF LoneChild
    <2>2. CASE AttachedOnRequest
      <3> SUFFICES ASSUME NEW n \in Valid', n \notin Valid PROVE FALSE
        BY <1>1
      <3>1. n \in Nodes /\ status[n] = "CON_DOWN" /\ status'[n] # "CON_DOWN"
        BY DEF Valid, Up
      <3>2. pc = "start"
        BY <1>1, <2>2, <3>1 DEF AttachedOnRequest
      <3>3. n \in child[c].view /\ child[c].view \subseteq Valid
        BY <3>2, ZenonT(20) DEF Moves, SystemInv, StartInv
      <3> QED BY <3>3
    <2> QED BY <2>1, <2>2
  <1>3. ASSUME NEW d \in Children, d # c
        PROVE  child'[d] = child[d] /\ Valid' = Valid
    BY <1>2, <1>3 DEF Moves
  <1>4. FreshInv'
    <2> SUFFICES ASSUME Calm, NEW d \in Children, Running(child'[d]), ~child'[d].restart
                 PROVE  child'[d].view = Valid'
      BY <1>1 DEF FreshInv
    <2>1. CASE d # c
      BY <1>3, <2>1 DEF ViewInv, FreshInv
    <2>2. CASE d = c
      <3>1. (Running(child[c]) /\ Keeps(c)) \/ Renews(c)
        BY <2>2 DEF Moves, Skips
      <3>2. CASE Running(child[c]) /\ Keeps(c)
        <4>1. child[c].view = Valid
          BY <2>2, <3>2 DEF ViewInv, FreshInv, Keeps
        <4>2. Valid' = Valid
          BY <1>1, <4>1, ZenonT(20) DEF Moves
        <4> QED BY <2>2, <3>2, <4>1, <4>2, ZenonT(20) DEF Keeps
      <3>3. CASE Renews(c)
        BY <2>2, <3>3 DEF Renews
      <3> QED BY <3>1, <3>2, <3>3
    <2> QED BY <2>1, <2>2
  <1>5. BehindInv'
    <2> SUFFICES ASSUME ~Calm, NEW d \in Children, Running(child'[d]), ~child'[d].restart
                 PROVE  Valid' \ Attaching \subseteq child'[d].view
      BY <1>1 DEF BehindInv
    <2>1. CASE d # c
      BY <1>3, <2>1 DEF ViewInv, BehindInv
    <2>2. CASE d = c
      <3>1. (Running(child[c]) /\ Keeps(c)) \/ Renews(c)
        BY <2>2 DEF Moves, Skips
      <3>2. CASE Running(child[c]) /\ Keeps(c)
        <4>1. Valid \ Attaching \subseteq child[c].view
          BY <2>2, <3>2 DEF ViewInv, BehindInv, Keeps
        <4>2. Valid' \ Valid \subseteq child[c].view
          BY ZenonT(20) DEF Moves
        <4> QED BY <1>1, <2>2, <3>2, <4>1, <4>2 DEF Keeps
      <3>3. CASE Renews(c)
        BY <2>2, <3>3 DEF Renews
      <3> QED BY <3>1, <3>2, <3>3
    <2> QED BY <2>1, <2>2
  <1>6. EmptyInv'
    <2> DEFINE Forks == ~Calm /\ ctx.kind = "NODE_UP" /\ ctx.allDown
    <2> SUFFICES ASSUME NEW d \in Children, Running(child'[d]), child'[d].view = {}, ~Forks
                 PROVE  Valid' = {}
      BY <1>1 DEF EmptyInv
    <2>1. CASE d # c
      BY <1>3, <2>1 DEF ViewInv, EmptyInv
    <2>2. CASE d = c
      <3>1. (Running(child[c]) /\ Keeps(c)) \/ Renews(c)
        BY <2>2 DEF Moves, Skips
      <3>2. CASE Running(child[c]) /\ Keeps(c)
        <4>1. child[c].view \cap Valid' = {} /\ Valid' \ Valid = {}
          BY <2>2, <3>2 DEF Keeps, Moves
        <4>2. CASE child[c].view = {}
          <5>1. Valid = {}
            BY <3>2, <4>2 DEF ViewInv, EmptyInv
          <5> QED BY <4>1, <5>1
        <4>3. CASE ~child[c].restart /\ Calm
          <5>1. child[c].view = Valid
            BY <3>2, <4>3 DEF ViewInv, FreshInv
          <5> QED BY <1>1, <4>1, <5>1
        <4>4. CASE ~child[c].restart /\ ~Calm
          <5>1. Valid \ Attaching \subseteq child[c].view
            BY <3>2, <4>4 DEF ViewInv, BehindInv
          <5>2. Valid \ Attaching = {}
            BY <1>1, <4>1, <5>1
          <5>3. ctx.kind # "NODE_UP"
            BY <4>4, <5>2 DEF SystemInv, AllDownInv, Attaching
          <5> QED BY <4>1, <5>2, <5>3 DEF Attaching
        <4> QED BY <2>2, <3>2, <4>2, <4>3, <4>4, ZenonT(20) DEF Keeps
      <3>3. CASE Renews(c)
        BY <2>2, <3>3 DEF Renews
      <3> QED BY <3>1, <3>2, <3>3
    <2> QED BY <2>1, <2>2
  <1> QED BY <1>4, <1>5, <1>6 DEF ViewInv

\* Every step of the main process keeps both.
KeptInv == (SystemInv => SystemInv') /\ (SystemInv /\ ViewInv => ViewInv')

\* A new process copies the status and keeps the flag of its slot.
LEMMA ForkedRecord ==
  ASSUME NEW ch, NEW st
  PROVE  /\ Forked(ch, st).at = "accept" /\ Forked(ch, st).view = Up(st)
         /\ Forked(ch, st).restart = ch.restart
  BY DEF Forked

\* A start: every process has copied the status.
LEMMA SystemInit == Init => SystemInv /\ ViewInv
  <1> SUFFICES ASSUME Init PROVE SystemInv /\ ViewInv
    OBVIOUS
  <1>1. pc = "start" /\ Calm /\ queue = <<>>
    BY DEF Init, Calm
  <1>2. \A c \in Children : child[c].at = "accept" /\ child[c].view = Valid
    BY ForkedRecord DEF Init, Valid
  <1>3. SystemInv
    BY <1>1, <1>2 DEF SystemInv, ConnectInv, AskedInv, StaleInv, StartInv, AllDownInv
  <1>4. ViewInv
    BY <1>1, <1>2 DEF ViewInv, FreshInv, BehindInv, EmptyInv
  <1> QED BY <1>3, <1>4

\* A restart of pgbalancer, likewise.
LEMMA RestartKept ==
  ASSUME Restart
  PROVE  KeptInv
  <1>1. pc' = "start" /\ Calm' /\ queue' = <<>>
    BY DEF Restart, Calm
  <1>2. \A c \in Children : child'[c].at = "accept" /\ child'[c].view = Valid'
    BY ForkedRecord DEF Restart, Valid
  <1>3. SystemInv'
    BY <1>1, <1>2 DEF SystemInv, ConnectInv, AskedInv, StaleInv, StartInv, AllDownInv
  <1>4. ViewInv'
    BY <1>1, <1>2 DEF ViewInv, FreshInv, BehindInv, EmptyInv
  <1> QED BY <1>3, <1>4 DEF KeptInv

\* Steps that change neither the nodes nor the processes.
LEMMA StillKept ==
  ASSUME UNCHANGED <<status, child>>, AskedInv => AskedInv',
         UNCHANGED <<pc, ctx>> \/ (Calm /\ Calm' /\ pc' # "start")
  PROVE  KeptInv
  <1>1. Valid' = Valid /\ child' = child /\ Calm' = Calm
    BY DEF Valid, Calm
  <1>2. ASSUME SystemInv PROVE SystemInv'
    <2>1. ConnectInv' /\ AskedInv'
      BY <1>1, <1>2 DEF SystemInv, ConnectInv
    <2>2. StaleInv' /\ StartInv' /\ AllDownInv'
      BY <1>1, <1>2 DEF SystemInv, StaleInv, StartInv, AllDownInv
    <2> QED BY <2>1, <2>2 DEF SystemInv
  <1>3. ASSUME ViewInv PROVE ViewInv'
    BY <1>1, <1>3 DEF ViewInv, FreshInv, BehindInv, EmptyInv, Attaching
  <1> QED BY <1>2, <1>3 DEF KeptInv

\* The requests that remain after one was taken.
LEMMA AskedTaken ==
  ASSUME TypeInv, NEW k, Dequeue(k)
  PROVE  AskedInv => AskedInv'
  <1>1. queue' = Tail(queue) /\ queue # <<>>
    BY DEF Dequeue
  <1> QED BY <1>1, HeadTyped DEF AskedInv, TypeInv

\* A request that is carried out attaches at most its own node.
LEMMA AcceptedKept ==
  ASSUME TypeInv, NEW k, Dequeue(k), pc' = "kill", Valid' \ Attaching' \subseteq Valid,
         ctx'.kind = "NODE_UP" => ctx'.allDown \/ Valid' \ {ctx'.node} # {},
         Valid = {} => Valid' = {} \/ (ctx'.kind = "NODE_UP" /\ ctx'.allDown)
  PROVE  KeptInv
  <1>1. pc = "dequeue" /\ Calm /\ ~Calm' /\ pc' # "start" /\ child' = child
    BY DEF Dequeue, Calm
  <1>2. ASSUME SystemInv PROVE SystemInv'
    <2>1. ConnectInv' /\ AskedInv'
      BY <1>1, <1>2, AskedTaken DEF SystemInv, ConnectInv
    <2>2. StaleInv' /\ StartInv' /\ AllDownInv'
      BY <1>1 DEF StaleInv, StartInv, AllDownInv
    <2> QED BY <2>1, <2>2 DEF SystemInv
  <1>3. ASSUME ViewInv PROVE ViewInv'
    <2>1. FreshInv'
      BY <1>1 DEF FreshInv
    <2>2. BehindInv'
      <3> SUFFICES ASSUME NEW c \in Children, Running(child[c]), ~child[c].restart
                   PROVE  Valid' \ Attaching' \subseteq child[c].view
        BY <1>1 DEF BehindInv
      <3> QED BY <1>1, <1>3 DEF ViewInv, FreshInv
    <2>3. EmptyInv'
      <3> SUFFICES ASSUME NEW c \in Children, Running(child[c]), child[c].view = {}
                   PROVE  Valid' = {} \/ (~Calm' /\ ctx'.kind = "NODE_UP" /\ ctx'.allDown)
        BY <1>1 DEF EmptyInv
      <3>1. Valid = {}
        BY <1>1, <1>3 DEF ViewInv, EmptyInv
      <3> QED BY <1>1, <3>1
    <2> QED BY <2>1, <2>2, <2>3 DEF ViewInv
  <1> QED BY <1>2, <1>3 DEF KeptInv

\* The subroutines that follow attach no node, and for a failback detach none.
LEMMA WorkKept ==
  ASSUME ~Calm, ~Calm', pc # "kill", pc' # "kill", UNCHANGED <<child, ctx, queue>>,
         Valid' \subseteq Valid, ctx.kind = "NODE_UP" => Valid' = Valid
  PROVE  KeptInv
  <1>1. pc' # "start" /\ Attaching' = Attaching
    BY DEF Calm, Attaching
  <1>2. ASSUME SystemInv PROVE SystemInv'
    <2>1. ConnectInv' /\ AskedInv'
      BY <1>2 DEF SystemInv, ConnectInv, AskedInv
    <2>2. StaleInv' /\ StartInv' /\ AllDownInv'
      BY <1>1, <1>2 DEF SystemInv, StaleInv, StartInv, AllDownInv
    <2> QED BY <2>1, <2>2 DEF SystemInv
  <1>3. ASSUME ViewInv PROVE ViewInv'
    <2>1. FreshInv' /\ BehindInv'
      BY <1>1, <1>3 DEF ViewInv, FreshInv, BehindInv
    <2>2. EmptyInv'
      BY <1>3 DEF ViewInv, EmptyInv
    <2> QED BY <2>1, <2>2 DEF ViewInv
  <1> QED BY <1>2, <1>3 DEF KeptInv

\* handle_failback_request attaches its node; without any other in use it
\* notes that all were down.
LEMMA FailbackKept ==
  ASSUME TypeInv, HandleFailback
  PROVE  KeptInv
  <1> DEFINE r == Head(queue)
             n == r.node
             c == Taken(r)
             st == [status EXCEPT ![n] = "CON_CONNECT_WAIT"]
  <1>1. /\ Dequeue({"NODE_UP"}) /\ r \in Requests /\ n \in Nodes /\ pc = "dequeue"
        /\ r.kind = "NODE_UP" /\ Calm
    BY HeadTyped DEF HandleFailback, Dequeue, TypeInv, Requests, Calm
  <1>2. SUFFICES ASSUME SystemInv PROVE KeptInv
    BY DEF KeptInv
  <1>3. "PROMOTE" \notin r.details
    BY <1>1, <1>2, HeadTyped DEF SystemInv, AskedInv, TypeInv, Dequeue
  <1>4. CASE n \in Valid
    <2>1. pc' = pc /\ UNCHANGED <<status, child>>
      BY <1>1, <1>4 DEF HandleFailback, Refuse, Dequeue, nodeInfo
    <2> QED BY <1>1, <2>1, AskedTaken, StillKept DEF Calm
  <1>5. CASE n \notin Valid
    <2>1. FailBack(n, c)
      BY <1>5 DEF HandleFailback
    <2>2. c \in Contexts /\ c.kind = "NODE_UP" /\ c.node = n
      BY <1>1, <1>3, TakenTyped
    <2> HIDE DEF c
    <2>3. status' = st /\ pc' = "kill"
      BY <2>1 DEF FailBack, Proceed
    <2>4. Valid' = Valid \cup {n}
      BY <1>1, <2>3 DEF Valid, Up, TypeInv, TypeOK, SharedTypeOK
    <2>5. ctx'.kind = "NODE_UP" /\ ctx'.node = n /\ ctx'.allDown = (Valid = {})
      <3>1. \E a, b, d \in BOOLEAN :
               \/ ctx' = [c EXCEPT !.allDown = (Valid = {}), !.searchPrimary = a,
                                   !.restartChildren = b, !.partialRestart = d]
               \/ ctx' = [c EXCEPT !.allDown = (Valid = {})]
        BY <2>1, ZenonT(20) DEF FailBack
      <3> QED BY <2>2, <3>1, ZenonT(20) DEF Contexts
    <2>6. Valid' \ Attaching' \subseteq Valid
      BY <2>4, <2>5 DEF Attaching
    <2>7. ctx'.allDown \/ Valid' \ {ctx'.node} # {}
      BY <1>5, <2>4, <2>5, ZenonT(20)
    <2> QED BY <1>1, <2>3, <2>5, <2>6, <2>7, AcceptedKept, ZenonT(20)
  <1> QED BY <1>4, <1>5

\* handle_failover_request detaches its node; a promotion changes no status.
LEMMA FailoverKept ==
  ASSUME TypeInv, HandleFailover \/ HandlePromote
  PROVE  KeptInv
  <1> DEFINE r == Head(queue)
             c == Taken(r)
             n == c.node
             k == {"NODE_DOWN", "NODE_QUARANTINE", "PROMOTE_NODE"}
  <1>1. /\ Dequeue(k) /\ r \in Requests /\ pc = "dequeue" /\ Calm
        /\ r.kind # "NODE_UP"
    BY HeadTyped DEF HandleFailover, HandlePromote, Dequeue, TypeInv, Calm
  <1>2. c \in Contexts /\ c.kind = r.kind
    BY <1>1, TakenTyped
  <1>3. CASE Refuse(r)
    <2>1. pc' = pc /\ UNCHANGED <<status, child>>
      BY <1>1, <1>3 DEF Refuse, Dequeue, nodeInfo
    <2> QED BY <1>1, <2>1, AskedTaken, StillKept DEF Calm
  <1>4. CASE ~Refuse(r)
    <2>1. pc' = "kill" /\ ctx'.kind # "NODE_UP" /\ Valid' \subseteq Valid
      <3> HIDE DEF c, n
      <3>1. CASE HandlePromote
        <4>1. ctx' = c /\ pc' = "kill" /\ UNCHANGED status
          BY <1>4, <3>1 DEF HandlePromote, Proceed, nodeInfo, c
        <4> QED BY <1>1, <1>2, <4>1 DEF Valid
      <3>2. CASE HandleFailover
        <4>1. Degenerate(n, c)
          BY <1>4, <3>2 DEF HandleFailover, c, n
        <4>2. status' = [status EXCEPT ![n] = "CON_DOWN"] /\ pc' = "kill"
          BY <4>1 DEF Degenerate, Proceed
        <4>3. Valid' \subseteq Valid
          BY <4>2 DEF Valid, Up, TypeInv, TypeOK, SharedTypeOK
        <4>4. \E S, b : ctx' = [c EXCEPT !.nodes = S, !.searchPrimary = b]
          BY <4>1, ZenonT(20) DEF Degenerate
        <4>5. ctx'.kind = c.kind
          BY <1>2, <4>4, ZenonT(20) DEF Contexts
        <4> QED BY <1>1, <1>2, <4>2, <4>3, <4>5
      <3> QED BY <3>1, <3>2
    <2> QED BY <1>1, <2>1, AcceptedKept DEF Attaching
  <1> QED BY <1>3, <1>4

\* kill_failover_children leaves the private status alone, and a failback
\* after all nodes were down restarts every process.
LEMMA KillKept ==
  ASSUME TypeInv, KillFailoverChildren
  PROVE  KeptInv
  <1>1. pc = "kill" /\ pc' = "command" /\ ~Calm /\ ~Calm' /\ UNCHANGED <<status, queue>>
    BY DEF KillFailoverChildren, Calm, nodeInfo
  <1>2. Valid' = Valid
    BY <1>1 DEF Valid
  <1>3. ctx \in Contexts /\ child \in [Children -> ChildType]
    BY DEF TypeInv, TypeOK, SharedTypeOK, Contexts
  <1>4. \A c \in Children : /\ child'[c].at = child[c].at /\ child'[c].view = child[c].view
                            /\ child'[c].node = child[c].node
                            /\ child'[c].restart = child[c].restart
    <2>1. \A c \in Children : /\ Quit(child[c]).at = child[c].at
                              /\ Quit(child[c]).view = child[c].view
                              /\ Quit(child[c]).node = child[c].node
                              /\ Quit(child[c]).restart = child[c].restart
      BY <1>3, ZenonT(20) DEF Quit, ChildType
    <2>2. \A c \in Children : child'[c] = child[c] \/ child'[c] = Quit(child[c])
      BY ZenonT(20) DEF KillFailoverChildren
    <2> QED BY <2>1, <2>2, ZenonT(20)
  <1>5. ctx'.kind = ctx.kind /\ ctx'.node = ctx.node /\ ctx'.allDown = ctx.allDown
    <2>1. \E a, b \in BOOLEAN :
             ctx' = ctx \/ ctx' = [ctx EXCEPT !.restartChildren = a, !.partialRestart = b]
      BY ZenonT(20) DEF KillFailoverChildren
    <2> QED BY <1>3, <2>1, ZenonT(20) DEF Contexts
  <1>6. ctx.kind = "NODE_UP" /\ ctx.allDown => ctx'.restartChildren /\ ~ctx'.partialRestart
    <2> SUFFICES ASSUME ctx.kind = "NODE_UP", ctx.allDown
                 PROVE  ctx'.restartChildren /\ ~ctx'.partialRestart
      OBVIOUS
    <2>1. ctx' = [ctx EXCEPT !.restartChildren = TRUE, !.partialRestart = FALSE]
      BY DEF KillFailoverChildren, FailbackSparesChildren, SwitchoverSparesOthers
    <2> QED BY <1>3, <2>1, ZenonT(20) DEF Contexts
  <1>7. \A c \in Children : Running(child'[c]) = Running(child[c])
    BY <1>4 DEF Running
  <1>8. ASSUME SystemInv PROVE SystemInv'
    <2>1. ConnectInv' /\ AskedInv'
      BY <1>1, <1>4, <1>8 DEF SystemInv, ConnectInv, AskedInv
    <2>2. StaleInv' /\ StartInv'
      BY <1>1 DEF StaleInv, StartInv
    <2>3. AllDownInv'
      BY <1>1, <1>2, <1>5, <1>6, <1>8 DEF SystemInv, AllDownInv
    <2> QED BY <2>1, <2>2, <2>3 DEF SystemInv
  <1>9. ASSUME ViewInv PROVE ViewInv'
    <2>1. Attaching' = Attaching
      BY <1>5 DEF Attaching
    <2> QED BY <1>1, <1>2, <1>4, <1>5, <1>7, <1>9, <2>1 DEF ViewInv, FreshInv, BehindInv, EmptyInv
  <1> QED BY <1>8, <1>9 DEF KeptInv

\* The subroutines between: only exec_follow_primary_command changes a status,
\* it detaches nodes, and never for a failback.
LEMMA SubroutinesKept ==
  ASSUME TypeInv, \/ ExecFailoverCommand \/ DetermineNewPrimary \/ SearchPrimary
                  \/ FollowPrimary \/ SaveNodeInfo
  PROVE  KeptInv
  <1>1. ~Calm /\ ~Calm' /\ pc # "kill" /\ pc' # "kill" /\ UNCHANGED <<child, ctx, queue>>
    BY DEF ExecFailoverCommand, DetermineNewPrimary, SearchPrimary, FollowPrimary, SaveNodeInfo,
           StartSearch, Determined, Calm
  <1>2. CASE FollowPrimary
    <2>1. CASE Follows
      <3>1. status' = Lowered(NumBackends - 1) /\ ctx.kind # "NODE_UP"
        BY <1>2, <2>1, FollowEffect DEF Follows
      <3>2. Valid' \subseteq Valid
        BY <3>1 DEF Valid, Up, Lowered
      <3> QED BY <1>1, <3>1, <3>2, WorkKept
    <2>2. CASE ~Follows
      <3>1. Valid' = Valid
        BY <1>2, <2>2 DEF FollowPrimary, Valid
      <3> QED BY <1>1, <3>1, WorkKept
    <2> QED BY <2>1, <2>2
  <1>3. CASE ~FollowPrimary
    <2>1. Valid' = Valid
      BY <1>3 DEF ExecFailoverCommand, DetermineNewPrimary, SearchPrimary, SaveNodeInfo, Valid,
                  nodeInfo
    <2> QED BY <1>1, <2>1, WorkKept
  <1> QED BY <1>2, <1>3

\* exec_child_restart replaces or flags every process: this is where the
\* private status of each one is brought up to date.
LEMMA ChildRestartKept ==
  ASSUME TypeInv, ChildRestart
  PROVE  KeptInv
  <1>1. /\ pc = "restart" /\ pc' = "dequeue" /\ ~Calm /\ Calm' /\ pc' # "start"
        /\ UNCHANGED <<status, queue, ctx>>
    BY DEF ChildRestart, Calm, nodeInfo
  <1>2. Valid' = Valid
    BY <1>1 DEF Valid
  <1>3. child \in [Children -> ChildType]
    BY DEF TypeInv, TypeOK, SharedTypeOK
  <1> DEFINE Replaced(c) == child'[c].at = "accept" /\ child'[c].view = Valid
             Flagged(c) == /\ child'[c].restart /\ child'[c].at = child[c].at
                           /\ child'[c].view = child[c].view /\ child'[c].node = child[c].node
             ForkAll == ctx.restartChildren /\ ~ctx.partialRestart
  <1>4. \A c \in Children : \/ Replaced(c)
                            \/ child'[c] = child[c] /\ child[c].at = "gone"
                            \/ Flagged(c) /\ ~ForkAll
    <2> TAKE c \in Children
    <2>1. child'[c] = Restarted(c) /\ child[c] \in ChildType
      BY <1>3 DEF ChildRestart
    <2>2. /\ [child[c] EXCEPT !.restart = TRUE].restart
          /\ [child[c] EXCEPT !.restart = TRUE].at = child[c].at
          /\ [child[c] EXCEPT !.restart = TRUE].view = child[c].view
          /\ [child[c] EXCEPT !.restart = TRUE].node = child[c].node
      BY <2>1, ZenonT(20) DEF ChildType
    <2>3. Forked(child[c], status).at = "accept" /\ Forked(child[c], status).view = Valid
      BY ForkedRecord DEF Valid
    <2>4. \/ child'[c] = Forked(child[c], status)
          \/ child'[c] = child[c] /\ child[c].at = "gone"
          \/ child'[c] = [child[c] EXCEPT !.restart = TRUE] /\ ~ForkAll
      BY <2>1, ZenonT(20) DEF Restarted
    <2> HIDE DEF ForkAll
    <2>5. CASE child'[c] = Forked(child[c], status)
      BY <2>3, <2>5
    <2>6. CASE child'[c] = [child[c] EXCEPT !.restart = TRUE] /\ ~ForkAll
      BY <2>2, <2>6
    <2> QED BY <2>4, <2>5, <2>6
  <1> HIDE DEF ForkAll
  <1>5. ASSUME SystemInv PROVE SystemInv'
    <2>1. ConnectInv' /\ AskedInv'
      BY <1>1, <1>4, <1>5 DEF SystemInv, ConnectInv, AskedInv
    <2>2. StaleInv'
      BY <1>2, <1>4 DEF StaleInv, Running
    <2>3. StartInv' /\ AllDownInv'
      BY <1>1 DEF StartInv, AllDownInv
    <2> QED BY <2>1, <2>2, <2>3 DEF SystemInv
  <1>6. ASSUME SystemInv, ViewInv PROVE ViewInv'
    <2>1. FreshInv' /\ BehindInv'
      BY <1>1, <1>2, <1>4 DEF FreshInv, BehindInv, Running
    <2>2. EmptyInv'
      <3> SUFFICES ASSUME NEW c \in Children, Running(child'[c]), child'[c].view = {}
                   PROVE  Valid = {}
        BY <1>2 DEF EmptyInv
      <3>1. CASE Replaced(c)
        BY <3>1
      <3>2. CASE Flagged(c) /\ ~ForkAll
        <4>1. Running(child[c]) /\ child[c].view = {}
          BY <3>2 DEF Running
        <4>2. ~(ctx.kind = "NODE_UP" /\ ctx.allDown)
          BY <1>1, <1>6, <3>2 DEF SystemInv, AllDownInv, ForkAll
        <4> QED BY <1>6, <4>1, <4>2 DEF ViewInv, EmptyInv
      <3> QED BY <1>4, <3>1, <3>2 DEF Running
    <2> QED BY <2>1, <2>2 DEF ViewInv
  <1> QED BY <1>5, <1>6 DEF KeptInv

\* reaper: the new process copies the status.
LEMMA ReapKept ==
  ASSUME TypeInv, NEW c \in Children, Reap(c)
  PROVE  KeptInv
  <1>1. /\ pc' = pc /\ ctx' = ctx /\ Calm /\ Calm' /\ pc' # "start" /\ Valid' = Valid
        /\ UNCHANGED queue
    BY DEF Reap, Idle, Calm, Valid, nodeInfo, mainVars
  <1>2. \A d \in Children \ {c} : child'[d] = child[d]
    BY DEF Reap, TypeInv, TypeOK, SharedTypeOK
  <1>3. child'[c].at = "gone" \/ (child'[c].at = "accept" /\ child'[c].view = Valid)
    <2> DEFINE f == Forked(child[c], status)
               g == [f EXCEPT !.at = "gone", !.view = {}]
    <2>1. child'[c] = f \/ child'[c] = g
      BY DEF Reap, TypeInv, TypeOK, SharedTypeOK
    <2>2. f \in ChildType
      <3>1. child[c] \in ChildType
        BY ChildTyped
      <3>2. child[c].restart \in BOOLEAN
        BY <3>1, ZenonT(20) DEF ChildType
      <3> QED BY <3>2, ForkedTyped
    <2>3. f.at = "accept" /\ f.view = Valid
      BY ForkedRecord DEF Valid
    <2> HIDE DEF f
    <2>4. g.at = "gone"
      BY <2>2, ZenonT(20) DEF ChildType
    <2> QED BY <2>1, <2>3, <2>4, ZenonT(20)
  <1>4. ASSUME SystemInv PROVE SystemInv'
    <2>1. ConnectInv'
      BY <1>2, <1>3, <1>4 DEF SystemInv, ConnectInv
    <2>2. AskedInv'
      BY <1>1, <1>4 DEF SystemInv, AskedInv
    <2>3. StaleInv'
      BY <1>1, <1>2, <1>3, <1>4 DEF SystemInv, StaleInv, Running
    <2>4. StartInv' /\ AllDownInv'
      BY <1>1, <1>4 DEF SystemInv, StartInv, AllDownInv
    <2> QED BY <2>1, <2>2, <2>3, <2>4 DEF SystemInv
  <1>5. ASSUME ViewInv PROVE ViewInv'
    BY <1>1, <1>2, <1>3, <1>5, ZenonT(20) DEF ViewInv, FreshInv, BehindInv, EmptyInv, Running
  <1> QED BY <1>4, <1>5 DEF KeptInv

\* The requests that others register.
LEMMA EnvironmentKept ==
  ASSUME TypeInv, NEW n \in Nodes,
         \/ FollowStart \/ FollowEnd \/ FollowNode(n) \/ ServerFails(n) \/ ServerStarts(n)
         \/ DegenerateBackend(n) \/ PromoteBackend(n) \/ SendFailbackRequest(n)
  PROVE  KeptInv
  <1>1. UNCHANGED <<status, child, pc, ctx>>
    BY DEF FollowStart, FollowEnd, FollowNode, ServerFails, ServerStarts, DegenerateBackend,
           PromoteBackend, SendFailbackRequest, Asks, nodeInfo, mainVars
  <1>2. AskedInv => AskedInv'
    <2>1. CASE FollowStart \/ FollowEnd \/ FollowNode(n) \/ ServerFails(n) \/ ServerStarts(n)
      <3>1. UNCHANGED queue
        BY <2>1 DEF FollowStart, FollowEnd, FollowNode, ServerFails, ServerStarts
      <3> QED BY <3>1 DEF AskedInv
    <2>2. CASE DegenerateBackend(n)
      BY <2>2, AskedKept DEF DegenerateBackend, Asks
    <2>3. CASE PromoteBackend(n)
      BY <2>3, AskedKept DEF PromoteBackend, Asks
    <2>4. CASE SendFailbackRequest(n)
      BY <2>4, AskedKept DEF SendFailbackRequest, Asks
    <2> QED BY <2>1, <2>2, <2>3, <2>4
  <1> QED BY <1>1, <1>2, StillKept

\* Every step of the main process, of its environment and of no process.
LEMMA NextKept ==
  ASSUME TypeInv, Next \/ UNCHANGED vars
  PROVE  KeptInv
  <1>1. CASE UNCHANGED vars
    <2>1. UNCHANGED <<status, child, pc, ctx, queue>>
      BY <1>1 DEF vars, nodeInfo, mainVars
    <2>2. AskedInv => AskedInv'
      BY <2>1 DEF AskedInv
    <2> QED BY <2>1, <2>2, StillKept
  <1>2. CASE StartUp \/ EnterFailover \/ LeaveFailover
    <2>1. UNCHANGED <<status, child, queue>> /\ Calm /\ Calm' /\ pc' # "start"
      BY <1>2 DEF StartUp, EnterFailover, LeaveFailover, Idle, Calm, nodeInfo
    <2>2. AskedInv => AskedInv'
      BY <2>1 DEF AskedInv
    <2> QED BY <2>1, <2>2, StillKept
  <1>3. CASE MainSteps
    BY <1>2, <1>3, FailbackKept, FailoverKept, KillKept, SubroutinesKept, ChildRestartKept,
       ReapKept DEF MainSteps
  <1>4. CASE EnvironmentSteps
    BY <1>4, RestartKept, EnvironmentKept, NodesNonempty DEF EnvironmentSteps
  <1> QED BY <1>1, <1>3, <1>4 DEF Next

\* Every step of the composed system keeps the types and SystemInv ...
LEMMA SystemStep == TypeInv /\ SystemInv /\ [SystemNext]_vars => TypeInv' /\ SystemInv'
  <1> SUFFICES ASSUME TypeInv, SystemInv, [SystemNext]_vars PROVE TypeInv' /\ SystemInv'
    OBVIOUS
  <1>1. CASE Next \/ UNCHANGED vars
    BY <1>1, StepInv, NextKept DEF KeptInv
  <1>2. ASSUME NEW c \in Children, ChildSteps(c) PROVE TypeInv' /\ SystemInv'
    BY <1>2, ChildMoves, MovesSystem DEF SystemInv
  <1> QED BY <1>1, <1>2 DEF SystemNext

\* ... and ViewInv, with one process or where no session attaches a node.
LEMMA ViewStep ==
  ASSUME TypeInv, SystemInv, ViewInv, [SystemNext]_vars, LoneChild \/ [AttachedOnRequest]_vars
  PROVE  ViewInv'
  <1>1. CASE Next \/ UNCHANGED vars
    BY <1>1, NextKept DEF KeptInv
  <1>2. ASSUME NEW c \in Children, ChildSteps(c) PROVE ViewInv'
    <2>1. CASE UNCHANGED vars
      BY <2>1, NextKept DEF KeptInv
    <2>2. CASE ~UNCHANGED vars
      BY <1>2, <2>2, ChildMoves, MovesView DEF SystemInv
    <2> QED BY <2>1, <2>2
  <1> QED BY <1>1, <1>2 DEF SystemNext

\* Types and flags, of every behaviour of the composed system.
LEMMA SystemInvariance == SystemSpec => [](TypeInv /\ SystemInv)
  BY InitTyped, SystemInit, SystemStep, PTL DEF SystemSpec

\* The state of the main process and of the session processes keeps its types,
\* for any number of backends, requests, failures and session processes.
THEOREM SystemTypeCorrect == SystemSpec => []TypeOK
  BY SystemInvariance, PTL DEF TypeInv

\* Outside failover() every session process whose private status names a
\* detached node is flagged (exec_child_restart's need_to_restart), for any
\* number of backends, requests, failures and session processes.
THEOREM StaleViewCorrect == SystemSpec => []StaleViewIsFlagged
  <1>1. SystemInv => StaleViewIsFlagged
    BY DEF SystemInv, StaleInv, StaleViewIsFlagged, Idle, Calm
  <1> QED BY <1>1, SystemInvariance, PTL

\* What the two theorems below say, from ViewInv.
LEMMA ViewSafe == ViewInv => ChildrenCanServe /\ SkippedNodesReturn
  <1> SUFFICES ASSUME ViewInv, Idle, NEW c \in Children, Running(child[c])
               PROVE  /\ Valid # {} => \/ child[c].view \cap Valid # {}
                                       \/ child[c].restart /\ child[c].view # {}
                      /\ ~(Valid \subseteq child[c].view) => child[c].restart
    BY ZenonT(20) DEF ChildrenCanServe, SkippedNodesReturn
  <1>1. Calm
    BY DEF Idle, Calm
  <1>2. child[c].view = Valid \/ child[c].restart
    BY <1>1 DEF ViewInv, FreshInv
  <1>3. child[c].view = {} => Valid = {}
    BY <1>1 DEF ViewInv, EmptyInv
  <1> QED BY <1>2, <1>3

\* The view of a single session process.
LEMMA LoneInvariance ==
  ASSUME LoneChild
  PROVE  SystemSpec => []ViewInv
  <1>1. TypeInv /\ SystemInv /\ ViewInv /\ [SystemNext]_vars => ViewInv'
    BY ViewStep
  <1> QED BY <1>1, InitTyped, SystemInit, SystemInvariance, PTL DEF SystemSpec

\* The views of any number of them, in the behaviours in which no session
\* attaches a node that failover() has detached.
LEMMA ManyInvariance == SystemSpec /\ DetachedStaysDetached => []ViewInv
  <1>1. /\ TypeInv /\ SystemInv /\ ViewInv /\ [SystemNext]_vars /\ [AttachedOnRequest]_vars
        => ViewInv'
    BY ViewStep
  <1> QED BY <1>1, InitTyped, SystemInit, SystemInvariance, PTL
          DEF SystemSpec, DetachedStaysDetached

\* Outside failover() every session process can serve its next client, or
\* will renew its private status first (bug 248): with one session process,
\* and with any number of them unless create_cp's success attaches a node that
\* failover() has detached.
THEOREM ChildrenServeCorrect ==
  (LoneChild => (SystemSpec => []ChildrenCanServe))
  /\ (SystemSpec /\ DetachedStaysDetached => []ChildrenCanServe)
  <1>1. ASSUME LoneChild PROVE SystemSpec => []ChildrenCanServe
    BY <1>1, LoneInvariance, ViewSafe, PTL
  <1>2. SystemSpec /\ DetachedStaysDetached => []ChildrenCanServe
    BY ManyInvariance, ViewSafe, PTL
  <1> QED BY <1>1, <1>2

\* A node that a session process does not use although it is valid comes back
\* with the restart that the process has been told to make, under the same
\* condition.
THEOREM SkippedNodesCorrect ==
  (LoneChild => (SystemSpec => []SkippedNodesReturn))
  /\ (SystemSpec /\ DetachedStaysDetached => []SkippedNodesReturn)
  <1>1. ASSUME LoneChild PROVE SystemSpec => []SkippedNodesReturn
    BY <1>1, LoneInvariance, ViewSafe, PTL
  <1>2. SystemSpec /\ DetachedStaysDetached => []SkippedNodesReturn
    BY ManyInvariance, ViewSafe, PTL
  <1> QED BY <1>1, <1>2

-----------------------------------------------------------------------------
(* What failover() promises, beside the session processes                  *)

\* The file after write_status_file, and the nodes that were in use last.
Latest(old) == IF Valid' = {} THEN old ELSE Valid'

\* What the session processes write to: the status of nodes, the file, the
\* queue, and the main node where a failed connection is no failover.
LEMMA ChildFrame ==
  ASSUME NEW c \in Children, ChildSteps(c)
  PROVE  /\ UNCHANGED <<quarantine, primary, pc, ctx, newMain, newPrimary, follow>>
         /\ queue' = queue \/ \E n : RegisterRequest("NODE_DOWN", n, {"SWITCHOVER"})
         /\ statusFile' = statusFile \/ statusFile' = Latest(statusFile)
         /\ serving' = serving \/ serving' = Latest(serving)
         /\ FALSE \notin FailoverOnBackendError => mainNode' = mainNode
  <1>1. CASE Connected(c)
    <2>1. /\ UNCHANGED <<quarantine, primary, mainNode, queue, mainVars, external>>
          /\ statusFile' = statusFile \/ statusFile' = WriteStatusFile(status')
          /\ Serve(status')
      BY <1>1, ZenonT(20) DEF Connected
    <2> QED BY <2>1 DEF WriteStatusFile, Serve, Latest, Valid, mainVars, external
  <1>2. CASE ConnectFailover(c)
    <2>1. /\ UNCHANGED <<nodeInfo, statusFile, serving, mainVars, external>>
          /\ RegisterRequest("NODE_DOWN", child[c].node, {"SWITCHOVER"})
      BY <1>2, ZenonT(20) DEF ConnectFailover
    <2> QED BY <2>1 DEF nodeInfo, mainVars, external
  <1>3. CASE ConnectSkips(c)
    <2>1. /\ UNCHANGED <<status, quarantine, primary, queue, serving, mainVars, external>>
          /\ statusFile' = statusFile \/ statusFile' = WriteStatusFile(status)
          /\ FALSE \in FailoverOnBackendError
      BY <1>3, ZenonT(20) DEF ConnectSkips
    <2> QED BY <2>1, ZenonT(20) DEF WriteStatusFile, Latest, Valid, mainVars, external
  <1>4. ASSUME NEW ch, Becomes(c, ch), UNCHANGED nodeInfo
        PROVE  UNCHANGED <<nodeInfo, statusFile, queue, serving, mainVars, external>>
    BY <1>4, ZenonT(20) DEF Becomes
  <1>5. CASE /\ UNCHANGED <<nodeInfo, statusFile, queue, serving, mainVars, external>>
    BY <1>5 DEF nodeInfo, mainVars, external
  <1>6. CASE \/ CheckRestartRequest(c) \/ Accept(c) \/ Negotiate(c) \/ WaitOver(c)
             \/ StartConnect(c) \/ OpenSession(c) \/ EndSession(c) \/ Die(c)
    BY <1>4, <1>5, <1>6, ZenonT(20)
       DEF CheckRestartRequest, Accept, Negotiate, WaitOver, StartConnect, OpenSession, EndSession,
           Die
  <1> QED BY <1>1, <1>2, <1>3, <1>6, ZenonT(20) DEF ChildSteps

\* A session that attaches no node changes nothing that is in use.
LEMMA ChildValid ==
  ASSUME TypeInv, SystemInv, NEW c \in Children, ChildSteps(c), AttachedOnRequest
  PROVE  Valid' = Valid
  <1>1. Moves(c)
    BY ChildMoves DEF SystemInv
  <1>2. pc' = pc /\ Valid \subseteq Valid' /\ Valid' \ Valid \subseteq child[c].view
        /\ Running(child[c])
    BY <1>1 DEF Moves
  <1>3. ASSUME NEW n \in Valid' \ Valid PROVE FALSE
    <2>1. n \in Nodes /\ status[n] = "CON_DOWN" /\ status'[n] # "CON_DOWN"
      BY <1>3 DEF Valid, Up
    <2>2. pc = "start"
      BY <1>2, <2>1 DEF AttachedOnRequest
    <2>3. child[c].view \subseteq Valid
      BY <1>2, <2>2 DEF SystemInv, StartInv
    <2> QED BY <1>2, <1>3, <2>3
  <1> QED BY <1>2, <1>3, ZenonT(20)

\* The sessions leave the primary right: a node that one of them attaches is
\* one more that it may name.
LEMMA ChildSafe ==
  ASSUME TypeInv, SystemInv, PlainSafe, NEW c \in Children, ChildSteps(c)
  PROVE  PlainSafe'
  <1>1. UNCHANGED <<quarantine, primary, pc, ctx, newPrimary, follow>> /\ Valid \subseteq Valid'
    BY ChildFrame, ChildMoves, ZenonT(20) DEF SystemInv, Moves
  <1>2. PrimaryInv'
    BY <1>1 DEF PlainSafe, PrimaryInv
  <1>3. CASE queue' = queue
    BY <1>1, <1>2, <1>3 DEF PlainSafe, PlainInv
  <1>4. CASE queue' # queue
    <2>1. PICK n : RegisterRequest("NODE_DOWN", n, {"SWITCHOVER"})
      BY <1>4, ChildFrame, ZenonT(20)
    <2> DEFINE r == [kind |-> "NODE_DOWN", node |-> n, details |-> {"SWITCHOVER"}]
    <2>2. queue' = Append(queue, r) /\ queue \in Seq(Requests)
      BY <2>1 DEF RegisterRequest, TypeInv, TypeOK, SharedTypeOK
    <2>3. r.kind # "NODE_QUARANTINE" /\ "UPDATE" \notin r.details
      OBVIOUS
    <2> HIDE DEF r
    <2>4. \A i \in 1..Len(queue') : (i \in 1..Len(queue) /\ queue'[i] = queue[i]) \/ queue'[i] = r
      BY <2>2
    <2>5. \A i \in 1..Len(queue') : /\ queue'[i].kind # "NODE_QUARANTINE"
                                    /\ "UPDATE" \notin queue'[i].details
      BY <2>3, <2>4, ZenonT(20) DEF PlainSafe, PlainInv
    <2> QED BY <1>1, <1>2, <2>5 DEF PlainSafe, PlainInv
  <1> QED BY <1>3, <1>4

\* ... and, where they attach no node, the file and the main node.
LEMMA ChildQuiet ==
  ASSUME TypeInv, SystemInv, NEW c \in Children, ChildSteps(c), AttachedOnRequest
  PROVE  /\ FileStep
         /\ FALSE \notin FailoverOnBackendError => MainStep
  <1>1. Valid' = Valid
    BY ChildValid
  <1>2. /\ UNCHANGED <<pc, newMain>>
        /\ statusFile' = statusFile \/ statusFile' = Latest(statusFile)
        /\ serving' = serving \/ serving' = Latest(serving)
        /\ FALSE \notin FailoverOnBackendError => mainNode' = mainNode
    BY ChildFrame, ZenonT(20)
  <1>3. FileStep
    BY <1>1, <1>2 DEF FileStep, FileInv, Latest
  <1>4. FALSE \notin FailoverOnBackendError => MainStep
    BY <1>1, <1>2 DEF MainStep, MainInv, Handling
  <1> QED BY <1>3, <1>4, ZenonT(20)

\* A step of the system keeps the primary right, ...
LEMMA SystemSafe ==
  ASSUME ~Quorumless, ~FollowPrimaryCommand, TypeInv, SystemInv, PlainSafe, [SystemNext]_vars
  PROVE  PlainSafe'
  <1>1. CASE Next \/ UNCHANGED vars
    BY <1>1, StepSafe
  <1>2. ASSUME NEW c \in Children, ChildSteps(c) PROVE PlainSafe'
    BY <1>2, ChildSafe
  <1> QED BY <1>1, <1>2 DEF SystemNext

\* ... and a step that attaches no node unasked keeps the file right, so that a
\* restart attaches none either.
LEMMA SystemFile ==
  ASSUME ~Quorumless, ~FollowPrimaryCommand, TypeInv, SystemInv, PlainSafe, FileInv,
         [SystemNext]_vars, [AttachedOnRequest]_vars
  PROVE  FileInv' /\ (pc' = "start" /\ Valid # {} => Valid' \subseteq Valid)
  <1>1. CASE Next \/ UNCHANGED vars
    BY <1>1, StepSafe, StepKeepsDetached DEF FileStep
  <1>2. ASSUME NEW c \in Children, ChildSteps(c), ~UNCHANGED vars
        PROVE  FileInv' /\ Valid' = Valid
    BY <1>2, ChildQuiet, ChildValid, ZenonT(20) DEF FileStep
  <1> QED BY <1>1, <1>2 DEF SystemNext

\* The same for the main node.
LEMMA SystemMain ==
  ASSUME FALSE \notin FailoverOnBackendError, TypeInv, SystemInv, MainInv,
         [SystemNext]_vars, [AttachedOnRequest]_vars
  PROVE  MainInv'
  <1>1. CASE Next \/ UNCHANGED vars
    BY <1>1, StepInv DEF MainStep
  <1>2. ASSUME NEW c \in Children, ChildSteps(c), ~UNCHANGED vars PROVE MainInv'
    BY <1>2, ChildQuiet DEF MainStep
  <1> QED BY <1>1, <1>2 DEF SystemNext

\* The primary, in every behaviour of the composed system.
LEMMA SystemSafeInvariance ==
  ASSUME ~Quorumless, ~FollowPrimaryCommand
  PROVE  SystemSpec => [](TypeInv /\ SystemInv /\ PlainSafe)
  <1>1. TypeInv /\ SystemInv /\ PlainSafe /\ [SystemNext]_vars => PlainSafe'
    BY SystemSafe
  <1> QED BY <1>1, InitSafe, SystemInvariance, PTL DEF SystemSpec

\* The status file, in the behaviours in which no session attaches a node that
\* failover() has detached.
LEMMA SystemFileInvariance ==
  ASSUME ~Quorumless, ~FollowPrimaryCommand
  PROVE  SystemSpec /\ DetachedStaysDetached => []FileInv
  <1>1. /\ TypeInv /\ SystemInv /\ PlainSafe /\ FileInv /\ [SystemNext]_vars
        /\ [AttachedOnRequest]_vars
        => FileInv'
    BY SystemFile
  <1> QED BY <1>1, InitSafe, SystemSafeInvariance, PTL DEF SystemSpec, DetachedStaysDetached

\* Outside failover() the primary id names a node in use or none, whatever the
\* session processes connect to, skip, attach and ask for meanwhile.
THEOREM SystemPrimaryCorrect ==
  ASSUME ~Quorumless, ~FollowPrimaryCommand
  PROVE  SystemSpec => []PrimaryIsValid
  <1>1. PlainSafe => PrimaryIsValid
    BY DEF PlainSafe, PrimaryInv, PrimaryIsValid, Idle
  <1> QED BY <1>1, SystemSafeInvariance, PTL

\* Outside failover() the status file names the nodes that were in use last,
\* with any number of session processes that write it, unless one of them
\* attaches a node that failover() has detached.
THEOREM SystemStatusFileCorrect ==
  ASSUME ~Quorumless, ~FollowPrimaryCommand
  PROVE  SystemSpec /\ DetachedStaysDetached => []StatusFileFaithful
  <1>1. FileInv => StatusFileFaithful
    BY DEF FileInv, StatusFileFaithful, Idle
  <1> QED BY <1>1, SystemFileInvariance, PTL

\* Under the same condition a restart attaches no node that was detached.
THEOREM SystemRestartsKeepDetached ==
  ASSUME ~Quorumless, ~FollowPrimaryCommand
  PROVE  SystemSpec /\ DetachedStaysDetached => RestartKeepsDetached
  <1>1. /\ TypeInv /\ SystemInv /\ PlainSafe /\ FileInv /\ [SystemNext]_vars
        /\ [AttachedOnRequest]_vars
        => [pc' = "start" /\ Valid # {} => Valid' \subseteq Valid]_vars
    BY SystemFile
  <1> QED BY <1>1, SystemSafeInvariance, SystemFileInvariance, PTL
          DEF SystemSpec, DetachedStaysDetached, RestartKeepsDetached

\* Outside failover() the main node id is the first node in use, under the same
\* condition and with failover_on_backend_error, without which a session that
\* skips the main node moves the id (new_connection).
THEOREM SystemMainNodeCorrect ==
  ASSUME FALSE \notin FailoverOnBackendError
  PROVE  SystemSpec /\ DetachedStaysDetached => []MainNodeIsFirstValid
  <1>1. /\ TypeInv /\ SystemInv /\ MainInv /\ [SystemNext]_vars /\ [AttachedOnRequest]_vars
        => MainInv'
    BY SystemMain
  <1>2. MainInv => MainNodeIsFirstValid
    BY DEF MainInv, MainNodeIsFirstValid, Idle, Handling
  <1> QED BY <1>1, <1>2, InitTyped, SystemInvariance, PTL DEF SystemSpec, DetachedStaysDetached
=============================================================================
