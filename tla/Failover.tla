------------------------------ MODULE Failover ------------------------------
(***************************************************************************)
(* The main process: start-up from the status file, and failover(), which  *)
(* serves the registered requests one by one with the subroutines below.   *)
(* One FAILOVER_CONTEXT is used for all the requests of one call.          *)
(***************************************************************************)
EXTENDS Backends

VARIABLES
  pc,          \* where the main process is
  ctx,         \* failover()'s failover_context
  newMain,     \* failover()'s new_main_node
  newPrimary,  \* failover()'s new_primary
  promoteNode, \* failover()'s promote_node
  follow       \* follow-primary children: waiting for the lock, and
               \* Req_info->follow_primary_ongoing

mainVars == <<pc, ctx, newMain, newPrimary, promoteNode>>
locals == <<newMain, newPrimary, promoteNode>>
external == <<server, follow>>
vars == <<nodeInfo, statusFile, queue, switching, child, bounds, serving,
          mainVars, external>>

MainPlaces == {"start", "idle", "dequeue", "kill", "command", "determine",
               "search", "follow", "save", "restart"}

\* memset of the failover context, and search_primary
FreshContext ==
  [kind |-> "NODE_DOWN", node |-> -1, details |-> {}, nodes |-> {},
   searchPrimary |-> TRUE, restartChildren |-> FALSE,
   partialRestart |-> FALSE, allDown |-> FALSE]

Idle == pc = "idle"

\* serving' : the valid nodes, while there are any
Serve(st) == serving' = IF Up(st) = {} THEN serving ELSE Up(st)

-----------------------------------------------------------------------------
(* Start-up                                                                *)

\* read_status_file: a file that says nobody is up is bogus.
FromFile(f) ==
  [n \in Nodes |-> IF f = {} THEN "CON_CONNECT_WAIT"
                   ELSE IF n \in f THEN "CON_UP" ELSE "CON_DOWN"]

\* A start with any status file; one of the nodes in use is the primary.
Init ==
  /\ statusFile \in SUBSET Nodes
  /\ status = FromFile(statusFile)
  /\ \E p \in Up(status) :
        server = [n \in Nodes |-> IF n = p THEN "primary" ELSE "standby"]
  /\ registered = 0
  /\ events = 0
  /\ serving = Up(status)
  /\ quarantine = [n \in Nodes |-> FALSE]
  /\ wasPrimary = [n \in Nodes |-> FALSE]
  /\ primary = -2
  /\ mainNode = NextMainNode(Up(status))
  /\ queue = <<>>
  /\ switching = FALSE
  /\ child = [c \in Children |-> Forked([restart |-> FALSE], status)]
  /\ pc = "start"
  /\ ctx = FreshContext
  /\ newMain = -1
  /\ newPrimary = -1
  /\ promoteNode = -1
  /\ follow = [waiting |-> 0, ongoing |-> FALSE]

\* All processes of pgbalancer end at once and it is started again.
Restart ==
  /\ events < MaxEvents
  /\ events' = events + 1
  /\ LET st == FromFile(statusFile)
     IN /\ status' = st
        /\ statusFile' = Up(st)
        /\ mainNode' = NextMainNode(Up(st))
        /\ child' = [c \in Children |-> Forked([restart |-> FALSE], st)]
        /\ Serve(st)
  /\ quarantine' = [n \in Nodes |-> FALSE]
  /\ wasPrimary' = [n \in Nodes |-> FALSE]
  /\ primary' = -2
  /\ queue' = <<>>
  /\ switching' = FALSE
  /\ pc' = "start"
  /\ ctx' = FreshContext
  /\ newMain' = -1 /\ newPrimary' = -1 /\ promoteNode' = -1
  /\ follow' = [waiting |-> 0, ongoing |-> FALSE]
  /\ UNCHANGED <<server, registered>>

\* find_primary_node on the valid nodes: a server that answers that it is a
\* primary.  Which one, when there are several, is left open here.
Primaries == {n \in Valid : server[n] = "primary"}

\* Mutant: the search has no time limit.
SearchForever(p) == p \in Primaries

\* find_primary_node_repeatedly until it finds one or search_primary_node_timeout
Search(p) ==
  \/ p \in Primaries
  \/ Primaries = {} /\ p = -1

\* The rest of start-up: the first primary search, and the status file.
StartUp ==
  /\ pc = "start"
  /\ \E p \in NodeIds : Search(p) /\ primary' = p
  /\ statusFile' = WriteStatusFile(status)
  /\ pc' = "idle"
  /\ UNCHANGED <<status, quarantine, wasPrimary, mainNode, queue, switching,
                 child, bounds, serving, ctx, locals, external>>

-----------------------------------------------------------------------------
(* failover()                                                              *)

EnterFailover ==
  /\ Idle
  /\ queue # <<>>
  /\ switching' = TRUE
  /\ ctx' = FreshContext
  /\ pc' = "dequeue"
  /\ UNCHANGED <<nodeInfo, statusFile, queue, child, bounds, serving, locals,
                 external>>

LeaveFailover ==
  /\ pc = "dequeue"
  /\ queue = <<>>
  /\ switching' = FALSE
  /\ pc' = "idle"
  /\ ctx' = FreshContext
  /\ newMain' = -1 /\ newPrimary' = -1 /\ promoteNode' = -1
  /\ UNCHANGED <<nodeInfo, statusFile, queue, child, bounds, serving, external>>

\* The local copy of the next request.  A request to promote by switch-over
\* is turned into one against the current primary.
Taken(r) ==
  [ctx EXCEPT !.kind = r.kind, !.details = r.details,
              !.node = IF "PROMOTE" \in r.details THEN primary ELSE r.node]

Dequeue(k) ==
  /\ pc = "dequeue"
  /\ queue # <<>>
  /\ Head(queue).kind \in k
  /\ queue' = Tail(queue)
  /\ promoteNode' = IF "PROMOTE" \in Head(queue).details
                    THEN Head(queue).node ELSE 0
  /\ UNCHANGED <<switching, child, bounds, newPrimary, external>>

\* The handlers' "continue": the request changes nothing.
Refuse(r) ==
  /\ ctx' = Taken(r)
  /\ pc' = pc
  /\ UNCHANGED <<nodeInfo, statusFile, serving, newMain>>

Proceed(st) ==
  /\ newMain' = NextMainNode(Up(st))
  /\ pc' = "kill"
  /\ Serve(st)

\* handle_failback_request
FailBack(n, c) ==
  LET st == [status EXCEPT ![n] = "CON_CONNECT_WAIT"]
      allDown == Valid = {}
      regained == primary = -1 /\ wasPrimary[n]
  IN /\ status' = st
     /\ IF "UPDATE" \in c.details
        THEN /\ quarantine' = [quarantine EXCEPT ![n] = FALSE]
             /\ mainNode' = NextMainNode(Up(st))
             /\ primary' = IF regained THEN n ELSE primary
             /\ ctx' = [c EXCEPT !.allDown = allDown, !.searchPrimary = FALSE,
                                 !.restartChildren = regained \/ allDown,
                                 !.partialRestart = FALSE]
             /\ UNCHANGED statusFile
        ELSE /\ statusFile' = WriteStatusFile(st)
             /\ ctx' = [c EXCEPT !.allDown = allDown]
             /\ UNCHANGED <<quarantine, primary, mainNode>>
     /\ UNCHANGED wasPrimary
     /\ Proceed(st)

HandleFailback ==
  /\ Dequeue({"NODE_UP"})
  /\ LET r == Head(queue)
     IN IF r.node \in Valid THEN Refuse(r) ELSE FailBack(r.node, Taken(r))

HandlePromote ==
  /\ Dequeue({"PROMOTE_NODE"})
  /\ LET r == Head(queue)
     IN IF Taken(r).node \in Valid
        THEN ctx' = Taken(r) /\ Proceed(status) /\ UNCHANGED <<nodeInfo, statusFile>>
        ELSE Refuse(r)

\* handle_failover_request, for one node
Degenerate(n, c) ==
  LET st == [status EXCEPT ![n] = "CON_DOWN"]
      down == c.kind = "NODE_DOWN"
      restored == down /\ primary = -1 /\ quarantine[n] /\ wasPrimary[n]
  IN /\ status' = st
     /\ quarantine' = [quarantine EXCEPT ![n] = ~down]
     /\ primary' = IF restored THEN n ELSE primary
     /\ statusFile' = IF down THEN WriteStatusFile(st) ELSE statusFile
     /\ ctx' = [c EXCEPT !.nodes = @ \cup {n},
                         !.searchPrimary = @ /\ ~restored]
     /\ UNCHANGED <<wasPrimary, mainNode>>
     /\ Proceed(st)

MayDegenerate(n) == n \in Nodes /\ (quarantine[n] \/ n \in Valid)

HandleFailover ==
  /\ Dequeue({"NODE_DOWN", "NODE_QUARANTINE"})
  /\ LET r == Head(queue)
         c == Taken(r)
     IN IF MayDegenerate(c.node) THEN Degenerate(c.node, c) ELSE Refuse(r)

-----------------------------------------------------------------------------
(* The subroutines that follow an accepted request                         *)

\* pool_coninfo: a session of the process uses the node for load balancing.
UsesNode(c, n) == child[c].lb = n

\* SIGQUIT is sent; a session process may have it blocked for a while.
Quit(ch) ==
  [ch EXCEPT !.quit = ch.at \notin {"exited", "killed", "gone"}]

\* Mutant: a failback never restarts the children.
FailbackNeverRestarts == ctx.kind = "NODE_UP"

\* A failback leaves the children alone, unless all nodes were down or it
\* brings the primary back.
FailbackSparesChildren ==
  /\ ctx.kind = "NODE_UP"
  /\ ~ctx.allDown
  /\ primary >= 0 /\ primary # ctx.node

\* A switch-over ends only the sessions that use the node.  The node is down
\* already, so PRIMARY_NODE_ID is not a primary that is being taken down.
SwitchoverSparesOthers ==
  /\ ctx.kind \in {"NODE_DOWN", "NODE_QUARANTINE"}
  /\ "SWITCHOVER" \in ctx.details
  /\ ctx.node # PrimaryNodeId(Valid)

\* kill_failover_children: whom it kills, and what restart it asks for
KillFailoverChildren ==
  /\ pc = "kill"
  /\ \/ /\ FailbackSparesChildren
        /\ ctx' = IF "UPDATE" \in ctx.details THEN ctx
                  ELSE [ctx EXCEPT !.restartChildren = FALSE,
                                   !.partialRestart = FALSE]
        /\ UNCHANGED child
     \/ /\ SwitchoverSparesOthers
        /\ ctx' = [ctx EXCEPT !.restartChildren = TRUE, !.partialRestart = TRUE]
        /\ child' = [c \in Children |-> IF UsesNode(c, ctx.node)
                                        THEN Quit(child[c]) ELSE child[c]]
     \/ /\ ~FailbackSparesChildren
        /\ ~SwitchoverSparesOthers
        /\ ctx' = [ctx EXCEPT !.restartChildren = TRUE, !.partialRestart = FALSE]
        /\ child' = [c \in Children |-> Quit(child[c])]
  /\ pc' = "command"
  /\ UNCHANGED <<nodeInfo, statusFile, queue, switching, bounds, serving,
                 locals, external>>

\* What a failover_command does when the old primary is among the failed
\* nodes: it promotes the new main node, if that is a running standby.
Promoted(m) ==
  IF primary \in ctx.nodes /\ m \in Nodes /\ server[m] = "standby"
  THEN [server EXCEPT ![m] = "primary"] ELSE server

\* exec_failover_command: once for every node noted in the context.  The
\* command may fail to promote.
ExecFailoverCommand ==
  /\ pc = "command"
  /\ LET m == IF "PROMOTE" \in ctx.details THEN promoteNode ELSE newMain
     IN IF ctx.kind = "NODE_DOWN"
        THEN server' \in {server, Promoted(m)}
        ELSE UNCHANGED server
  /\ pc' = "determine"
  /\ UNCHANGED <<nodeInfo, statusFile, queue, switching, child, bounds,
                 serving, ctx, locals, follow>>

Determined(p) == newPrimary' = p /\ pc' = "follow"

\* The head of find_primary_node_repeatedly: the searches it skips.
StartSearch ==
  IF follow.ongoing THEN Determined(primary)
  ELSE IF Valid = {} THEN Determined(-1)
  ELSE pc' = "search" /\ UNCHANGED newPrimary

\* Mutant: the failed primary is kept as the new primary.
DetermineKeepsPrimary ==
  /\ pc = "determine"
  /\ Determined(primary)
  /\ UNCHANGED <<status, quarantine, wasPrimary, primary, mainNode, statusFile,
                 queue, switching, child, bounds, serving, ctx, newMain,
                 promoteNode, external>>

\* determine_new_primary_node
DetermineNewPrimary ==
  /\ pc = "determine"
  /\ CASE ctx.kind = "PROMOTE_NODE" /\ ctx.node \in Valid ->
            Determined(ctx.node) /\ UNCHANGED wasPrimary
       [] ctx.kind = "NODE_QUARANTINE" ->
            IF primary = ctx.node
            THEN /\ wasPrimary' = [wasPrimary EXCEPT ![ctx.node] = TRUE]
                 /\ Determined(-1)
            ELSE Determined(primary) /\ UNCHANGED wasPrimary
       [] ctx.kind = "NODE_DOWN" ->
            IF primary >= 0 /\ primary # ctx.node
            THEN Determined(primary) /\ UNCHANGED wasPrimary
            ELSE /\ wasPrimary' = [n \in Nodes |-> n # primary /\ wasPrimary[n]]
                 /\ StartSearch
       [] OTHER ->
            /\ IF ctx.searchPrimary THEN StartSearch ELSE Determined(primary)
            /\ UNCHANGED wasPrimary
  /\ UNCHANGED <<status, quarantine, primary, mainNode, statusFile, queue,
                 switching, child, bounds, serving, ctx, newMain, promoteNode,
                 external>>

\* The search, which needs the follow-primary lock.
SearchPrimary ==
  /\ pc = "search"
  /\ ~follow.ongoing
  /\ \E p \in NodeIds : Search(p) /\ Determined(p)
  /\ UNCHANGED <<nodeInfo, statusFile, queue, switching, child, bounds,
                 serving, ctx, newMain, promoteNode, external>>

\* When exec_follow_primary_command takes the other nodes down
Follows ==
  /\ FollowPrimaryCommand \/ ctx.kind = "PROMOTE_NODE"
  /\ \/ ctx.kind = "NODE_DOWN" /\ primary \in ctx.nodes
     \/ ctx.kind = "NODE_DOWN" /\ primary < 0 /\ newPrimary >= 0
     \/ ctx.kind = "PROMOTE_NODE" /\ ctx.node \in Valid
  /\ newPrimary >= 0
  /\ NumBackends > 1

\* exec_follow_primary_command: the nodes go down in index order, and the
\* status file is written after each of them.
FollowPrimary ==
  /\ pc = "follow"
  /\ IF Follows
     THEN LET After(i) == [n \in Nodes |-> IF n <= i /\ n # newPrimary
                                          THEN "CON_DOWN" ELSE status[n]]
              st == After(NumBackends - 1)
              written == {i \in Nodes \ {newPrimary} : Up(After(i)) # {}}
          IN /\ status' = st
             /\ statusFile' = IF written = {} THEN statusFile
                              ELSE Up(After(CHOOSE i \in written :
                                              \A j \in written : j <= i))
             /\ newMain' = IF Up(st) = {} THEN newMain ELSE NextMainNode(Up(st))
             /\ follow' = IF FollowPrimaryCommand
                          THEN [follow EXCEPT !.waiting = @ + 1] ELSE follow
             /\ Serve(st)
     ELSE UNCHANGED <<status, statusFile, newMain, follow, serving>>
  /\ pc' = "save"
  /\ UNCHANGED <<quarantine, wasPrimary, primary, mainNode, queue, switching,
                 child, bounds, ctx, newPrimary, promoteNode, server>>

\* Mutant: the new main node is not saved.
SaveWithoutMainNode ==
  /\ pc = "save"
  /\ wasPrimary' = [n \in Nodes |->
                      wasPrimary[n] \/ (n = newPrimary /\ n # primary)]
  /\ primary' = newPrimary
  /\ pc' = "restart"
  /\ UNCHANGED <<status, quarantine, mainNode, statusFile, queue, switching,
                 child, bounds, serving, ctx, locals, external>>

\* save_node_info
SaveNodeInfo ==
  /\ pc = "save"
  /\ wasPrimary' = [n \in Nodes |->
                      wasPrimary[n] \/ (n = newPrimary /\ n # primary)]
  /\ primary' = newPrimary
  /\ mainNode' = IF newMain >= 0 THEN newMain ELSE mainNode
  /\ pc' = "restart"
  /\ UNCHANGED <<status, quarantine, statusFile, queue, switching, child,
                 bounds, serving, ctx, locals, external>>

\* Mutant: the children that are not replaced are not told.
RestartedUnflagged(c) ==
  IF /\ ctx.restartChildren
     /\ ctx.partialRestart => UsesNode(c, ctx.node)
     /\ child[c].at # "gone"
  THEN Forked(child[c], status) ELSE child[c]

\* exec_child_restart: a slot whose process was killed gets a new one when
\* its connection information still names the node.
Restarted(c) ==
  IF /\ ctx.restartChildren
     /\ ctx.partialRestart => UsesNode(c, ctx.node)
  THEN IF child[c].at = "gone" THEN child[c] ELSE Forked(child[c], status)
  ELSE [child[c] EXCEPT !.restart = TRUE]

ChildRestart ==
  /\ pc = "restart"
  /\ child' = [c \in Children |-> Restarted(c)]
  /\ pc' = "dequeue"
  /\ UNCHANGED <<nodeInfo, statusFile, queue, switching, bounds, serving, ctx,
                 locals, external>>

\* reaper, for a session process that has ended; it does nothing while
\* switching.  Static process management.
Reap(c) ==
  /\ Idle
  /\ child[c].at \in {"exited", "killed"}
  /\ child' = [child EXCEPT ![c] =
                 IF @.at = "exited" THEN Forked(@, status)
                 ELSE [Forked(@, status) EXCEPT !.at = "gone", !.view = {}]]
  /\ UNCHANGED <<nodeInfo, statusFile, queue, switching, bounds, serving,
                 mainVars, external>>

-----------------------------------------------------------------------------
(* The follow-primary child and the servers                                *)

\* fork_follow_child's process has the follow-primary lock.
FollowStart ==
  /\ follow.waiting > 0
  /\ ~follow.ongoing
  /\ follow' = [waiting |-> follow.waiting - 1, ongoing |-> TRUE]
  /\ UNCHANGED <<nodeInfo, statusFile, queue, switching, child, bounds,
                 serving, mainVars, server>>

\* follow_primary_command for a node that is down makes it a standby.
FollowNode(n) ==
  /\ follow.ongoing
  /\ status[n] = "CON_DOWN"
  /\ server' = [server EXCEPT ![n] = "standby"]
  /\ UNCHANGED <<nodeInfo, statusFile, queue, switching, child, bounds,
                 serving, mainVars, follow>>

FollowEnd ==
  /\ follow.ongoing
  /\ follow' = [follow EXCEPT !.ongoing = FALSE]
  /\ UNCHANGED <<nodeInfo, statusFile, queue, switching, child, bounds,
                 serving, mainVars, server>>

ServerFails(n) ==
  /\ server[n] # "stopped"
  /\ events < MaxEvents
  /\ events' = events + 1
  /\ server' = [server EXCEPT ![n] = "stopped"]
  /\ UNCHANGED <<nodeInfo, statusFile, queue, switching, child, registered,
                 serving, mainVars, follow>>

\* An operator restarts it, in either role.
ServerStarts(n) ==
  /\ server[n] = "stopped"
  /\ \E r \in {"primary", "standby"} : server' = [server EXCEPT ![n] = r]
  /\ UNCHANGED <<nodeInfo, statusFile, queue, switching, child, bounds,
                 serving, mainVars, follow>>

-----------------------------------------------------------------------------
(* Who asks for node operations                                            *)

Asks(k, n, d) ==
  /\ pc # "start"
  /\ RegisterRequest(k, n, d)
  /\ UNCHANGED <<nodeInfo, statusFile, switching, child, serving, mainVars,
                 external>>

\* degenerate_backend_set_ex, for health checks, sessions and operators; the
\* watchdog may turn the request into a quarantine.
DegenerateBackend(n) ==
  /\ MayDegenerate(n)
  /\ \E k \in {"NODE_DOWN"} \cup (IF Quorumless THEN {"NODE_QUARANTINE"} ELSE {}),
        d \in {{}, {"SWITCHOVER"}, {"SWITCHOVER", "PROMOTE"}} : Asks(k, n, d)

\* promote_backend
PromoteBackend(n) == n \in Valid /\ Asks("PROMOTE_NODE", n, {})

\* send_failback_request: an update, if the node is in quarantine by now
SendFailbackRequest(n) ==
  Asks("NODE_UP", n, IF quarantine[n] THEN {"UPDATE"} ELSE {})

-----------------------------------------------------------------------------
MainSteps ==
  \/ StartUp \/ EnterFailover \/ LeaveFailover
  \/ HandleFailback \/ HandlePromote \/ HandleFailover
  \/ KillFailoverChildren \/ ExecFailoverCommand
  \/ DetermineNewPrimary \/ SearchPrimary \/ FollowPrimary
  \/ SaveNodeInfo \/ ChildRestart
  \/ \E c \in Children : Reap(c)

EnvironmentSteps ==
  \/ Restart
  \/ FollowStart \/ FollowEnd
  \/ \E n \in Nodes : FollowNode(n) \/ ServerFails(n) \/ ServerStarts(n)
  \/ \E n \in Nodes : \/ DegenerateBackend(n) \/ PromoteBackend(n)
                      \/ SendFailbackRequest(n)

Next == MainSteps \/ EnvironmentSteps

Spec == Init /\ [][Next]_vars

\* The main process does not stop, and a follow-primary child ends.
FairSpec == Spec /\ WF_vars(MainSteps) /\ WF_vars(FollowEnd)

-----------------------------------------------------------------------------
(* Properties                                                              *)

\* The type of the main process's state and of what it shares.
TypeOK ==
  /\ SharedTypeOK
  /\ pc \in MainPlaces
  /\ ctx \in [kind: Kinds, node: NodeIds, details: SUBSET Details,
              nodes: SUBSET Nodes, searchPrimary: BOOLEAN,
              restartChildren: BOOLEAN, partialRestart: BOOLEAN,
              allDown: BOOLEAN]
  /\ newMain \in NodeIds
  /\ newPrimary \in NodeIds
  /\ promoteNode \in NodeIds
  /\ follow \in [waiting: 0..MaxRequests, ongoing: BOOLEAN]

\* Req_info->main_node_id is "the youngest node id which is not in down
\* status" whenever failover() is not running, however requests, server
\* failures and restarts interleave; with every node down it is stale.
MainNodeIsFirstValid == Idle /\ Valid # {} => mainNode = NextMainNode(Valid)

\* Outside failover() the primary node id never names a detached node: a
\* failed primary has been replaced, or nobody is the primary.  (Without a
\* follow_primary_command, which suspends the search for the primary.)
PrimaryIsValid == Idle /\ primary >= 0 => primary \in Valid

\* The status file holds the last nodes in use: the valid ones, or when all
\* are down those that were valid last, so that a restart resumes from them.
StatusFileFaithful == Idle => statusFile = serving

\* A restart of pgbalancer, at any point of failover(), attaches no node that
\* was detached while another one was in use.
RestartKeepsDetached ==
  [][pc' = "start" /\ Valid # {} => Valid' \subseteq Valid]_vars

\* A call of failover() ends: every request it finds is served, whatever the
\* follow-primary children and the servers do.
FailoverEnds == switching ~> ~switching

\* A switch-over that takes the primary down restarts every child.
PrimaryRestartsAll ==
  pc = "command" /\ ctx.kind = "NODE_DOWN" /\ ctx.node = primary =>
    ctx.restartChildren /\ ~ctx.partialRestart
=============================================================================
