------------------------------ MODULE Sessions ------------------------------
(***************************************************************************)
(* The session (child) processes, composed with the main process of        *)
(* Failover: do_child's loop, from the accepted connection through         *)
(* new_connection, which connects to every node that the process's private *)
(* copy of the status says is up, to the end of the session.  A session    *)
(* always opens new backend connections here: reuse from the connection    *)
(* pool touches none of this state.                                        *)
(***************************************************************************)
EXTENDS Failover

\* A step of a session process that only changes the process itself
Becomes(c, ch) ==
  /\ child' = [child EXCEPT ![c] = ch]
  /\ UNCHANGED <<statusFile, queue, switching, bounds, serving, mainVars,
                 external>>

Ended(ch) == [ch EXCEPT !.at = "exited", !.node = -1, !.changed = FALSE]

\* The top of the loop: check_restart_request ends a process that is flagged.
LoopTop(ch) ==
  IF ch.restart THEN Ended([ch EXCEPT !.restart = FALSE])
  ELSE [ch EXCEPT !.at = "accept", !.node = -1]

\* validate_backend_connectivity: FATAL without any valid node
Validated(ch) == IF ch.view = {} THEN Ended(ch) ELSE [ch EXCEPT !.at = "accepted"]

\* An idle process comes to the top of the loop after a signal or a timeout.
CheckRestartRequest(c) ==
  /\ child[c].at = "accept"
  /\ child[c].restart
  /\ Becomes(c, LoopTop(child[c]))
  /\ UNCHANGED nodeInfo

\* A client connects.  While a failover runs the process waits for it.
Accept(c) ==
  /\ child[c].at = "accept"
  /\ Becomes(c, IF switching THEN [child[c] EXCEPT !.at = "waiting"]
                ELSE Validated(child[c]))
  /\ UNCHANGED nodeInfo

\* The second look at switching, once the client is accepted
Negotiate(c) ==
  /\ child[c].at = "accepted"
  /\ Becomes(c, [child[c] EXCEPT !.at = IF switching THEN "holding" ELSE "ready"])
  /\ UNCHANGED nodeInfo

\* wait_for_failover_to_finish ends, by the end of failover() or by its own
\* limit of MAX_FAILOVER_WAIT seconds, and the private status is renewed.
WaitOver(c) ==
  /\ child[c].at \in {"waiting", "holding"}
  /\ LET ch == [child[c] EXCEPT !.view = Valid]
     IN Becomes(c, IF ch.at = "waiting" THEN Validated(ch)
                   ELSE [ch EXCEPT !.at = "ready"])
  /\ UNCHANGED nodeInfo

\* new_connection moves on to the next node up in the private and the shared
\* status, and corrects the private status of the nodes it passes.  Without
\* any connection the client gets an error.
Advance(ch, st) ==
  LET ahead == {n \in ch.view : n > ch.node}
      next == ahead \cap Up(st)
      kept == [ch EXCEPT !.view = @ \ ahead]
  IN IF next # {}
     THEN [ch EXCEPT !.node = Least(next), !.at = "connect",
                     !.view = @ \ {n \in ahead : n < Least(next)}]
     ELSE IF kept.view = {} THEN LoopTop(kept)
     ELSE [kept EXCEPT !.node = -1, !.at = "opened"]

\* get_backend_connection up to the first create_cp; a process flagged with
\* need_to_restart renews its private status first.
StartConnect(c) ==
  /\ child[c].at = "ready"
  /\ LET ch == IF child[c].restart
               THEN [child[c] EXCEPT !.restart = FALSE, !.view = Valid]
               ELSE child[c]
     IN Becomes(c, Advance(ch, status))
  /\ UNCHANGED nodeInfo

\* create_cp succeeds: the node is marked CON_UP in shared memory whatever
\* its status has become; the status file is written after the last node.
Connected(c) ==
  /\ child[c].at = "connect"
  /\ server[child[c].node] # "stopped"
  /\ LET n == child[c].node
         st == [status EXCEPT ![n] = "CON_UP"]
         ch == [child[c] EXCEPT !.changed = @ \/ status[n] # "CON_UP"]
         next == Advance(ch, st)
         last == next.at = "opened"
     IN /\ status' = st
        /\ child' = [child EXCEPT ![c] = [next EXCEPT !.changed = @ /\ ~last]]
        /\ statusFile' = IF last /\ ch.changed THEN WriteStatusFile(st)
                         ELSE statusFile
        /\ Serve(st)
  /\ UNCHANGED <<quarantine, wasPrimary, primary, mainNode, queue, switching,
                 bounds, mainVars, external>>

\* create_cp fails and failover_on_backend_error is on: a request against the
\* node, and FATAL.
ConnectFailover(c) ==
  /\ child[c].at = "connect"
  /\ server[child[c].node] = "stopped"
  /\ TRUE \in FailoverOnBackendError
  /\ RegisterRequest("NODE_DOWN", child[c].node, {"SWITCHOVER"})
  /\ child' = [child EXCEPT ![c] = Ended(@)]
  /\ UNCHANGED <<nodeInfo, statusFile, switching, serving, mainVars, external>>

\* Mutant: the process goes on with the reduced status after the session.
SkippedForGood(ch) == [ch EXCEPT !.view = @ \ {ch.node}]

\* The node is down in the private status until the process is restarted.
Skipped(ch) == [ch EXCEPT !.view = @ \ {ch.node}, !.restart = TRUE]

\* create_cp fails and failover_on_backend_error is off: a standby is skipped
\* and the process restarts after the session; otherwise FATAL.
ConnectSkips(c) ==
  /\ child[c].at = "connect"
  /\ server[child[c].node] = "stopped"
  /\ FALSE \in FailoverOnBackendError
  /\ LET n == child[c].node
         left == Skipped(child[c]).view
         ch == Advance(Skipped(child[c]), status)
     IN IF n # PrimaryNodeId(child[c].view)
        THEN /\ child' = [child EXCEPT ![c] =
                            [ch EXCEPT !.changed = @ /\ ch.at = "connect"]]
             /\ mainNode' = IF mainNode = n THEN NextMainNode(left) ELSE mainNode
             /\ statusFile' = IF child[c].changed /\ ch.at # "connect"
                              THEN WriteStatusFile(status) ELSE statusFile
        ELSE /\ child' = [child EXCEPT ![c] = Ended(@)]
             /\ UNCHANGED <<mainNode, statusFile>>
  /\ UNCHANGED <<status, quarantine, wasPrimary, primary, queue, switching,
                 bounds, serving, mainVars, external>>

\* After authentication: pool_init_session_context chooses the load balancing
\* node from the private status, and the connection is marked as connected.
OpenSession(c) ==
  /\ child[c].at = "opened"
  /\ \E n \in child[c].view :
        Becomes(c, [child[c] EXCEPT !.at = "session", !.lb = n])
  /\ UNCHANGED nodeInfo

\* The session ends: no longer connected, and back to the top of the loop
EndSession(c) ==
  /\ child[c].at = "session"
  /\ Becomes(c, LoopTop([child[c] EXCEPT !.lb = -1]))
  /\ UNCHANGED nodeInfo

\* SIGQUIT is delivered: die() exits without asking for a restart, and leaves
\* the connection information of the slot as it is.
Die(c) ==
  /\ child[c].quit
  /\ child[c].at \notin {"exited", "killed", "gone"}
  /\ Becomes(c, [child[c] EXCEPT !.at = "killed", !.quit = FALSE, !.node = -1])
  /\ UNCHANGED nodeInfo

ChildSteps(c) ==
  \/ CheckRestartRequest(c) \/ Accept(c) \/ Negotiate(c) \/ WaitOver(c)
  \/ StartConnect(c) \/ Connected(c) \/ ConnectFailover(c)
  \/ ConnectSkips(c) \/ OpenSession(c) \/ EndSession(c) \/ Die(c)

SystemNext == Next \/ \E c \in Children : ChildSteps(c)

SystemSpec == Init /\ [][SystemNext]_vars

-----------------------------------------------------------------------------
(* Properties                                                              *)

\* The process has neither ended nor lost its slot.
Running(ch) == ch.at \notin {"exited", "killed", "gone"}

\* When failover() is not running and some node is valid, no child has a
\* private status in which all backends are down, which would make it refuse
\* the next client (bug 248), nor one without any valid node, unless it is
\* told to renew it.
ChildrenCanServe ==
  Idle /\ Valid # {} =>
    \A c \in Children :
      Running(child[c]) => \/ child[c].view \cap Valid # {}
                           \/ child[c].restart /\ child[c].view # {}

\* Outside failover() a child that takes a detached node for an attached one
\* has been told to renew its private status, so that none of its later
\* sessions starts from what failover() has taken down.
StaleViewIsFlagged ==
  Idle => \A c \in Children :
            Running(child[c]) /\ ~(child[c].view \subseteq Valid) => child[c].restart

\* A node that a process skipped for one session, or that came back meanwhile,
\* is in use again after that session, because the process has been told to
\* restart.  (Not if another session attaches a node that failover() detached.)
SkippedNodesReturn ==
  Idle => \A c \in Children :
            Running(child[c]) /\ ~(Valid \subseteq child[c].view) => child[c].restart

\* A step that attaches a detached node serves a failback request for it, or
\* is a restart of pgbalancer.
AttachedOnRequest ==
  \A n \in Nodes :
    status[n] = "CON_DOWN" /\ status'[n] # "CON_DOWN" =>
      \/ /\ pc = "dequeue" /\ pc' = "kill"
         /\ Head(queue).kind = "NODE_UP" /\ Head(queue).node = n
      \/ pc' = "start"

\* A node that failover detached is attached again only by a failback request
\* or by a restart of pgbalancer.
DetachedStaysDetached == [][AttachedOnRequest]_vars
=============================================================================
