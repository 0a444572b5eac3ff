------------------------------ MODULE Backends ------------------------------
(***************************************************************************)
(* What the processes of one pgbalancer share about its backends: the      *)
(* status of every node, the primary and main node ids, the requests for   *)
(* the main process, the status file on disk, and the session processes    *)
(* with the private copy of the status each one works from.  The           *)
(* PostgreSQL servers behind the nodes are the environment.  Streaming     *)
(* replication mode (STREAM, not RAW_MODE).                                *)
(***************************************************************************)
EXTENDS Integers, Sequences, FiniteSets

CONSTANTS NumBackends,             \* NUM_BACKENDS
          Children,                \* the session (child) processes
          Quorumless,              \* whether the watchdog may lack a quorum
          FollowPrimaryCommand,    \* follow_primary_command is configured
          FailoverOnBackendError,  \* the values that failover_on_backend_error has
                                   \* in turn, as the configuration is reloaded
          MaxRequests,             \* bound: requests registered
          MaxEvents                \* bound: server and pgbalancer failures

ASSUME BackendsAssumption ==
  /\ NumBackends \in Nat \ {0}
  /\ IsFiniteSet(Children)
  /\ Quorumless \in BOOLEAN
  /\ FollowPrimaryCommand \in BOOLEAN
  /\ FailoverOnBackendError \subseteq BOOLEAN
  /\ MaxRequests \in Nat
  /\ MaxEvents \in Nat

Nodes == 0..(NumBackends - 1)
NodeIds == Nodes \cup {-1}

Statuses == {"CON_UP", "CON_CONNECT_WAIT", "CON_DOWN"}
Kinds == {"NODE_DOWN", "NODE_QUARANTINE", "NODE_UP", "PROMOTE_NODE"}
Details == {"SWITCHOVER", "UPDATE", "PROMOTE"}
Requests == [kind: Kinds, node: Nodes, details: SUBSET Details]
Places == {"accept", "waiting", "accepted", "holding", "ready", "connect",
           "opened", "session", "exited", "killed", "gone"}

VARIABLES
  status,      \* BACKEND_INFO(i).backend_status
  quarantine,  \* BACKEND_INFO(i).quarantine
  wasPrimary,  \* BACKEND_INFO(i).role = ROLE_PRIMARY
  primary,     \* Req_info->primary_node_id; -2 until the first search
  mainNode,    \* Req_info->main_node_id
  statusFile,  \* the nodes the status file says are up
  queue,       \* the requests in Req_info->request
  switching,   \* Req_info->switching
  child,       \* the session processes
  server,      \* the PostgreSQL servers: primary, standby or stopped
  registered,  \* bound: number of requests registered
  events,      \* bound: number of failures
  serving      \* history: the last nonempty set of valid nodes

nodeInfo == <<status, quarantine, wasPrimary, primary, mainNode>>
bounds == <<registered, events>>

-----------------------------------------------------------------------------
Up(st) == {n \in Nodes : st[n] # "CON_DOWN"}

\* VALID_BACKEND as the main process evaluates it: on shared memory.
Valid == Up(status)

Least(S) == CHOOSE n \in S : \A m \in S : n <= m

\* Mutant: the index that the scan ends with is returned without a test.
MainNodeRunsOut(S) == IF S = {} THEN NumBackends ELSE Least(S)

\* get_next_main_node, on the nodes the caller sees as valid.
NextMainNode(S) == IF S = {} THEN -1 ELSE Least(S)

\* PRIMARY_NODE_ID, on the nodes the caller sees as valid.
PrimaryNodeId(S) == IF primary \in S THEN primary ELSE mainNode

\* Mutant: the file is written even when every node is down.
WriteAlways(st) == Up(st)

\* Mutant: a change is not recorded.
WriteNever(st) == statusFile

\* write_status_file: nothing is written when every node is down.
WriteStatusFile(st) == IF Up(st) = {} THEN statusFile ELSE Up(st)

\* fork_a_child and the start of do_child: the new process copies the status
\* of every node; the restart flag of its process_info slot is not reset.
Forked(ch, st) == [at |-> "accept", view |-> Up(st), node |-> -1, lb |-> -1,
                   changed |-> FALSE, restart |-> ch.restart, quit |-> FALSE]

\* register_node_operation_request, whose protocol RequestQueue checks.
RegisterRequest(k, n, d) ==
  /\ registered < MaxRequests
  /\ registered' = registered + 1
  /\ queue' = Append(queue, [kind |-> k, node |-> n, details |-> d])
  /\ UNCHANGED events

-----------------------------------------------------------------------------
(* The type of the shared state                                            *)

\* at: where the process is ("exited" and "killed": it has ended, with or
\* without asking for a restart; "gone": its slot is empty)
\* view: the nodes its private status copy says are up
\* node: the node it is connecting to
\* lb: con_info: connected, with this load_balancing_node; -1 if not connected
\* changed: new_connection's status_changed
\* restart: process_info[i].need_to_restart
\* quit: SIGQUIT sent and not yet delivered
ChildType == [at: Places, view: SUBSET Nodes, node: NodeIds, lb: NodeIds,
              changed: BOOLEAN, restart: BOOLEAN, quit: BOOLEAN]

SharedTypeOK ==
  /\ status \in [Nodes -> Statuses]
  /\ quarantine \in [Nodes -> BOOLEAN]
  /\ wasPrimary \in [Nodes -> BOOLEAN]
  /\ primary \in NodeIds \cup {-2}
  /\ mainNode \in NodeIds
  /\ statusFile \in SUBSET Nodes
  /\ queue \in Seq(Requests)
  /\ switching \in BOOLEAN
  /\ child \in [Children -> ChildType]
  /\ server \in [Nodes -> {"primary", "standby", "stopped"}]
  /\ registered \in 0..MaxRequests
  /\ events \in 0..MaxEvents
  /\ serving \in SUBSET Nodes
=============================================================================
