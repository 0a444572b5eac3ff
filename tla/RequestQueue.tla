---------------------------- MODULE RequestQueue ----------------------------
(***************************************************************************)
(* The node operation request queue of pgbalancer and the protocol that    *)
(* wakes the main process up to serve it.                                  *)
(*                                                                         *)
(* Child, health check, worker and watchdog processes (Requesters) and the *)
(* main process itself enqueue requests with                               *)
(* register_node_operation_request(); the main process serves them in      *)
(* failover(), which it enters from sigusr1_interrupt_processor() or, for  *)
(* its own requests, directly.  The ring buffer, its two ends and the      *)
(* switching flag live in shared memory behind REQUEST_INFO_SEM, but       *)
(* failover() raises the flag without the semaphore.  Every access to      *)
(* shared memory that another process can interleave with is a step.       *)
(***************************************************************************)
EXTENDS Integers, Sequences

CONSTANTS Requesters,     \* processes other than the main process
          Main,           \* the main (parent) process
          Requests,       \* request kinds with their node sets
          QueueSize,      \* MAX_REQUEST_QUEUE_SIZE
          MaxRequests,    \* bound: requests accepted in one behaviour
          PcpChildExits   \* whether the PCP child ends when it gets SIGUSR1

Procs == Requesters \cup {Main}

Nobody == "nobody"        \* REQUEST_INFO_SEM is free
NoRequest == "none"       \* a ring slot that was never written

ASSUME RequestQueueAssumption ==
  /\ Main \notin Requesters
  /\ Nobody \notin Procs
  /\ NoRequest \notin Requests
  /\ QueueSize \in Nat \ {0}
  /\ MaxRequests \in Nat
  /\ PcpChildExits \in BOOLEAN

ProcStates == {"idle", "wait_sem", "check", "fill", "notify", "kill"}

MainStates == {"pause", "interrupt", "enter", "lock", "dequeue", "handle",
               "relock", "reset", "notice", "waitpid"}

VARIABLES
  ring,             \* Req_info->request
  head, tail,       \* Req_info->request_queue_head, request_queue_tail
  switching,        \* Req_info->switching, and main's own switching flag
  sem,              \* the holder of REQUEST_INFO_SEM
  pc,               \* where each process is in register_node_operation_request
  arg,              \* its arguments: the request it wants to enqueue
  inProgress,       \* its local failover_in_progress
  signalFlag,       \* user1SignalSlot->signalFlags[SIG_FAILOVER_INTERRUPT]
  sigusr1,          \* SIGUSR1 pending on main, or sigusr1_request
  processState,     \* main's processState
  mpc,              \* where main is outside register_node_operation_request
  mret,             \* where main goes on when failover() returns
  restartPcp,       \* failover_context.need_to_restart_pcp
  accepted,         \* history: the requests enqueued, and main's state then
  handled           \* history: the requests main has copied out of the ring

shared == <<ring, head, tail, switching, sem>>
local == <<pc, arg, inProgress>>
signals == <<signalFlag, sigusr1>>
main == <<processState, mpc, mret, restartPcp>>
history == <<accepted, handled>>
vars == <<shared, local, signals, main, history>>

\* initialize_shared_mem_objects: both ends start at -1
Init ==
  /\ ring = [i \in 0..(QueueSize - 1) |-> NoRequest]
  /\ head = -1
  /\ tail = -1
  /\ switching = FALSE
  /\ sem = Nobody
  /\ pc = [p \in Procs |-> "idle"]
  /\ arg = [p \in Procs |-> NoRequest]
  /\ inProgress = [p \in Procs |-> FALSE]
  /\ signalFlag = FALSE
  /\ sigusr1 = FALSE
  /\ processState = "INITIALIZING"
  /\ mpc = "pause"
  /\ mret = "pause"
  /\ restartPcp = FALSE
  /\ accepted = <<>>
  /\ handled = <<>>

-----------------------------------------------------------------------------
(* register_node_operation_request, for any process                        *)

\* Mutant: one slot too many is taken for free.
FullOffByOne == tail - (QueueSize + 1) = head

Full == tail - QueueSize = head

\* Main enqueues while it serves an interrupt or a request (quarantine
\* updates), and at the end of start-up (false primaries).
MayRegister(p) ==
  \/ p \in Requesters
  \/ p = Main /\ mpc \in {"interrupt", "handle"}
  \/ p = Main /\ mpc = "pause" /\ processState = "INITIALIZING"

Return(p) ==
  /\ pc' = [pc EXCEPT ![p] = "idle"]
  /\ arg' = [arg EXCEPT ![p] = NoRequest]
  /\ inProgress' = [inProgress EXCEPT ![p] = FALSE]

\* The test before the semaphore is taken; a full queue refuses the request.
Register(p, r) ==
  /\ pc[p] = "idle"
  /\ MayRegister(p)
  /\ Len(accepted) < MaxRequests
  /\ ~Full
  /\ pc' = [pc EXCEPT ![p] = "wait_sem"]
  /\ arg' = [arg EXCEPT ![p] = r]
  /\ UNCHANGED <<shared, inProgress, signals, main, history>>

\* Mutant: registration does not wait for REQUEST_INFO_SEM.
LockQueueUnguarded(p) ==
  /\ pc[p] = "wait_sem"
  /\ sem' = p
  /\ pc' = [pc EXCEPT ![p] = "check"]
  /\ UNCHANGED <<ring, head, tail, switching, arg, inProgress,
                 signals, main, history>>

LockQueue(p) ==
  /\ pc[p] = "wait_sem"
  /\ sem = Nobody
  /\ sem' = p
  /\ pc' = [pc EXCEPT ![p] = "check"]
  /\ UNCHANGED <<ring, head, tail, switching, arg, inProgress,
                 signals, main, history>>

\* The same test again, now with the semaphore held.
RefuseFull(p) ==
  /\ pc[p] = "check"
  /\ Full
  /\ sem' = Nobody
  /\ Return(p)
  /\ UNCHANGED <<ring, head, tail, switching, signals, main, history>>

AdvanceTail(p) ==
  /\ pc[p] = "check"
  /\ ~Full
  /\ tail' = tail + 1
  /\ pc' = [pc EXCEPT ![p] = "fill"]
  /\ UNCHANGED <<ring, head, switching, sem, arg, inProgress,
                 signals, main, history>>

FillSlot(p) ==
  /\ pc[p] = "fill"
  /\ ring' = [ring EXCEPT ![tail % QueueSize] = arg[p]]
  /\ inProgress' = [inProgress EXCEPT ![p] = switching]
  /\ sem' = Nobody
  /\ pc' = [pc EXCEPT ![p] = "notify"]
  /\ accepted' = Append(accepted, [req |-> arg[p], at |-> processState])
  /\ UNCHANGED <<head, tail, switching, arg, signals, main, handled>>

\* failover_in_progress: whoever runs failover() will see the request.
LeaveToFailover(p) ==
  /\ pc[p] = "notify"
  /\ inProgress[p]
  /\ Return(p)
  /\ UNCHANGED <<shared, signals, main, history>>

\* signal_user1_to_parent_with_reason: the reason first, then the signal.
SetSignalFlag(p) ==
  /\ p \in Requesters
  /\ pc[p] = "notify"
  /\ ~inProgress[p]
  /\ signalFlag' = TRUE
  /\ pc' = [pc EXCEPT ![p] = "kill"]
  /\ UNCHANGED <<shared, arg, inProgress, sigusr1, main, history>>

SignalParent(p) ==
  /\ pc[p] = "kill"
  /\ sigusr1' = TRUE
  /\ Return(p)
  /\ UNCHANGED <<shared, signalFlag, main, history>>

\* The main process calls failover() itself.
CallFailover ==
  /\ pc[Main] = "notify"
  /\ ~inProgress[Main]
  /\ Return(Main)
  /\ mpc' = "enter"
  /\ mret' = mpc
  /\ UNCHANGED <<shared, signals, processState, restartPcp,
                 history>>

RegisterStep(p) ==
  \/ LockQueue(p)
  \/ RefuseFull(p)
  \/ AdvanceTail(p)
  \/ FillSlot(p)
  \/ LeaveToFailover(p)
  \/ SetSignalFlag(p)
  \/ SignalParent(p)

-----------------------------------------------------------------------------
(* The main process: check_requests, sigusr1_interrupt_processor, failover *)

MainAt(s) == mpc = s /\ pc[Main] = "idle"

\* End of start-up: the main loop sets processState = SLEEPING.
StartSleeping ==
  /\ MainAt("pause")
  /\ processState = "INITIALIZING"
  /\ processState' = "SLEEPING"
  /\ UNCHANGED <<shared, local, signals, mpc, mret, restartPcp, history>>

\* check_requests, reached from the main loop, pool_sleep or start-up.
TakeSigusr1 ==
  /\ MainAt("pause")
  /\ sigusr1
  /\ sigusr1' = FALSE
  /\ mpc' = "interrupt"
  /\ UNCHANGED <<shared, local, signalFlag, processState, mret, restartPcp,
                 history>>

\* The SIG_FAILOVER_INTERRUPT part of sigusr1_interrupt_processor.
FailoverInterrupt ==
  /\ MainAt("interrupt")
  /\ signalFlag
  /\ signalFlag' = FALSE
  /\ mpc' = IF processState = "INITIALIZING" THEN "pause" ELSE "enter"
  /\ mret' = "pause"
  /\ UNCHANGED <<shared, local, sigusr1, processState, restartPcp, history>>

NoFailoverInterrupt ==
  /\ MainAt("interrupt")
  /\ ~signalFlag
  /\ mpc' = "pause"
  /\ UNCHANGED <<shared, local, signals, processState, mret, restartPcp,
                 history>>

\* failover(): the context is cleared, both switching flags are raised.
EnterFailover ==
  /\ MainAt("enter")
  /\ switching' = TRUE
  /\ restartPcp' = FALSE
  /\ mpc' = "lock"
  /\ UNCHANGED <<ring, head, tail, sem, local, signals, processState, mret,
                 history>>

\* Mutant: failover() looks at the queue without REQUEST_INFO_SEM.
LockForDequeueUnguarded ==
  /\ MainAt("lock")
  /\ sem' = Main
  /\ mpc' = "dequeue"
  /\ UNCHANGED <<ring, head, tail, switching, local, signals, processState,
                 mret, restartPcp, history>>

LockForDequeue ==
  /\ MainAt("lock")
  /\ sem = Nobody
  /\ sem' = Main
  /\ mpc' = "dequeue"
  /\ UNCHANGED <<ring, head, tail, switching, local, signals, processState,
                 mret, restartPcp, history>>

\* Mutant: the slot is read before the head is advanced.
DequeueOldHead ==
  /\ MainAt("dequeue")
  /\ tail # head
  /\ head' = head + 1
  /\ handled' = Append(handled, ring[head % QueueSize])
  /\ sem' = Nobody
  /\ mpc' = "handle"
  /\ UNCHANGED <<ring, tail, switching, local, signals, processState, mret,
                 restartPcp, accepted>>

Dequeue ==
  /\ MainAt("dequeue")
  /\ tail # head
  /\ head' = head + 1
  /\ handled' = Append(handled, ring[(head + 1) % QueueSize])
  /\ sem' = Nobody
  /\ mpc' = "handle"
  /\ UNCHANGED <<ring, tail, switching, local, signals, processState, mret,
                 restartPcp, accepted>>

\* Mutant: one call of failover() serves one request.
HandleRequestOnce(completed) ==
  /\ MainAt("handle")
  /\ restartPcp' = (restartPcp \/ completed)
  /\ mpc' = "relock"
  /\ UNCHANGED <<shared, local, signals, processState, mret, history>>

\* The body of the loop.  A request that changes nothing, or only closes
\* idle connections, takes a "continue" and does not reach
\* exec_child_restart, which asks for a new PCP child.
HandleRequest(completed) ==
  /\ MainAt("handle")
  /\ restartPcp' = (restartPcp \/ completed)
  /\ mpc' = "lock"
  /\ UNCHANGED <<shared, local, signals, processState, mret, history>>

\* Handling a request may sleep in pool_sleep, which runs check_requests:
\* the nested failover() returns at once because main is switching.
NestedCheckRequests ==
  /\ MainAt("handle")
  /\ sigusr1
  /\ sigusr1' = FALSE
  /\ signalFlag' = FALSE
  /\ UNCHANGED <<shared, local, main, history>>

\* Mutant: the flag is lowered only after the semaphore was given back.
QueueEmptyLateReset ==
  /\ MainAt("dequeue")
  /\ tail = head
  /\ sem' = Nobody
  /\ mpc' = "relock"
  /\ UNCHANGED <<ring, head, tail, switching, local, signals, processState,
                 mret, restartPcp, history>>

QueueEmpty ==
  /\ MainAt("dequeue")
  /\ tail = head
  /\ switching' = FALSE
  /\ sem' = Nobody
  /\ mpc' = "relock"
  /\ UNCHANGED <<ring, head, tail, local, signals, processState, mret,
                 restartPcp, history>>

\* "We are almost done. Unlock flags.": the flags are cleared once more.
LockForReset ==
  /\ MainAt("relock")
  /\ sem = Nobody
  /\ sem' = Main
  /\ mpc' = "reset"
  /\ UNCHANGED <<ring, head, tail, switching, local, signals, processState,
                 mret, restartPcp, history>>

ResetSwitching ==
  /\ MainAt("reset")
  /\ switching' = FALSE
  /\ sem' = Nobody
  /\ mpc' = "notice"
  /\ UNCHANGED <<ring, head, tail, local, signals, processState, mret,
                 restartPcp, history>>

\* exec_notice_pcp_child: if a request was completed the PCP child is told
\* to end, waited for and forked again.
NoticePcpChild ==
  /\ MainAt("notice")
  /\ mpc' = IF restartPcp THEN "waitpid" ELSE mret
  /\ UNCHANGED <<shared, local, signals, processState, mret, restartPcp,
                 history>>

ReapPcpChild ==
  /\ MainAt("waitpid")
  /\ PcpChildExits
  /\ mpc' = mret
  /\ UNCHANGED <<shared, local, signals, processState, mret, restartPcp,
                 history>>

MainStep ==
  \/ CallFailover
  \/ StartSleeping
  \/ TakeSigusr1
  \/ FailoverInterrupt
  \/ NoFailoverInterrupt
  \/ EnterFailover
  \/ LockForDequeue
  \/ Dequeue
  \/ \E completed \in BOOLEAN : HandleRequest(completed)
  \/ QueueEmpty
  \/ LockForReset
  \/ ResetSwitching
  \/ NoticePcpChild
  \/ ReapPcpChild

Next ==
  \/ \E p \in Procs, r \in Requests : Register(p, r)
  \/ \E p \in Procs : RegisterStep(p)
  \/ MainStep
  \/ NestedCheckRequests

Spec == Init /\ [][Next]_vars

\* A process inside register_node_operation_request goes on running, and so
\* does the main process; nobody has to issue a request.
FairSpec ==
  /\ Spec
  /\ \A p \in Procs : WF_vars(RegisterStep(p))
  /\ WF_vars(MainStep)

-----------------------------------------------------------------------------
(* Properties                                                              *)

Filling == \E p \in Procs : pc[p] = "fill"

\* The last slot that holds a whole request: between request_queue_tail++
\* and the end of the memcpy the slot at the tail is not yet written.
LastFilled == IF Filling THEN tail - 1 ELSE tail

InLoop == mpc \in {"lock", "dequeue", "handle"}

\* Type invariant of the queue, the registration steps and the main process.
TypeOK ==
  /\ ring \in [0..(QueueSize - 1) -> Requests \cup {NoRequest}]
  /\ head \in Int /\ head >= -1
  /\ tail \in Int /\ tail >= -1
  /\ switching \in BOOLEAN
  /\ sem \in Procs \cup {Nobody}
  /\ pc \in [Procs -> ProcStates]
  /\ arg \in [Procs -> Requests \cup {NoRequest}]
  /\ inProgress \in [Procs -> BOOLEAN]
  /\ signalFlag \in BOOLEAN
  /\ sigusr1 \in BOOLEAN
  /\ processState \in {"INITIALIZING", "SLEEPING"}
  /\ mpc \in MainStates
  /\ mret \in MainStates
  /\ restartPcp \in BOOLEAN
  /\ accepted \in Seq([req : Requests, at : {"INITIALIZING", "SLEEPING"}])
  /\ handled \in Seq(Requests)

\* The ring never overwrites a request that failover() has not copied: at
\* most QueueSize requests wait, and slot k % QueueSize still holds the k-th
\* request accepted, for every k the main process has yet to take.
SlotsIntact ==
  /\ head <= LastFilled
  /\ tail - head <= QueueSize
  /\ \A k \in (head + 1)..LastFilled :
        ring[k % QueueSize] = accepted[k + 1].req

\* What the main process has handled is, in order and without a gap, what
\* was accepted first: no request is lost, repeated or overtaken.
HandledInOrder ==
  /\ Len(handled) = head + 1
  /\ Len(accepted) = LastFilled + 1
  /\ \A k \in 1..Len(handled) : handled[k] = accepted[k].req

\* A request accepted once start-up is over is waiting in the ring.
Unserved ==
  \E k \in (Len(handled) + 1)..Len(accepted) : accepted[k].at = "SLEEPING"

\* Somebody is about to wake main up, or main is about to look at the queue.
WakeupComing ==
  \/ mpc \in {"enter", "lock", "dequeue", "handle"}
  \/ \E p \in Procs : pc[p] = "notify" /\ ~inProgress[p]
  \/ /\ signalFlag
     /\ \/ sigusr1
        \/ mpc = "interrupt"
        \/ \E p \in Procs : pc[p] = "kill"

\* No lost wakeup: register_node_operation_request skips the signal when it
\* reads switching = true, and failover() lowers the flag only when it sees
\* the queue empty, both under REQUEST_INFO_SEM; so an accepted request never
\* waits without somebody who will make main look at the queue.
NoLostWakeup == Unserved => WakeupComing

\* Every request accepted after start-up is eventually taken by failover(),
\* whatever main was doing when the request came in.
EventuallyHandled ==
  \A k \in 1..MaxRequests :
    (Len(accepted) >= k /\ accepted[k].at = "SLEEPING") ~> (Len(handled) >= k)

\* exec_notice_pcp_child's comment on its SIGUSR1 is "Send restart request to
\* pcp child": the child ends and the wait for it in failover() is over.
PcpWaitEnds == (mpc = "waitpid") ~> (mpc # "waitpid")

\* The ring buffer implements the abstract queue: the waiting requests are
\* the filled slots between the two ends.
Queue ==
  INSTANCE NodeOperationQueue WITH
    Capacity <- QueueSize,
    waiting <- [i \in 1..(LastFilled - head) |-> ring[(head + i) % QueueSize]],
    taken <- handled

\* register_node_operation_request and the dequeue in failover() implement
\* the abstract first-in first-out queue.
ImplementsQueue == Queue!Spec

-----------------------------------------------------------------------------
(* The inductive invariant behind the safety properties                    *)

\* Who is inside a section guarded by REQUEST_INFO_SEM.
InSection(p) ==
  \/ pc[p] \in {"check", "fill"}
  \/ p = Main /\ mpc \in {"dequeue", "reset"}

SemHeld == \A p \in Procs : InSection(p) <=> sem = p

\* Main registers only where the code does, and sees its own failover().
MainRegisters ==
  /\ pc[Main] # "idle" => mpc \in {"pause", "interrupt", "handle"}
  /\ pc[Main] # "kill"
  /\ pc[Main] = "notify" /\ mpc = "handle" => inProgress[Main]
  /\ mret \in {"pause", "interrupt"}

ArgGiven ==
  \A p \in Procs : pc[p] # "idle" => arg[p] \in Requests

SwitchingInLoop == switching <=> InLoop

StartedUp ==
  \A k \in 1..Len(accepted) :
    accepted[k].at = "SLEEPING" => processState = "SLEEPING"

IndInv ==
  /\ TypeOK
  /\ SemHeld
  /\ MainRegisters
  /\ ArgGiven
  /\ SwitchingInLoop
  /\ StartedUp
  /\ SlotsIntact
  /\ HandledInOrder
  /\ NoLostWakeup
=============================================================================
