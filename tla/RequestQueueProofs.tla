------------------------ MODULE RequestQueueProofs ------------------------
(***************************************************************************)
(* Proofs about RequestQueue for any set of requesters, any ring size and  *)
(* any number of requests.                                                 *)
(***************************************************************************)
EXTENDS RequestQueue, SequenceTheorems, TLAPS

\* The provers a step is tried with, and the seconds each may take
USE ZenonT(2), SMTT(20), ZenonT(20)

\* The shared memory that initialize_shared_mem_objects sets up satisfies the
\* inductive invariant.
LEMMA InitIndInv == Init => IndInv
<1> SUFFICES ASSUME Init PROVE IndInv
  OBVIOUS
<1> USE RequestQueueAssumption DEF RequestQueueAssumption
<1>1. TypeOK
  BY EmptySeq DEF Init, TypeOK, ProcStates, MainStates, Procs
<1>2. SemHeld /\ MainRegisters /\ ArgGiven /\ SwitchingInLoop
  BY DEF Init, SemHeld, InSection, MainRegisters, ArgGiven, SwitchingInLoop,
         InLoop, Procs
<1>3. StartedUp /\ NoLostWakeup
  BY DEF Init, StartedUp, NoLostWakeup, Unserved
<1>4. SlotsIntact /\ HandledInOrder
  BY DEF Init, SlotsIntact, HandledInOrder, LastFilled, Filling, Procs
<1> QED
  BY <1>1, <1>2, <1>3, <1>4 DEF IndInv

\* Two positions less than a ring apart never share a slot.
LEMMA SlotsDiffer ==
  ASSUME NEW a \in Nat, NEW b \in Nat, NEW n \in Nat \ {0},
         a < b, b - a < n
  PROVE  a % n # b % n
<1> DEFINE qa == a \div n
           qb == b \div n
<1>1. /\ qa \in Int /\ qb \in Int
      /\ a = n * qa + (a % n)
      /\ b = n * qb + (b % n)
      /\ a % n \in 0..(n - 1)
      /\ b % n \in 0..(n - 1)
  OBVIOUS
<1>2. SUFFICES ASSUME a % n = b % n PROVE FALSE
  OBVIOUS
<1> HIDE DEF qa, qb
<1>3. n * (qb - qa) = b - a
  BY <1>1, <1>2
<1>4. CASE qb - qa >= 1
  <2>1. n * (qb - qa) >= n
    BY <1>1, <1>4
  <2> QED BY <2>1, <1>3
<1>5. CASE qb - qa <= 0
  <2>1. n * (qb - qa) <= 0
    BY <1>1, <1>5
  <2> QED BY <2>1, <1>3
<1> QED BY <1>1, <1>4, <1>5

\* The ring and the histories stay as they are, and no slot is begun.
LEMMA SlotsFrame ==
  ASSUME SlotsIntact, HandledInOrder, Filling' = Filling,
         UNCHANGED <<ring, head, tail, history>>
  PROVE  SlotsIntact' /\ HandledInOrder'
BY DEF SlotsIntact, HandledInOrder, LastFilled, history

\* The test for a full queue without the semaphore keeps the invariant.
LEMMA RegisterInv ==
  ASSUME IndInv, NEW p \in Procs, NEW r \in Requests, Register(p, r)
  PROVE  IndInv'
<1> USE RequestQueueAssumption DEF IndInv
<1>1. TypeOK'
  BY DEF TypeOK, Register, Full, MayRegister, ProcStates, shared, signals,
         main, history
<1>2. SemHeld' /\ MainRegisters' /\ ArgGiven'
  BY DEF TypeOK, Register, Full, MayRegister, SemHeld, InSection,
         MainRegisters, ArgGiven, Procs, shared, signals, main, history
<1>3. SwitchingInLoop' /\ StartedUp'
  BY DEF TypeOK, Register, Full, MayRegister, SwitchingInLoop, InLoop,
         StartedUp, shared, signals, main, history
<1>4. SlotsIntact' /\ HandledInOrder'
  <2>1. Filling' = Filling
    BY DEF TypeOK, Register, Full, MayRegister, Filling, shared, signals,
           main, history
  <2> QED BY <2>1, SlotsFrame DEF Register, shared, history
<1>5. NoLostWakeup'
  BY DEF TypeOK, Register, Full, MayRegister, NoLostWakeup, Unserved,
         WakeupComing, shared, signals, main, history
<1> QED BY <1>1, <1>2, <1>3, <1>4, <1>5

\* So does taking REQUEST_INFO_SEM to register a request,
LEMMA LockQueueInv ==
  ASSUME IndInv, NEW p \in Procs, LockQueue(p)
  PROVE  IndInv'
<1> USE RequestQueueAssumption DEF IndInv
<1>1. TypeOK'
  BY DEF TypeOK, LockQueue, ProcStates, Procs, signals, main, history
<1>2. SemHeld' /\ MainRegisters' /\ ArgGiven'
  BY DEF TypeOK, LockQueue, SemHeld, InSection, MainRegisters, ArgGiven,
         Procs, signals, main, history
<1>3. SwitchingInLoop' /\ StartedUp'
  BY DEF TypeOK, LockQueue, SwitchingInLoop, InLoop, StartedUp, signals,
         main, history
<1>4. SlotsIntact' /\ HandledInOrder'
  <2>1. Filling' = Filling
    BY DEF TypeOK, LockQueue, Filling, signals, main, history
  <2> QED BY <2>1, SlotsFrame DEF LockQueue, shared, history
<1>5. NoLostWakeup'
  BY DEF TypeOK, LockQueue, NoLostWakeup, Unserved, WakeupComing, signals,
         main, history
<1> QED BY <1>1, <1>2, <1>3, <1>4, <1>5

\* refusing a request because the queue filled up meanwhile,
LEMMA RefuseFullInv ==
  ASSUME IndInv, NEW p \in Procs, RefuseFull(p)
  PROVE  IndInv'
<1> USE RequestQueueAssumption DEF IndInv
<1>1. TypeOK'
  BY DEF TypeOK, RefuseFull, Return, Full, ProcStates, Procs, signals, main,
         history
<1>2. SemHeld' /\ MainRegisters' /\ ArgGiven'
  BY DEF TypeOK, RefuseFull, Return, Full, SemHeld, InSection, MainRegisters,
         ArgGiven, Procs, signals, main, history
<1>3. SwitchingInLoop' /\ StartedUp'
  BY DEF TypeOK, RefuseFull, Return, Full, SwitchingInLoop, InLoop,
         StartedUp, signals, main, history
<1>4. SlotsIntact' /\ HandledInOrder'
  <2>1. Filling' = Filling
    BY DEF TypeOK, RefuseFull, Return, Full, Filling, signals, main, history
  <2> QED BY <2>1, SlotsFrame DEF RefuseFull, shared, history
<1>5. NoLostWakeup'
  BY DEF TypeOK, RefuseFull, Return, Full, NoLostWakeup, Unserved,
         WakeupComing, signals, main, history
<1> QED BY <1>1, <1>2, <1>3, <1>4, <1>5

\* advancing request_queue_tail before the slot is written,
LEMMA AdvanceTailInv ==
  ASSUME IndInv, NEW p \in Procs, AdvanceTail(p)
  PROVE  IndInv'
<1> USE RequestQueueAssumption DEF IndInv
<1>1. TypeOK'
  BY DEF TypeOK, AdvanceTail, Full, ProcStates, signals, main, history
<1>2. SemHeld' /\ MainRegisters' /\ ArgGiven'
  BY DEF TypeOK, AdvanceTail, Full, SemHeld, InSection, MainRegisters,
         ArgGiven, Procs, signals, main, history
<1>3. SwitchingInLoop' /\ StartedUp'
  BY ZenonT(20) DEF TypeOK, AdvanceTail, Full, SwitchingInLoop, InLoop, StartedUp,
         signals, main, history
<1>4. SlotsIntact' /\ HandledInOrder'
  <2>1. ~Filling /\ Filling'
    BY DEF TypeOK, AdvanceTail, Filling, SemHeld, InSection
  <2>2. LastFilled' = LastFilled
    BY <2>1 DEF TypeOK, AdvanceTail, LastFilled
  <2>3. tail' - head' <= QueueSize
    BY DEF TypeOK, AdvanceTail, Full, SlotsIntact
  <2>4. SlotsIntact'
    BY <2>2, <2>3 DEF AdvanceTail, SlotsIntact, history
  <2>5. HandledInOrder'
    BY <2>2 DEF AdvanceTail, HandledInOrder, history
  <2> QED BY <2>4, <2>5
<1>5. NoLostWakeup'
  BY DEF TypeOK, AdvanceTail, Full, NoLostWakeup, Unserved, WakeupComing,
         signals, main, history
<1> QED BY <1>1, <1>2, <1>3, <1>4, <1>5

\* What a registration adds to the history.
LEMMA RequestAppended ==
  ASSUME IndInv, NEW p \in Procs, FillSlot(p)
  PROVE  /\ Len(accepted') = Len(accepted) + 1
         /\ accepted'[Len(accepted) + 1].req = arg[p]
         /\ accepted'[Len(accepted) + 1].at = processState
         /\ \A k \in 1..Len(accepted) : accepted'[k] = accepted[k]
<1>1. [req |-> arg[p], at |-> processState]
        \in [req : Requests, at : {"INITIALIZING", "SLEEPING"}]
  BY DEF IndInv, TypeOK, ArgGiven, FillSlot
<1> QED
  BY <1>1, AppendProperties DEF IndInv, TypeOK, FillSlot

\* writing the slot and reading switching, which ends the section,
LEMMA FillSlotInv ==
  ASSUME IndInv, NEW p \in Procs, FillSlot(p)
  PROVE  IndInv'
<1> USE RequestQueueAssumption DEF IndInv
<1>1. TypeOK'
  <2>1. arg[p] \in Requests
    BY DEF FillSlot, ArgGiven
  <2>2. accepted' \in Seq([req : Requests, at : {"INITIALIZING", "SLEEPING"}])
    BY <2>1, AppendProperties DEF TypeOK, FillSlot
  <2> QED
    BY <2>1, <2>2 DEF TypeOK, FillSlot, ProcStates, signals, main
<1>2. SemHeld' /\ MainRegisters' /\ ArgGiven'
  BY DEF TypeOK, FillSlot, SemHeld, InSection, MainRegisters, ArgGiven,
         SwitchingInLoop, InLoop, Procs, signals, main
<1>3. SwitchingInLoop' /\ StartedUp'
  <2>1. SwitchingInLoop'
    BY DEF FillSlot, SwitchingInLoop, InLoop, main
  <2>2. ASSUME NEW k \in 1..Len(accepted'), accepted'[k].at = "SLEEPING"
        PROVE  processState = "SLEEPING"
    <3>1. CASE k \in 1..Len(accepted)
      BY <2>2, <3>1, RequestAppended DEF StartedUp
    <3>2. CASE k = Len(accepted) + 1
      BY <2>2, <3>2, RequestAppended
    <3> QED
      BY <3>1, <3>2, RequestAppended, LenProperties DEF TypeOK
  <2> QED
    BY <2>1, <2>2 DEF FillSlot, StartedUp, main
<1>4. SlotsIntact' /\ HandledInOrder'
  <2>1. Filling /\ ~Filling'
    BY DEF TypeOK, FillSlot, Filling, SemHeld, InSection
  <2>2. /\ LastFilled = tail - 1
        /\ LastFilled' = tail
        /\ tail' = tail /\ head' = head
        /\ Len(accepted) = tail /\ tail \in Nat
        /\ head < tail /\ tail - head <= QueueSize
    BY <2>1, LenProperties
       DEF TypeOK, FillSlot, LastFilled, SlotsIntact, HandledInOrder
  <2>3. /\ Len(accepted') = tail + 1
        /\ accepted'[tail + 1].req = arg[p]
        /\ \A k \in 1..tail : accepted'[k] = accepted[k]
    BY <2>2, RequestAppended
  <2>4. tail % QueueSize \in 0..(QueueSize - 1)
    BY <2>2
  <2>5. ring'[tail % QueueSize] = arg[p]
    BY <2>4 DEF TypeOK, FillSlot
  <2>6. ASSUME NEW k \in (head + 1)..(tail - 1)
        PROVE  ring'[k % QueueSize] = accepted'[k + 1].req
    <3>1. k \in Nat /\ k < tail /\ tail - k < QueueSize /\ k + 1 \in 1..tail
      BY <2>2 DEF TypeOK
    <3>2. k % QueueSize # tail % QueueSize
      BY <2>2, <3>1, SlotsDiffer
    <3>3. ring'[k % QueueSize] = ring[k % QueueSize]
      BY <3>1, <3>2 DEF TypeOK, FillSlot
    <3> QED
      BY <2>2, <2>3, <3>1, <3>3 DEF SlotsIntact
  <2>7. SlotsIntact'
    BY <2>2, <2>3, <2>5, <2>6 DEF TypeOK, SlotsIntact
  <2>8. HandledInOrder'
    BY <2>2, <2>3 DEF TypeOK, FillSlot, HandledInOrder
  <2> QED BY <2>7, <2>8
<1>5. NoLostWakeup'
  <2>1. CASE switching
    BY <2>1 DEF FillSlot, NoLostWakeup, WakeupComing, SwitchingInLoop, InLoop,
                main
  <2>2. CASE ~switching
    <3>1. pc'[p] = "notify" /\ ~inProgress'[p]
      BY <2>2 DEF TypeOK, FillSlot
    <3> QED BY <3>1 DEF NoLostWakeup, WakeupComing
  <2> QED BY <2>1, <2>2
<1> QED BY <1>1, <1>2, <1>3, <1>4, <1>5

\* leaving the request to the failover() that is running,
LEMMA LeaveToFailoverInv ==
  ASSUME IndInv, NEW p \in Procs, LeaveToFailover(p)
  PROVE  IndInv'
<1> USE RequestQueueAssumption DEF IndInv
<1>1. TypeOK'
  BY DEF TypeOK, LeaveToFailover, Return, ProcStates, shared, signals, main,
         history
<1>2. SemHeld' /\ MainRegisters' /\ ArgGiven'
  BY ZenonT(20) DEF TypeOK, LeaveToFailover, Return, SemHeld, InSection, MainRegisters,
         ArgGiven, Procs, shared, signals, main, history
<1>3. SwitchingInLoop' /\ StartedUp'
  BY DEF TypeOK, LeaveToFailover, Return, SwitchingInLoop, InLoop, StartedUp,
         shared, signals, main, history
<1>4. SlotsIntact' /\ HandledInOrder'
  <2>1. Filling' = Filling
    BY DEF TypeOK, LeaveToFailover, Return, Filling, shared, signals, main,
           history
  <2> QED BY <2>1, SlotsFrame DEF LeaveToFailover, shared, history
<1>5. NoLostWakeup'
  BY DEF TypeOK, LeaveToFailover, Return, NoLostWakeup, Unserved,
         WakeupComing, shared, signals, main, history
<1> QED BY <1>1, <1>2, <1>3, <1>4, <1>5

\* setting the reason for the signal,
LEMMA SetSignalFlagInv ==
  ASSUME IndInv, NEW p \in Procs, SetSignalFlag(p)
  PROVE  IndInv'
<1> USE RequestQueueAssumption DEF IndInv
<1>1. TypeOK'
  BY DEF TypeOK, SetSignalFlag, ProcStates, shared, main, history
<1>2. SemHeld' /\ MainRegisters' /\ ArgGiven'
  BY DEF TypeOK, SetSignalFlag, SemHeld, InSection, MainRegisters, ArgGiven,
         Procs, shared, main, history
<1>3. SwitchingInLoop' /\ StartedUp'
  BY DEF TypeOK, SetSignalFlag, SwitchingInLoop, InLoop, StartedUp, shared,
         main, history
<1>4. SlotsIntact' /\ HandledInOrder'
  <2>1. Filling' = Filling
    BY DEF TypeOK, SetSignalFlag, Filling, shared, main, history
  <2> QED BY <2>1, SlotsFrame DEF SetSignalFlag, shared, history
<1>5. NoLostWakeup'
  BY DEF TypeOK, SetSignalFlag, NoLostWakeup, Unserved, WakeupComing, shared,
         main, history
<1> QED BY <1>1, <1>2, <1>3, <1>4, <1>5

\* sending SIGUSR1 to the main process,
LEMMA SignalParentInv ==
  ASSUME IndInv, NEW p \in Procs, SignalParent(p)
  PROVE  IndInv'
<1> USE RequestQueueAssumption DEF IndInv
<1>1. TypeOK'
  BY DEF TypeOK, SignalParent, Return, ProcStates, shared, main, history
<1>2. SemHeld' /\ MainRegisters' /\ ArgGiven'
  BY DEF TypeOK, SignalParent, Return, SemHeld, InSection, MainRegisters,
         ArgGiven, Procs, shared, main, history
<1>3. SwitchingInLoop' /\ StartedUp'
  BY ZenonT(20) DEF TypeOK, SignalParent, Return, SwitchingInLoop, InLoop, StartedUp,
         shared, main, history
<1>4. SlotsIntact' /\ HandledInOrder'
  <2>1. Filling' = Filling
    BY DEF TypeOK, SignalParent, Return, Filling, shared, main, history
  <2> QED BY <2>1, SlotsFrame DEF SignalParent, shared, history
<1>5. NoLostWakeup'
  BY DEF TypeOK, SignalParent, Return, NoLostWakeup, Unserved, WakeupComing,
         shared, main, history
<1> QED BY <1>1, <1>2, <1>3, <1>4, <1>5

\* and the main process calling failover() for its own request.
LEMMA CallFailoverInv ==
  ASSUME IndInv, CallFailover
  PROVE  IndInv'
<1> USE RequestQueueAssumption DEF IndInv
<1>1. TypeOK'
  BY DEF TypeOK, CallFailover, Return, ProcStates, MainStates, Procs, shared,
         signals, history
<1>2. SemHeld' /\ MainRegisters' /\ ArgGiven'
  BY DEF TypeOK, CallFailover, Return, SemHeld, InSection, MainRegisters,
         ArgGiven, SwitchingInLoop, InLoop, Procs, shared, signals, history
<1>3. SwitchingInLoop' /\ StartedUp'
  BY DEF TypeOK, CallFailover, Return, SwitchingInLoop, InLoop, StartedUp,
         MainRegisters, shared, signals, history
<1>4. SlotsIntact' /\ HandledInOrder'
  <2>1. Filling' = Filling
    BY DEF TypeOK, CallFailover, Return, Filling, shared, signals, history
  <2> QED BY <2>1, SlotsFrame DEF CallFailover, shared, history
<1>5. NoLostWakeup'
  BY DEF TypeOK, CallFailover, Return, NoLostWakeup, Unserved, WakeupComing,
         shared, signals, history
<1> QED BY <1>1, <1>2, <1>3, <1>4, <1>5

\* The end of start-up keeps the invariant.
LEMMA StartSleepingInv ==
  ASSUME IndInv, StartSleeping
  PROVE  IndInv'
<1> USE RequestQueueAssumption DEF IndInv
<1>1. TypeOK'
  BY DEF TypeOK, StartSleeping, MainAt, shared, local, signals, history
<1>2. SemHeld' /\ MainRegisters' /\ ArgGiven'
  BY DEF TypeOK, StartSleeping, MainAt, SemHeld, InSection, MainRegisters,
         ArgGiven, Procs, shared, local, signals, history
<1>3. SwitchingInLoop' /\ StartedUp'
  BY DEF TypeOK, StartSleeping, MainAt, SwitchingInLoop, InLoop, StartedUp,
         MainRegisters, shared, local, signals, history
<1>4. SlotsIntact' /\ HandledInOrder'
  <2>1. Filling' = Filling
    BY DEF StartSleeping, MainAt, Filling, shared, local, signals, history
  <2> QED BY <2>1, SlotsFrame DEF StartSleeping, shared, history
<1>5. NoLostWakeup'
  BY DEF TypeOK, StartSleeping, MainAt, NoLostWakeup, Unserved, WakeupComing,
         StartedUp, shared, local, signals, history
<1> QED BY <1>1, <1>2, <1>3, <1>4, <1>5

\* So do check_requests taking SIGUSR1,
LEMMA TakeSigusr1Inv ==
  ASSUME IndInv, TakeSigusr1
  PROVE  IndInv'
<1> USE RequestQueueAssumption DEF IndInv
<1>1. TypeOK'
  BY ZenonT(20) DEF TypeOK, TakeSigusr1, MainAt, ProcStates, MainStates, shared, local,
         history
<1>2. SemHeld' /\ MainRegisters' /\ ArgGiven'
  BY DEF TypeOK, TakeSigusr1, MainAt, SemHeld, InSection, MainRegisters,
         ArgGiven, Procs, shared, local, history
<1>3. SwitchingInLoop' /\ StartedUp'
  BY DEF TypeOK, TakeSigusr1, MainAt, SwitchingInLoop, InLoop, StartedUp,
         MainRegisters, shared, local, history
<1>4. SlotsIntact' /\ HandledInOrder'
  <2>1. Filling' = Filling
    BY DEF TypeOK, TakeSigusr1, MainAt, Filling, shared, local, history
  <2> QED BY <2>1, SlotsFrame DEF TakeSigusr1, shared, history
<1>5. NoLostWakeup'
  BY DEF TypeOK, TakeSigusr1, MainAt, NoLostWakeup, Unserved, WakeupComing,
         shared, local, history
<1> QED BY <1>1, <1>2, <1>3, <1>4, <1>5

\* sigusr1_interrupt_processor finding and clearing the reason,
LEMMA FailoverInterruptInv ==
  ASSUME IndInv, FailoverInterrupt
  PROVE  IndInv'
<1> USE RequestQueueAssumption DEF IndInv
<1>1. TypeOK'
  BY ZenonT(20) DEF TypeOK, FailoverInterrupt, MainAt, ProcStates, MainStates, shared,
         local, history
<1>2. SemHeld' /\ MainRegisters' /\ ArgGiven'
  BY DEF TypeOK, FailoverInterrupt, MainAt, SemHeld, InSection,
         MainRegisters, ArgGiven, Procs, shared, local, history
<1>3. SwitchingInLoop' /\ StartedUp'
  BY DEF TypeOK, FailoverInterrupt, MainAt, SwitchingInLoop, InLoop,
         StartedUp, MainRegisters, shared, local, history
<1>4. SlotsIntact' /\ HandledInOrder'
  <2>1. Filling' = Filling
    BY DEF TypeOK, FailoverInterrupt, MainAt, Filling, shared, local, history
  <2> QED BY <2>1, SlotsFrame DEF FailoverInterrupt, shared, history
<1>5. NoLostWakeup'
  <2>1. CASE processState = "SLEEPING"
    BY <2>1 DEF TypeOK, FailoverInterrupt, NoLostWakeup, WakeupComing
  <2>2. CASE processState = "INITIALIZING"
    BY <2>2 DEF TypeOK, FailoverInterrupt, NoLostWakeup, Unserved, StartedUp,
                history
  <2> QED BY <2>1, <2>2 DEF TypeOK
<1> QED BY <1>1, <1>2, <1>3, <1>4, <1>5

\* or not finding it,
LEMMA NoFailoverInterruptInv ==
  ASSUME IndInv, NoFailoverInterrupt
  PROVE  IndInv'
<1> USE RequestQueueAssumption DEF IndInv
<1>1. TypeOK'
  BY DEF TypeOK, NoFailoverInterrupt, MainAt, ProcStates, MainStates, shared,
         local, signals, history
<1>2. SemHeld' /\ MainRegisters' /\ ArgGiven'
  BY DEF TypeOK, NoFailoverInterrupt, MainAt, SemHeld, InSection,
         MainRegisters, ArgGiven, Procs, shared, local, signals, history
<1>3. SwitchingInLoop' /\ StartedUp'
  BY DEF TypeOK, NoFailoverInterrupt, MainAt, SwitchingInLoop, InLoop,
         StartedUp, MainRegisters, shared, local, signals, history
<1>4. SlotsIntact' /\ HandledInOrder'
  <2>1. Filling' = Filling
    BY DEF TypeOK, NoFailoverInterrupt, MainAt, Filling, shared, local,
           signals, history
  <2> QED BY <2>1, SlotsFrame DEF NoFailoverInterrupt, shared, history
<1>5. NoLostWakeup'
  BY DEF TypeOK, NoFailoverInterrupt, MainAt, NoLostWakeup, Unserved,
         WakeupComing, shared, local, signals, history
<1> QED BY <1>1, <1>2, <1>3, <1>4, <1>5

\* failover() raising switching without the semaphore,
LEMMA EnterFailoverInv ==
  ASSUME IndInv, EnterFailover
  PROVE  IndInv'
<1> USE RequestQueueAssumption DEF IndInv
<1>1. TypeOK'
  BY ZenonT(20) DEF TypeOK, EnterFailover, MainAt, ProcStates, MainStates, local,
         signals, history
<1>2. SemHeld' /\ MainRegisters' /\ ArgGiven'
  BY DEF TypeOK, EnterFailover, MainAt, SemHeld, InSection, MainRegisters,
         ArgGiven, Procs, local, signals, history
<1>3. SwitchingInLoop' /\ StartedUp'
  BY DEF TypeOK, EnterFailover, MainAt, SwitchingInLoop, InLoop, StartedUp,
         MainRegisters, local, signals, history
<1>4. SlotsIntact' /\ HandledInOrder'
  <2>1. Filling' = Filling
    BY DEF TypeOK, EnterFailover, MainAt, Filling, local, signals, history
  <2> QED BY <2>1, SlotsFrame DEF EnterFailover, shared, history
<1>5. NoLostWakeup'
  BY DEF TypeOK, EnterFailover, MainAt, NoLostWakeup, Unserved, WakeupComing,
         local, signals, history
<1> QED BY <1>1, <1>2, <1>3, <1>4, <1>5

\* taking the semaphore to look at the queue,
LEMMA LockForDequeueInv ==
  ASSUME IndInv, LockForDequeue
  PROVE  IndInv'
<1> USE RequestQueueAssumption DEF IndInv
<1>1. TypeOK'
  BY DEF TypeOK, LockForDequeue, MainAt, ProcStates, MainStates, Procs,
         local, signals, history
<1>2. SemHeld' /\ MainRegisters' /\ ArgGiven'
  BY DEF TypeOK, LockForDequeue, MainAt, SemHeld, InSection, MainRegisters,
         ArgGiven, Procs, local, signals, history
<1>3. SwitchingInLoop' /\ StartedUp'
  BY DEF TypeOK, LockForDequeue, MainAt, SwitchingInLoop, InLoop, StartedUp,
         MainRegisters, local, signals, history
<1>4. SlotsIntact' /\ HandledInOrder'
  <2>1. Filling' = Filling
    BY DEF TypeOK, LockForDequeue, MainAt, Filling, local, signals, history
  <2> QED BY <2>1, SlotsFrame DEF LockForDequeue, shared, history
<1>5. NoLostWakeup'
  BY DEF TypeOK, LockForDequeue, MainAt, NoLostWakeup, Unserved,
         WakeupComing, local, signals, history
<1> QED BY <1>1, <1>2, <1>3, <1>4, <1>5

\* The slot that failover() copies is filled and holds the oldest request.
LEMMA NextRequest ==
  ASSUME IndInv, Dequeue
  PROVE  /\ ~Filling
         /\ head + 1 \in 0..tail
         /\ Len(accepted) = tail + 1
         /\ ring[(head + 1) % QueueSize] = accepted[head + 2].req
         /\ ring[(head + 1) % QueueSize] \in Requests
<1> USE RequestQueueAssumption DEF IndInv
<1>1. ~Filling
  BY DEF TypeOK, Dequeue, MainAt, Filling, SemHeld, InSection, Procs
<1>2. head + 1 \in 0..tail /\ LastFilled = tail /\ Len(accepted) = tail + 1
  BY <1>1 DEF TypeOK, Dequeue, LastFilled, SlotsIntact, HandledInOrder
<1>3. ring[(head + 1) % QueueSize] = accepted[head + 2].req
  <2>1. head + 1 \in (head + 1)..LastFilled /\ (head + 1) + 1 = head + 2
    BY <1>2 DEF TypeOK
  <2>2. ring[(head + 1) % QueueSize] = accepted[(head + 1) + 1].req
    BY <2>1 DEF SlotsIntact
  <2> QED BY <2>1, <2>2
<1>4. head + 2 \in 1..Len(accepted)
  BY <1>2 DEF TypeOK
<1>5. accepted[head + 2] \in [req : Requests, at : {"INITIALIZING", "SLEEPING"}]
  BY <1>4, ElementOfSeq, ZenonT(20) DEF TypeOK
<1> QED BY <1>1, <1>2, <1>3, <1>5

\* copying the request at the head out of the ring,
LEMMA DequeueInv ==
  ASSUME IndInv, Dequeue
  PROVE  IndInv'
<1> USE RequestQueueAssumption DEF IndInv
<1>1. TypeOK'
  <2>1. ring[(head + 1) % QueueSize] \in Requests
    BY NextRequest DEF TypeOK
  <2>2. handled' \in Seq(Requests)
    BY <2>1, AppendProperties DEF TypeOK, Dequeue
  <2> QED
    BY <2>2 DEF TypeOK, Dequeue, MainStates, local, signals
<1>2. SemHeld' /\ MainRegisters' /\ ArgGiven'
  BY DEF TypeOK, Dequeue, MainAt, SemHeld, InSection, MainRegisters,
         ArgGiven, Procs, local, signals
<1>3. SwitchingInLoop' /\ StartedUp'
  BY DEF TypeOK, Dequeue, MainAt, SwitchingInLoop, InLoop, StartedUp,
         MainRegisters, local, signals
<1>4. SlotsIntact' /\ HandledInOrder'
  <2>1. ~Filling /\ ~Filling' /\ LastFilled = tail /\ LastFilled' = tail
    BY NextRequest DEF Dequeue, Filling, LastFilled, local
  <2>2. /\ Len(handled') = Len(handled) + 1
        /\ handled'[Len(handled) + 1] = ring[(head + 1) % QueueSize]
        /\ \A k \in 1..Len(handled) : handled'[k] = handled[k]
    BY NextRequest, AppendProperties DEF TypeOK, Dequeue
  <2>3. SlotsIntact'
    <3>1. /\ head' <= LastFilled'
          /\ tail' - head' <= QueueSize
          /\ (head' + 1)..LastFilled' \subseteq (head + 1)..LastFilled
      BY <2>1, NextRequest DEF TypeOK, Dequeue, SlotsIntact
    <3> QED BY <3>1 DEF Dequeue, SlotsIntact
  <2>4. HandledInOrder'
    BY <2>1, <2>2, NextRequest, LenProperties
       DEF TypeOK, Dequeue, HandledInOrder
  <2> QED BY <2>3, <2>4
<1>5. NoLostWakeup'
  BY DEF TypeOK, Dequeue, MainAt, NoLostWakeup, Unserved, WakeupComing,
         local, signals
<1> QED BY <1>1, <1>2, <1>3, <1>4, <1>5

\* the body of the loop,
LEMMA HandleRequestInv ==
  ASSUME IndInv, NEW completed \in BOOLEAN, HandleRequest(completed)
  PROVE  IndInv'
<1> USE RequestQueueAssumption DEF IndInv
<1>1. TypeOK'
  BY DEF TypeOK, HandleRequest, MainAt, ProcStates, MainStates, shared,
         local, signals, history
<1>2. SemHeld' /\ MainRegisters' /\ ArgGiven'
  BY DEF TypeOK, HandleRequest, MainAt, SemHeld, InSection, MainRegisters,
         ArgGiven, Procs, shared, local, signals, history
<1>3. SwitchingInLoop' /\ StartedUp'
  BY DEF TypeOK, HandleRequest, MainAt, SwitchingInLoop, InLoop, StartedUp,
         MainRegisters, shared, local, signals, history
<1>4. SlotsIntact' /\ HandledInOrder'
  <2>1. Filling' = Filling
    BY DEF TypeOK, HandleRequest, MainAt, Filling, shared, local, signals,
           history
  <2> QED BY <2>1, SlotsFrame DEF HandleRequest, shared, history
<1>5. NoLostWakeup'
  BY DEF TypeOK, HandleRequest, MainAt, NoLostWakeup, Unserved, WakeupComing,
         shared, local, signals, history
<1> QED BY <1>1, <1>2, <1>3, <1>4, <1>5

\* a signal that is taken and dropped while a request is served,
LEMMA NestedCheckRequestsInv ==
  ASSUME IndInv, NestedCheckRequests
  PROVE  IndInv'
<1> USE RequestQueueAssumption DEF IndInv
<1>1. TypeOK'
  BY ZenonT(20) DEF TypeOK, NestedCheckRequests, MainAt, shared, local, main, history
<1>2. SemHeld' /\ MainRegisters' /\ ArgGiven'
  BY DEF TypeOK, NestedCheckRequests, MainAt, SemHeld, InSection,
         MainRegisters, ArgGiven, Procs, shared, local, main, history
<1>3. SwitchingInLoop' /\ StartedUp'
  BY DEF TypeOK, NestedCheckRequests, MainAt, SwitchingInLoop, InLoop,
         StartedUp, shared, local, main, history
<1>4. SlotsIntact' /\ HandledInOrder'
  <2>1. Filling' = Filling
    BY DEF NestedCheckRequests, MainAt, Filling, shared, local, main, history
  <2> QED BY <2>1, SlotsFrame DEF NestedCheckRequests, shared, history
<1>5. NoLostWakeup'
  BY DEF TypeOK, NestedCheckRequests, MainAt, NoLostWakeup, Unserved,
         WakeupComing, shared, local, main, history
<1> QED BY <1>1, <1>2, <1>3, <1>4, <1>5

\* lowering switching when the queue is seen empty,
LEMMA QueueEmptyInv ==
  ASSUME IndInv, QueueEmpty
  PROVE  IndInv'
<1> USE RequestQueueAssumption DEF IndInv
<1>1. TypeOK'
  BY ZenonT(20) DEF TypeOK, QueueEmpty, MainAt, ProcStates, MainStates, Procs, local,
         signals, history
<1>2. SemHeld' /\ MainRegisters' /\ ArgGiven'
  BY DEF TypeOK, QueueEmpty, MainAt, SemHeld, InSection, MainRegisters,
         ArgGiven, Procs, local, signals, history
<1>3. SwitchingInLoop' /\ StartedUp'
  BY DEF TypeOK, QueueEmpty, MainAt, SwitchingInLoop, InLoop, StartedUp,
         MainRegisters, local, signals, history
<1>4. SlotsIntact' /\ HandledInOrder'
  <2>1. Filling' = Filling
    BY DEF TypeOK, QueueEmpty, MainAt, Filling, local, signals, history
  <2> QED BY <2>1, SlotsFrame DEF QueueEmpty, shared, history
<1>5. NoLostWakeup'
  <2>1. ~Filling /\ LastFilled = head
    BY DEF TypeOK, QueueEmpty, MainAt, Filling, LastFilled, SemHeld, InSection,
           Procs
  <2>2. Len(handled) = Len(accepted)
    BY <2>1 DEF HandledInOrder
  <2> QED
    BY <2>2, LenProperties
       DEF TypeOK, QueueEmpty, NoLostWakeup, Unserved, history
<1> QED BY <1>1, <1>2, <1>3, <1>4, <1>5

\* taking the semaphore once more at the end,
LEMMA LockForResetInv ==
  ASSUME IndInv, LockForReset
  PROVE  IndInv'
<1> USE RequestQueueAssumption DEF IndInv
<1>1. TypeOK'
  BY DEF TypeOK, LockForReset, MainAt, ProcStates, MainStates, Procs, local,
         signals, history
<1>2. SemHeld' /\ MainRegisters' /\ ArgGiven'
  BY DEF TypeOK, LockForReset, MainAt, SemHeld, InSection, MainRegisters,
         ArgGiven, Procs, local, signals, history
<1>3. SwitchingInLoop' /\ StartedUp'
  BY DEF TypeOK, LockForReset, MainAt, SwitchingInLoop, InLoop, StartedUp,
         MainRegisters, local, signals, history
<1>4. SlotsIntact' /\ HandledInOrder'
  <2>1. Filling' = Filling
    BY DEF TypeOK, LockForReset, MainAt, Filling, local, signals, history
  <2> QED BY <2>1, SlotsFrame DEF LockForReset, shared, history
<1>5. NoLostWakeup'
  BY DEF TypeOK, LockForReset, MainAt, NoLostWakeup, Unserved, WakeupComing,
         local, signals, history
<1> QED BY <1>1, <1>2, <1>3, <1>4, <1>5

\* lowering the flags again,
LEMMA ResetSwitchingInv ==
  ASSUME IndInv, ResetSwitching
  PROVE  IndInv'
<1> USE RequestQueueAssumption DEF IndInv
<1>1. TypeOK'
  BY ZenonT(20) DEF TypeOK, ResetSwitching, MainAt, ProcStates, MainStates, Procs,
         local, signals, history
<1>2. SemHeld' /\ MainRegisters' /\ ArgGiven'
  BY DEF TypeOK, ResetSwitching, MainAt, SemHeld, InSection, MainRegisters,
         ArgGiven, Procs, local, signals, history
<1>3. SwitchingInLoop' /\ StartedUp'
  BY DEF TypeOK, ResetSwitching, MainAt, SwitchingInLoop, InLoop, StartedUp,
         MainRegisters, local, signals, history
<1>4. SlotsIntact' /\ HandledInOrder'
  <2>1. Filling' = Filling
    BY DEF TypeOK, ResetSwitching, MainAt, Filling, local, signals, history
  <2> QED BY <2>1, SlotsFrame DEF ResetSwitching, shared, history
<1>5. NoLostWakeup'
  BY DEF TypeOK, ResetSwitching, MainAt, NoLostWakeup, Unserved,
         WakeupComing, local, signals, history
<1> QED BY <1>1, <1>2, <1>3, <1>4, <1>5

\* the signal to the PCP child, and
LEMMA NoticePcpChildInv ==
  ASSUME IndInv, NoticePcpChild
  PROVE  IndInv'
<1> USE RequestQueueAssumption DEF IndInv
<1>1. TypeOK'
  BY DEF TypeOK, NoticePcpChild, MainAt, ProcStates, MainStates, shared,
         local, signals, history
<1>2. SemHeld' /\ MainRegisters' /\ ArgGiven'
  BY DEF TypeOK, NoticePcpChild, MainAt, SemHeld, InSection, MainRegisters,
         ArgGiven, Procs, shared, local, signals, history
<1>3. SwitchingInLoop' /\ StartedUp'
  BY DEF TypeOK, NoticePcpChild, MainAt, SwitchingInLoop, InLoop, StartedUp,
         MainRegisters, shared, local, signals, history
<1>4. SlotsIntact' /\ HandledInOrder'
  <2>1. Filling' = Filling
    BY DEF TypeOK, NoticePcpChild, MainAt, Filling, shared, local, signals,
           history
  <2> QED BY <2>1, SlotsFrame DEF NoticePcpChild, shared, history
<1>5. NoLostWakeup'
  BY DEF TypeOK, NoticePcpChild, MainAt, NoLostWakeup, Unserved,
         WakeupComing, shared, local, signals, history
<1> QED BY <1>1, <1>2, <1>3, <1>4, <1>5

\* the end of the wait for it.
LEMMA ReapPcpChildInv ==
  ASSUME IndInv, ReapPcpChild
  PROVE  IndInv'
<1> USE RequestQueueAssumption DEF IndInv
<1>1. TypeOK'
  BY DEF TypeOK, ReapPcpChild, MainAt, ProcStates, MainStates, shared, local,
         signals, history
<1>2. SemHeld' /\ MainRegisters' /\ ArgGiven'
  BY DEF TypeOK, ReapPcpChild, MainAt, SemHeld, InSection, MainRegisters,
         ArgGiven, Procs, shared, local, signals, history
<1>3. SwitchingInLoop' /\ StartedUp'
  BY DEF TypeOK, ReapPcpChild, MainAt, SwitchingInLoop, InLoop, StartedUp,
         MainRegisters, shared, local, signals, history
<1>4. SlotsIntact' /\ HandledInOrder'
  <2>1. Filling' = Filling
    BY DEF TypeOK, ReapPcpChild, MainAt, Filling, shared, local, signals,
           history
  <2> QED BY <2>1, SlotsFrame DEF ReapPcpChild, shared, history
<1>5. NoLostWakeup'
  BY DEF TypeOK, ReapPcpChild, MainAt, NoLostWakeup, Unserved, WakeupComing,
         shared, local, signals, history
<1> QED BY <1>1, <1>2, <1>3, <1>4, <1>5

\* A step that changes nothing keeps the invariant.
LEMMA StutterInv == ASSUME IndInv, UNCHANGED vars PROVE IndInv'
BY DEF IndInv, vars, shared, local, signals, main, history, TypeOK, SemHeld,
       InSection, MainRegisters, ArgGiven, SwitchingInLoop, InLoop, StartedUp,
       SlotsIntact, HandledInOrder, LastFilled, Filling, NoLostWakeup,
       Unserved, WakeupComing

\* IndInv is inductive: no step of a requester or of the main process, in
\* register_node_operation_request, sigusr1_interrupt_processor or
\* failover(), leaves it.
LEMMA NextIndInv == IndInv /\ [Next]_vars => IndInv'
<1> SUFFICES ASSUME IndInv, [Next]_vars PROVE IndInv'
  OBVIOUS
<1>1. CASE \E p \in Procs, r \in Requests : Register(p, r)
  BY <1>1, RegisterInv
<1>2. CASE \E p \in Procs : RegisterStep(p)
  BY <1>2, LockQueueInv, RefuseFullInv, AdvanceTailInv, FillSlotInv,
     LeaveToFailoverInv, SetSignalFlagInv, SignalParentInv DEF RegisterStep
<1>3. CASE MainStep
  BY <1>3, CallFailoverInv, StartSleepingInv, TakeSigusr1Inv,
     FailoverInterruptInv, NoFailoverInterruptInv, EnterFailoverInv,
     LockForDequeueInv, DequeueInv, HandleRequestInv, QueueEmptyInv,
     LockForResetInv, ResetSwitchingInv, NoticePcpChildInv, ReapPcpChildInv DEF MainStep
<1>4. CASE NestedCheckRequests
  BY <1>4, NestedCheckRequestsInv
<1>5. CASE UNCHANGED vars
  BY <1>5, StutterInv
<1> QED
  BY <1>1, <1>2, <1>3, <1>4, <1>5 DEF Next

\* The inductive invariant holds in every state that registration and
\* failover() reach.
THEOREM Invariance == Spec => []IndInv
BY InitIndInv, NextIndInv, PTL DEF Spec

\* Every variable of the queue, the registration steps and the main process
\* keeps its type, for any number of requesters and any ring size.
THEOREM TypeCorrect == Spec => []TypeOK
BY Invariance, PTL DEF IndInv

\* No slot of the ring is written while it holds a request that failover()
\* has not copied, for any ring size.
THEOREM SlotsStayIntact == Spec => []SlotsIntact
BY Invariance, PTL DEF IndInv

\* failover() takes requests in the order in which
\* register_node_operation_request accepted them, each exactly once.
THEOREM RequestsHandledInOrder == Spec => []HandledInOrder
BY Invariance, PTL DEF IndInv

\* A request accepted after start-up never waits without a wake-up of the
\* main process under way.
THEOREM WakeupNeverLost == Spec => []NoLostWakeup
BY Invariance, PTL DEF IndInv

-----------------------------------------------------------------------------
(* RequestQueue implements NodeOperationQueue: the ring buffer, the        *)
(* semaphore and the flags behave as a first-in first-out queue of at most *)
(* QueueSize requests.                                                     *)

\* The filled slots of the ring, oldest first, as the refinement maps them ...
InRing == [i \in 1..(LastFilled - head) |-> ring[(head + i) % QueueSize]]

\* ... and the requests accepted and not yet handled.
Pending ==
  [i \in 1..(Len(accepted) - Len(handled)) |-> accepted[Len(handled) + i].req]

\* The ring holds the requests accepted and not yet handled.
RingHoldsPending ==
  /\ InRing = Pending
  /\ Len(accepted) \in Nat /\ Len(handled) \in Nat
  /\ Len(handled) <= Len(accepted) /\ Len(accepted) - Len(handled) <= QueueSize
  /\ \A k \in 1..Len(accepted) : accepted[k].req \in Requests

\* The slots between the ends of the ring are those requests.
LEMMA RingContents == IndInv => RingHoldsPending
  <1> SUFFICES ASSUME IndInv PROVE RingHoldsPending
    OBVIOUS
  <1>1. Len(accepted) \in Nat /\ Len(handled) \in Nat
    BY DEF IndInv, TypeOK
  <1>2. /\ head \in Int /\ tail \in Int /\ LastFilled \in Int /\ head <= LastFilled
        /\ Len(handled) = head + 1 /\ Len(accepted) = LastFilled + 1
        /\ LastFilled - head <= QueueSize
    BY RequestQueueAssumption DEF IndInv, TypeOK, SlotsIntact, HandledInOrder, LastFilled
  <1>3. \A i \in 1..(LastFilled - head) :
           ring[(head + i) % QueueSize] = accepted[Len(handled) + i].req
    <2> TAKE i \in 1..(LastFilled - head)
    <2>1. head + i \in (head + 1)..LastFilled
      BY <1>2
    <2>2. ring[(head + i) % QueueSize] = accepted[head + i + 1].req
      BY <2>1 DEF IndInv, SlotsIntact
    <2>3. head + i + 1 = Len(handled) + i
      BY <1>2
    <2> QED BY <2>2, <2>3
  <1>4. LastFilled - head = Len(accepted) - Len(handled)
    BY <1>1, <1>2
  <1>5. InRing = Pending
    BY <1>3, <1>4 DEF InRing, Pending
  <1>6. \A k \in 1..Len(accepted) : accepted[k].req \in Requests
    <2> TAKE k \in 1..Len(accepted)
    <2> DEFINE A == [req : Requests, at : {"INITIALIZING", "SLEEPING"}]
    <2>1. accepted \in Seq(A)
      BY DEF IndInv, TypeOK
    <2>2. \A a \in A : a.req \in Requests
      OBVIOUS
    <2> HIDE DEF A
    <2> QED BY <2>1, <2>2
  <1> QED BY <1>1, <1>2, <1>5, <1>6 DEF RingHoldsPending

\* The same after a step.
LEMMA RingContentsNext == IndInv' => RingHoldsPending'
  BY RingContents, PTL

\* FillSlot, the end of register_node_operation_request, accepts a request.
LEMMA FillSlotAccepts ==
  ASSUME IndInv, IndInv', NEW p \in Procs, FillSlot(p)
  PROVE  \E r \in Requests : Queue!Accept(r)
  <1>1. RingHoldsPending /\ RingHoldsPending'
    BY RingContents, RingContentsNext
  <1>2. handled' = handled /\ arg[p] \in Requests
    BY DEF FillSlot, IndInv, ArgGiven
  <1>3. /\ Len(accepted') = Len(accepted) + 1
        /\ accepted'[Len(accepted) + 1].req = arg[p]
        /\ \A k \in 1..Len(accepted) : accepted'[k] = accepted[k]
    BY RequestAppended
  <1>4. Pending \in Seq(Requests) /\ Len(Pending) = Len(accepted) - Len(handled)
    BY <1>1 DEF Pending, RingHoldsPending
  <1>5. Pending' = Append(Pending, arg[p])
    BY <1>1, <1>2, <1>3, <1>4 DEF Pending, RingHoldsPending
  <1>6. Len(Pending) < QueueSize
    BY <1>1, <1>2, <1>3, <1>4, RequestQueueAssumption DEF RingHoldsPending
  <1> QED BY <1>1, <1>2, <1>5, <1>6, ZenonT(20) DEF Queue!Accept, RingHoldsPending, InRing

\* Dequeue, the head of the loop in failover(), takes the oldest request.
LEMMA DequeueTakes ==
  ASSUME IndInv, IndInv', Dequeue
  PROVE  Queue!Take
  <1>1. RingHoldsPending /\ RingHoldsPending'
    BY RingContents, RingContentsNext
  <1>2. /\ accepted' = accepted /\ handled' = Append(handled, ring[(head + 1) % QueueSize])
        /\ handled \in Seq(Requests)
    BY DEF Dequeue, IndInv, TypeOK
  <1>3. /\ ring[(head + 1) % QueueSize] = accepted[head + 2].req
        /\ ring[(head + 1) % QueueSize] \in Requests
        /\ head + 2 = Len(handled) + 1
    BY NextRequest DEF IndInv, HandledInOrder, TypeOK
  <1>4. Len(handled') = Len(handled) + 1
    BY <1>2, <1>3
  <1>5. Pending \in Seq(Requests) /\ Len(Pending) = Len(accepted) - Len(handled)
    BY <1>1 DEF Pending, RingHoldsPending
  <1>6. Pending # <<>> /\ Head(Pending) = ring[(head + 1) % QueueSize]
    <2>1. 1 \in 1..Len(Pending)
      BY <1>1, <1>2, <1>4, <1>5 DEF RingHoldsPending
    <2>2. Pending[1] = accepted[Len(handled) + 1].req
      BY <1>5, <2>1, ZenonT(20) DEF Pending
    <2> QED BY <1>3, <1>5, <2>1, <2>2
  <1>7. Pending' = Tail(Pending)
    <2>1. /\ Tail(Pending) \in Seq(Requests) /\ Len(Tail(Pending)) = Len(Pending) - 1
          /\ \A i \in 1..(Len(Pending) - 1) : Tail(Pending)[i] = Pending[i + 1]
      BY <1>5, <1>6
    <2>2. Pending' \in Seq(Requests) /\ Len(Pending') = Len(Pending) - 1
      BY <1>1, <1>2, <1>4, <1>5 DEF Pending, RingHoldsPending
    <2>3. \A i \in 1..(Len(Pending) - 1) : Pending'[i] = Pending[i + 1]
      BY <1>1, <1>2, <1>4, <1>5 DEF Pending, RingHoldsPending
    <2> QED BY <2>1, <2>2, <2>3, SeqEqual
  <1> QED BY <1>1, <1>2, <1>6, <1>7, ZenonT(20) DEF Queue!Take, RingHoldsPending, InRing

\* Every other step leaves the queue as it is: the slot that AdvanceTail has
\* reserved does not count yet.
LEMMA OthersStutter ==
  ASSUME IndInv, IndInv', UNCHANGED <<accepted, handled>>
  PROVE  UNCHANGED Queue!vars
  <1>1. RingHoldsPending /\ RingHoldsPending'
    BY RingContents, RingContentsNext
  <1>2. Pending' = Pending
    BY DEF Pending
  <1> QED BY <1>1, <1>2, ZenonT(20) DEF Queue!vars, RingHoldsPending, InRing

\* register_node_operation_request and the dequeue in failover() implement the
\* first-in first-out queue of NodeOperationQueue: every step that fills or
\* empties a slot is a step of it, every other one leaves it unchanged.
THEOREM RingImplementsQueue == Spec => ImplementsQueue
  <1>1. Init => Queue!Init
    <2> SUFFICES ASSUME Init PROVE Queue!Init
      OBVIOUS
    <2>1. RingHoldsPending
      BY InitIndInv, RingContents
    <2>2. Pending = <<>> /\ handled = <<>>
      BY DEF Init, Pending
    <2> QED BY <2>1, <2>2 DEF Queue!Init, RingHoldsPending, InRing
  <1>2. IndInv /\ IndInv' /\ [Next]_vars => [Queue!Next]_(Queue!vars)
    <2> SUFFICES ASSUME IndInv, IndInv', [Next]_vars PROVE [Queue!Next]_(Queue!vars)
      OBVIOUS
    <2>1. \/ UNCHANGED <<accepted, handled>>
          \/ \E p \in Procs : FillSlot(p)
          \/ Dequeue
      BY ZenonT(20) DEF Next, vars, history, Register, RegisterStep, LockQueue, RefuseFull,
             AdvanceTail, LeaveToFailover, SetSignalFlag, SignalParent, MainStep,
             CallFailover, StartSleeping, TakeSigusr1, FailoverInterrupt,
             NoFailoverInterrupt, EnterFailover, LockForDequeue, HandleRequest,
             QueueEmpty, LockForReset, ResetSwitching, NoticePcpChild, ReapPcpChild,
             NestedCheckRequests
    <2> QED BY <2>1, FillSlotAccepts, DequeueTakes, OthersStutter DEF Queue!Next
  <1> QED BY <1>1, <1>2, Invariance, PTL DEF Spec, ImplementsQueue, Queue!Spec
=============================================================================
