-------------------------- MODULE Semaphore_proofs --------------------------
(***************************************************************************)
(* The semaphore keeps its invariants and implements the counting          *)
(* semaphore, for any number of threads, priorities, units and timeouts.   *)
(***************************************************************************)
EXTENDS Semaphore, Kernel_proofs

Waits(t) == Contains(Waiters, t)

ControlOK ==
  /\ isr \in {"none", "tick"}
  /\ value \in 0 .. MaxValue
  /\ inUse \in BOOLEAN
  /\ pc \in [Thread -> PC]

\* Only a thread that has just blocked itself may be current and not running.
CurrentRuns == k.stat[k.cur] = "RUNNING" \/ pc[k.cur] = "take_sched"

IdleCanRun == k.stat[Idle] \in {"READY", "RUNNING"}

\* Nobody is suspended for another reason than waiting.
SuspendedWaits == \A t \in Thread : k.stat[t] = "SUSPEND" => Waits(t)

\* A thread that does not wait, or no longer, has been told why.
Answered == \A t \in Thread : ~Waits(t) => k.error[t] \in {"EOK", "ETIMEOUT", "ERROR"}

IInv ==
  /\ ControlOK
  /\ Sound(k, {})
  /\ CurrentSound(k, {})
  /\ k.nest = 0
  /\ CurrentRuns
  /\ IdleCanRun
  /\ SuspendedWaits
  /\ Answered
  /\ TimersOnlyForWaiters
  /\ NoWaitWhileFree

-----------------------------------------------------------------------------
(* Consequences of the invariant *)

\* The semaphore has one wait list.
LEMMA OneList == WaitList = {"sem"}
BY SemaphoreAssumption

\* An empty list is one that nobody waits on.
LEMMA NobodyWaits ==
  ASSUME NEW s, NEW T, Sound(s, T)
  PROVE  /\ s.wait["sem"] \in Seq(Thread)
         /\ s.wait["sem"] = <<>> <=> \A t \in Thread : ~Contains(s.wait["sem"], t)
<1>1. s.wait["sem"] \in Seq(Thread)
  BY OneList DEF Sound, KernelState
<1> QED BY <1>1, HeadFacts

\* What the invariant says of the current and of the idle thread.
LEMMA IInvFacts ==
  ASSUME IInv
  PROVE  /\ k \in KernelState /\ k.cur \in Thread /\ Idle \in Thread
         /\ ~Waits(Idle)
         /\ MaxValue \in Nat
         /\ \A t \in Thread : Waits(t) => k.stat[t] = "SUSPEND"
         /\ \A t \in Thread : k.stat[t] = "RUNNING" => t = k.cur
BY KernelAssumption, SemaphoreAssumption
   DEF IInv, Sound, KernelState, IdleCanRun, TimersOnlyForWaiters, Waits, CurrentSound

\* A thread that executes outside of rt_sem_take's call of rt_schedule runs.
LEMMA ExecutingRuns ==
  ASSUME IInv, NEW t \in Thread, Executes(t), pc[t] # "take_sched"
  PROVE  t = k.cur /\ k.stat[t] = "RUNNING" /\ ~Waits(t)
BY IInvFacts DEF IInv, CurrentRuns, Executes

\* Somebody can take over, at least the idle thread.
LEMMA SomebodyReady ==
  ASSUME IInv, k.stat[k.cur] # "RUNNING"
  PROVE  k.group # {}
<1>1. Idle # k.cur /\ k.stat[Idle] = "READY" /\ Idle \in Thread
  BY IInvFacts DEF IInv, IdleCanRun, CurrentSound
<1>2. k.prio[Idle] \in Prio
  BY <1>1, IInvFacts DEF KernelState
<1>3. Contains(k.ready[k.prio[Idle]], Idle)
  BY <1>1, <1>2 DEF IInv, Sound, ReadySound
<1>4. k.ready[k.prio[Idle]] # <<>>
  BY <1>3, EmptyFacts
<1> QED BY <1>2, <1>4 DEF IInv, Sound, ListsSound

\* In the kernel record r the threads of X, and no others, have left the wait
\* list and been told why. Every step but the beginning of a wait does this.
Leave(r, X) ==
  /\ Sound(r, {}) /\ CurrentSound(r, {}) /\ r.nest = 0
  /\ \A t \in Thread : Contains(r.wait["sem"], t) <=> Waits(t) /\ t \notin X
  /\ \A t \in Thread : t \notin X => r.error[t] = k.error[t]
  /\ \A t \in X : r.error[t] \in {"EOK", "ETIMEOUT", "ERROR"}
  /\ \A t \in Thread : Contains(r.timers, t) => Contains(k.timers, t)
  /\ \A t \in Thread : r.stat[t] = "SUSPEND" <=> k.stat[t] = "SUSPEND" /\ t \notin X
  /\ r.stat[Idle] \in {"READY", "RUNNING"}

\* Such a step keeps the invariant.
LEMMA LeaveStep ==
  ASSUME IInv, NEW X, Leave(k', X), X \subseteq {t \in Thread : Waits(t)},
         ControlOK', CurrentRuns',
         value' > 0 => \A t \in Thread : Contains(k'.wait["sem"], t) => FALSE,
         \A t \in Thread : \/ pc'[t] = pc[t]
                           \/ ~Waits(t)
                           \/ pc'[t] \in {"take_sched", "take_return"}
  PROVE  IInv'
<1>1. NoWaitWhileFree'
  BY NobodyWaits DEF NoWaitWhileFree, Leave, Waiters
<1>2. IdleCanRun' /\ SuspendedWaits' /\ Answered'
  BY DEF IInv, Leave, IdleCanRun, SuspendedWaits, Answered, Waits, Waiters
<1>3. ASSUME NEW t \in Thread, Contains(Waiters', t)
      PROVE  /\ k'.stat[t] = "SUSPEND" /\ k'.error[t] = "EINTR"
             /\ pc'[t] \in {"take_sched", "take_return"}
  BY <1>3 DEF IInv, Leave, TimersOnlyForWaiters, Waits, Waiters
<1>4. ASSUME NEW t \in Thread, Contains(k'.timers, t)
      PROVE  Contains(Waiters', t)
  <2>1. k'.stat[t] = "SUSPEND"
    BY <1>4 DEF Leave, Sound, TimersSound
  <2>2. Waits(t) /\ t \notin X
    BY <2>1 DEF Leave, IInv, SuspendedWaits
  <2> QED BY <2>2 DEF Leave, Waiters
<1>5. TimersOnlyForWaiters'
  BY <1>3, <1>4 DEF TimersOnlyForWaiters
<1> QED BY <1>1, <1>2, <1>5 DEF IInv, Leave

-----------------------------------------------------------------------------
(* What a caller sees of a step *)

Calls == [t \in Thread |-> CallOf(t)]

\* The step is one of the counting semaphore, or one it does not see.
Implements == Abstract!Next \/ UNCHANGED <<value, Calls>>

\* Who waits, and who has left the list with which answer.
LEMMA CallAfterLeave ==
  ASSUME IInv, NEW X, Leave(k', X), NEW t \in Thread, pc'[t] = pc[t],
         t \in X => Waits(t)
  PROVE  CallOf(t)' = IF t \notin X THEN CallOf(t)
                      ELSE IF k'.error[t] = "EOK" THEN "granted" ELSE "refused"
<1>1. CASE t \in X
  <2>1. Waits(t) /\ pc[t] \in {"take_sched", "take_return"}
    BY <1>1 DEF IInv, TimersOnlyForWaiters, Waits
  <2>2. ~Contains(Waiters', t)
    BY <1>1 DEF Leave, Waiters
  <2>3. k'.error[t] \in {"EOK", "ETIMEOUT", "ERROR"}
    BY <1>1 DEF Leave
  <2> QED BY <1>1, <2>1, <2>2, <2>3 DEF CallOf
<1>2. CASE t \notin X
  BY <1>2 DEF Leave, CallOf, Waits, Waiters
<1> QED BY <1>1, <1>2

\* A function on the threads that differs from another at one place.
LEMMA OneChange ==
  ASSUME NEW f, NEW g, NEW t \in Thread, NEW v,
         f = [u \in Thread |-> f[u]], g = [u \in Thread |-> g[u]],
         g[t] = v, \A u \in Thread : u # t => g[u] = f[u]
  PROVE  g = [f EXCEPT ![t] = v]
OBVIOUS

\* t is the only one whose call changes, and it becomes c.
LEMMA CallsChange ==
  ASSUME NEW t \in Thread, NEW c, CallOf(t)' = c,
         \A u \in Thread : u # t => CallOf(u)' = CallOf(u)
  PROVE  Calls' = [Calls EXCEPT ![t] = c]
<1> DEFINE f == Calls
           g == Calls'
<1>1. /\ f = [u \in Thread |-> f[u]] /\ g = [u \in Thread |-> g[u]]
      /\ g[t] = c /\ \A u \in Thread : u # t => g[u] = f[u]
  BY DEF Calls
<1> HIDE DEF f, g
<1>2. g = [f EXCEPT ![t] = c]
  BY <1>1, OneChange
<1> QED BY <1>2 DEF f, g

\* Nobody's call changes.
LEMMA CallsSame ==
  ASSUME \A u \in Thread : CallOf(u)' = CallOf(u)
  PROVE  Calls' = Calls
BY DEF Calls

-----------------------------------------------------------------------------
(* The steps that move no thread *)

\* Nothing happens to the kernel.
LEMMA KernelSame ==
  ASSUME IInv, k' = k
  PROVE  Leave(k', {})
BY IInvFacts DEF IInv, Leave, Waits, Waiters, IdleCanRun

\* The executing thread goes on at c, and nobody else is concerned.
LEMMA GotoStep ==
  ASSUME IInv, NEW t \in Thread, NEW c \in PC, Executes(t),
         pc[t] # "take_sched", k' = k, isr' = isr, Goto(t, c),
         inUse' \in BOOLEAN, value' \in 0 .. MaxValue,
         value' > 0 => value > 0
  PROVE  IInv'
<1>1. t = k.cur /\ k.stat[t] = "RUNNING" /\ ~Waits(t)
  BY ExecutingRuns
<1>2. ControlOK' /\ CurrentRuns'
  BY <1>1 DEF IInv, ControlOK, CurrentRuns, Goto
<1>3. value' > 0 => \A u \in Thread : Contains(k'.wait["sem"], u) => FALSE
  BY NobodyWaits DEF IInv, NoWaitWhileFree, Waiters
<1>4. \A u \in Thread : pc'[u] = pc[u] \/ ~Waits(u)
  BY <1>1 DEF Goto, IInv, ControlOK
<1> QED BY <1>2, <1>3, <1>4, KernelSame, LeaveStep

\* What the call of t becomes when only t's program counter moves.
LEMMA GotoCalls ==
  ASSUME IInv, NEW t \in Thread, NEW c \in PC, k' = k, Goto(t, c)
  PROVE  /\ pc'[t] = c
         /\ \A u \in Thread : u # t => CallOf(u)' = CallOf(u)
BY DEF IInv, ControlOK, Goto, CallOf, Waiters

\* rt_sem_take finds a unit.
LEMMA TakeNowStep ==
  ASSUME IInv, NEW t \in Thread, TakeNow(t)
  PROVE  IInv' /\ Implements
<1>1. /\ Executes(t) /\ pc[t] = "run" /\ value > 0 /\ value' = value - 1
      /\ k' = k /\ isr' = isr /\ inUse' = inUse /\ Goto(t, "took")
  BY DEF TakeNow, At
<1>2. value \in 0 .. MaxValue /\ MaxValue \in Nat /\ inUse \in BOOLEAN
  BY IInvFacts DEF IInv, ControlOK
<1>3. "took" \in PC
  BY DEF PC
<1>4. IInv'
  BY <1>1, <1>2, <1>3, GotoStep
<1>5. ~Waits(t)
  BY <1>1, ExecutingRuns
<1>6. CallOf(t) = "none" /\ CallOf(t)' = "granted"
  BY <1>1, <1>3, <1>5, GotoCalls DEF CallOf, Waits, Waiters
<1>7. Calls' = [Calls EXCEPT ![t] = "granted"]
  BY <1>1, <1>3, <1>6, GotoCalls, CallsChange
<1>8. Abstract!Take(t)
  BY <1>1, <1>6, <1>7 DEF Abstract!Take, Abstract!Become, Calls
<1> QED BY <1>4, <1>8 DEF Implements, Abstract!Next

\* rt_sem_take does not wait and finds none.
LEMMA TakeRefusedStep ==
  ASSUME IInv, NEW t \in Thread, TakeRefused(t)
  PROVE  IInv' /\ Implements
<1>1. /\ Executes(t) /\ pc[t] = "run" /\ value = 0 /\ value' = value
      /\ k' = k /\ isr' = isr /\ inUse' = inUse /\ Goto(t, "not_taken")
  BY DEF TakeRefused, At
<1>2. value \in 0 .. MaxValue /\ inUse \in BOOLEAN
  BY DEF IInv, ControlOK
<1>3. "not_taken" \in PC
  BY DEF PC
<1>4. IInv'
  BY <1>1, <1>2, <1>3, GotoStep
<1>5. ~Waits(t)
  BY <1>1, ExecutingRuns
<1>6. CallOf(t) = "none" /\ CallOf(t)' = "refused"
  BY <1>1, <1>3, <1>5, GotoCalls DEF CallOf, Waits, Waiters
<1>7. Calls' = [Calls EXCEPT ![t] = "refused"]
  BY <1>1, <1>3, <1>6, GotoCalls, CallsChange
<1>8. Abstract!Refuse(t)
  BY <1>1, <1>6, <1>7 DEF Abstract!Refuse, Abstract!Become, Calls
<1> QED BY <1>4, <1>8 DEF Implements, Abstract!Next

\* rt_sem_take returns what it was told: it runs, so it does not wait any more.
LEMMA TakeReturnStep ==
  ASSUME IInv, NEW t \in Thread, TakeReturn(t)
  PROVE  IInv' /\ Implements
<1>1. /\ Executes(t) /\ pc[t] \in {"took", "not_taken", "take_return"}
      /\ value' = value /\ k' = k /\ isr' = isr /\ inUse' = inUse
      /\ Goto(t, "run")
  BY DEF TakeReturn, At
<1>2. value \in 0 .. MaxValue /\ inUse \in BOOLEAN
  BY DEF IInv, ControlOK
<1>3. "run" \in PC
  BY DEF PC
<1>4. IInv'
  BY <1>1, <1>2, <1>3, GotoStep
<1>5. ~Waits(t)
  BY <1>1, ExecutingRuns
<1>6. k.error[t] \in {"EOK", "ETIMEOUT", "ERROR"}
  BY <1>5 DEF IInv, Answered
<1>7. CallOf(t) \in {"granted", "refused"} /\ CallOf(t)' = "none"
  BY <1>1, <1>3, <1>5, <1>6, GotoCalls DEF CallOf, Waits, Waiters
<1>8. Calls' = [Calls EXCEPT ![t] = "none"]
  BY <1>1, <1>3, <1>7, GotoCalls, CallsChange
<1>9. Abstract!Return(t)
  BY <1>1, <1>7, <1>8 DEF Abstract!Return, Abstract!Become, Calls
<1> QED BY <1>4, <1>9 DEF Implements, Abstract!Next

\* rt_sem_detach, between its wake-ups.
LEMMA DetachMoves ==
  ASSUME IInv, NEW t \in Thread, DetachStart(t) \/ DetachTest(t)
  PROVE  IInv' /\ Implements
<1>1. PICK c \in {"run", "detach_test", "detach_wake"} :
         /\ Executes(t) /\ pc[t] \in {"run", "detach_test"}
         /\ value' = value /\ k' = k /\ isr' = isr /\ inUse' \in BOOLEAN
         /\ Goto(t, c)
  BY DEF DetachStart, DetachTest, At, IInv, ControlOK
<1>2. value \in 0 .. MaxValue /\ c \in PC
  BY DEF IInv, ControlOK, PC
<1>3. IInv'
  BY <1>1, <1>2, GotoStep
<1>4. CallOf(t)' = CallOf(t)
  BY <1>1, <1>2, GotoCalls DEF CallOf, Waiters
<1>5. Calls' = Calls
  BY <1>1, <1>2, <1>4, GotoCalls, CallsSame
<1> QED BY <1>1, <1>3, <1>5 DEF Implements

\* rt_sem_release with nobody waiting.
LEMMA CountStep ==
  ASSUME IInv, Count, isr' = isr, inUse' = inUse, pc' = pc
  PROVE  IInv' /\ Implements
<1>1. /\ Waiters = <<>> /\ k' = k
      /\ value' = IF value < MaxValue THEN value + 1 ELSE value
  BY DEF Count
<1>2. value \in 0 .. MaxValue /\ MaxValue \in Nat
  BY IInvFacts DEF IInv, ControlOK
<1>3. \A t \in Thread : ~Waits(t)
  BY <1>1, NobodyWaits DEF IInv, Waits, Waiters
<1>4. ControlOK' /\ CurrentRuns'
  BY <1>1, <1>2 DEF IInv, ControlOK, CurrentRuns
<1>5. \A t \in Thread : ~Contains(k'.wait["sem"], t)
  BY <1>1, <1>3 DEF Waits, Waiters
<1>6. IInv'
  BY <1>1, <1>4, <1>5, KernelSame, LeaveStep
<1>7. \A t \in Thread : CallOf(t)' = CallOf(t) /\ CallOf(t) # "waiting"
  BY <1>1, <1>3 DEF CallOf, Waits, Waiters
<1>8. Calls' = Calls
  BY <1>7, CallsSame
<1>9. CASE value < MaxValue
  <2>1. Abstract!Put
    BY <1>1, <1>7, <1>8, <1>9 DEF Abstract!Put, Abstract!Waiting, Calls
  <2> QED BY <1>6, <2>1 DEF Implements, Abstract!Next
<1>10. CASE ~(value < MaxValue)
  BY <1>1, <1>6, <1>8, <1>10 DEF Implements
<1> QED BY <1>9, <1>10

-----------------------------------------------------------------------------
(* The steps that schedule *)

\* After rt_schedule somebody runs.
LEMMA ScheduleLeaves ==
  ASSUME IInv, k' = Schedule(k)
  PROVE  Leave(k', {}) /\ k'.stat[k'.cur] = "RUNNING"
<1>1. Sound(k', {}) /\ CurrentSound(k', {}) /\ AfterSchedule(k', k, {})
  BY ScheduleSound DEF IInv
<1>2. k'.stat[k'.cur] = "RUNNING"
  BY <1>1, SomebodyReady DEF AfterSchedule, IInv
<1>3. Leave(k', {})
  BY <1>1, IInvFacts DEF Leave, AfterSchedule, SameWaits, IInv, IdleCanRun, Waits, Waiters
<1> QED BY <1>2, <1>3

\* rt_schedule at the end of a call, and within rt_sem_take.
LEMMA ScheduleStep ==
  ASSUME IInv, NEW t \in Thread, TakeSchedule(t) \/ CallSchedule(t)
  PROVE  IInv' /\ Implements
<1>1. /\ k' = Schedule(k) /\ isr' = isr /\ value' = value /\ inUse' = inUse
      /\ \/ pc[t] = "take_sched" /\ Goto(t, "take_return")
         \/ pc[t] = "post_sched" /\ Goto(t, "run")
  BY DEF TakeSchedule, CallSchedule, At
<1>2. /\ Leave(k', {}) /\ k'.stat[k'.cur] = "RUNNING"
  BY <1>1, ScheduleLeaves
<1>3. ControlOK' /\ CurrentRuns'
  BY <1>1, <1>2 DEF IInv, ControlOK, CurrentRuns, Goto, PC
<1>4. value' > 0 => \A u \in Thread : Contains(k'.wait["sem"], u) => FALSE
  BY <1>1, <1>2, NobodyWaits DEF IInv, NoWaitWhileFree, Leave, Waits, Waiters
<1>5. \A u \in Thread : \/ pc'[u] = pc[u]
                        \/ ~Waits(u)
                        \/ pc'[u] \in {"take_sched", "take_return"}
  BY <1>1 DEF IInv, ControlOK, Goto, TimersOnlyForWaiters, Waits
<1>6. IInv'
  BY <1>2, <1>3, <1>4, <1>5, LeaveStep
<1>7. \A u \in Thread : u # t => CallOf(u)' = CallOf(u)
  BY <1>1, <1>2, CallAfterLeave DEF Goto, IInv, ControlOK
<1>8. CallOf(t)' = CallOf(t)
  <2>1. /\ Contains(Waiters', t) <=> Contains(Waiters, t)
        /\ k'.error[t] = k.error[t]
    BY <1>2 DEF Leave, Waits, Waiters
  <2>2. \/ pc[t] = "take_sched" /\ pc'[t] = "take_return"
        \/ pc[t] = "post_sched" /\ pc'[t] = "run"
    BY <1>1 DEF Goto, IInv, ControlOK
  <2> QED BY <2>1, <2>2 DEF CallOf
<1>9. Calls' = Calls
  BY <1>7, <1>8, CallsSame
<1> QED BY <1>1, <1>6, <1>9 DEF Implements

\* rt_thread_control(CHANGE_PRIORITY): a waiter keeps its place and its call.
LEMMA ChangePriorityStep ==
  ASSUME IInv, NEW t \in Thread, NEW u \in Thread, ChangePriority(t, u)
  PROVE  IInv' /\ Implements
<1>1. /\ Executes(t) /\ pc[t] = "run" /\ Goto(t, "post_sched")
      /\ isr' = isr /\ value' = value /\ inUse' = inUse
      /\ \E p \in Prio : k' = SetPriority(k, u, p)
  BY SemaphoreAssumption DEF ChangePriority, At
<1>2. t = k.cur /\ k.stat[t] = "RUNNING" /\ ~Waits(t)
  BY <1>1, ExecutingRuns
<1>3. /\ Sound(k', {}) /\ k'.cur = k.cur /\ k'.nest = k.nest
      /\ k'.stat = k.stat /\ k'.timers = k.timers
      /\ SameWaits(k', k) /\ SameClock(k', k)
  <2>1. PICK p \in Prio : k' = SetPriority(k, u, p)
    BY <1>1
  <2>2. Sound(k, {}) /\ CurrentSound(k, {}) /\ u \notin {}
    BY DEF IInv
  <2> QED BY <2>1, <2>2, SetPrioritySound
<1>4. Leave(k', {})
  BY <1>3, IInvFacts DEF Leave, SameWaits, IInv, CurrentSound, IdleCanRun, Waits, Waiters
<1>5. ControlOK' /\ CurrentRuns'
  BY <1>1, <1>2, <1>3 DEF IInv, ControlOK, CurrentRuns, Goto, PC
<1>6. value' > 0 => \A x \in Thread : Contains(k'.wait["sem"], x) => FALSE
  BY <1>1, <1>4, NobodyWaits DEF IInv, NoWaitWhileFree, Leave, Waits, Waiters
<1>7. \A x \in Thread : pc'[x] = pc[x] \/ ~Waits(x)
  BY <1>1, <1>2 DEF Goto, IInv, ControlOK
<1>8. IInv'
  BY <1>4, <1>5, <1>6, <1>7, LeaveStep
<1>9. \A x \in Thread : x # t => CallOf(x)' = CallOf(x)
  BY <1>1, <1>4, CallAfterLeave DEF Goto, IInv, ControlOK
<1>10. CallOf(t)' = CallOf(t)
  <2>1. /\ Contains(Waiters', t) <=> Contains(Waiters, t)
        /\ k'.error[t] = k.error[t] /\ pc'[t] = "post_sched"
    BY <1>1, <1>4 DEF Leave, Waits, Waiters, Goto, IInv, ControlOK
  <2> QED BY <1>1, <2>1 DEF CallOf
<1>11. Calls' = Calls
  BY <1>9, <1>10, CallsSame
<1> QED BY <1>1, <1>8, <1>11 DEF Implements

-----------------------------------------------------------------------------
(* A thread begins to wait *)

\* rt_sem_take blocks the thread that calls it.
LEMMA TakeWaitStep ==
  ASSUME IInv, NEW t \in Thread, TakeWait(t)
  PROVE  IInv' /\ Implements
<1>1. /\ Executes(t) /\ pc[t] = "run" /\ value = 0 /\ t # Idle
      /\ Goto(t, "take_sched")
      /\ isr' = isr /\ value' = value /\ inUse' = inUse
  BY DEF TakeWait, At
<1>2. PICK timeout \in Timeouts : k' = Block(k, "sem", t, SemFlag, timeout)
  BY DEF TakeWait
<1>3. timeout \in Int
  BY SemaphoreAssumption DEF Forever, NoWait
<1>4. t = k.cur /\ k.stat[t] = "RUNNING" /\ ~Waits(t)
  BY <1>1, ExecutingRuns
<1>5. /\ Sound(k', {}) /\ OnlyStat(k', k, t, "SUSPEND") /\ k'.tick = k.tick
      /\ OnWait(k', k, "sem", t) /\ Told(k', k, t, "EINTR")
      /\ \A x : Contains(k'.timers, x)
                  <=> Contains(k.timers, x) \/ (x = t /\ timeout > 0)
  <2>1. /\ Sound(k, {}) /\ t \notin {} /\ k.stat[t] \in {"READY", "RUNNING"}
        /\ "sem" \in WaitList
    BY <1>4, OneList DEF IInv
  <2> QED BY <1>2, <1>3, <2>1, BlockSound
<1>6. \A u \in Thread : Contains(Waiters', u) <=> Contains(Waiters, u) \/ u = t
  BY <1>5, OneList DEF OnWait, Waiters
<1>7. pc' \in [Thread -> PC] /\ pc'[t] = "take_sched"
      /\ \A u \in Thread : u # t => pc'[u] = pc[u]
  BY <1>1 DEF Goto, IInv, ControlOK, PC
<1>8. ControlOK' /\ CurrentRuns' /\ NoWaitWhileFree'
  BY <1>1, <1>4, <1>5, <1>7 DEF IInv, ControlOK, CurrentRuns, OnlyStat, NoWaitWhileFree
<1>9. CurrentSound(k', {}) /\ k'.nest = 0 /\ IdleCanRun'
  BY <1>1, <1>4, <1>5, IInvFacts DEF IInv, OnlyStat, CurrentSound, IdleCanRun
<1>10. SuspendedWaits' /\ Answered'
  BY <1>5, <1>6 DEF IInv, OnlyStat, Told, SuspendedWaits, Answered, Waits
<1>11. TimersOnlyForWaiters'
  <2>1. \A u \in Thread : Contains(k'.timers, u) => Contains(Waiters', u)
    BY <1>5, <1>6 DEF IInv, TimersOnlyForWaiters
  <2>2. \A u \in Thread : Contains(Waiters', u) =>
           /\ k'.stat[u] = "SUSPEND" /\ k'.error[u] = "EINTR"
           /\ pc'[u] \in {"take_sched", "take_return"}
    BY <1>5, <1>6, <1>7 DEF IInv, TimersOnlyForWaiters, OnlyStat, Told
  <2> QED BY <2>1, <2>2 DEF TimersOnlyForWaiters
<1>12. IInv'
  BY <1>5, <1>8, <1>9, <1>10, <1>11 DEF IInv
<1>13. CallOf(t) = "none" /\ CallOf(t)' = "waiting"
  BY <1>1, <1>4, <1>6 DEF CallOf, Waits
<1>14. \A u \in Thread : u # t => CallOf(u)' = CallOf(u)
  BY <1>5, <1>6, <1>7 DEF CallOf, Told
<1>15. Calls' = [Calls EXCEPT ![t] = "waiting"]
  BY <1>13, <1>14, CallsChange
<1>16. Abstract!Wait(t)
  BY <1>1, <1>13, <1>15 DEF Abstract!Wait, Abstract!Become, Calls
<1> QED BY <1>12, <1>16 DEF Implements, Abstract!Next

-----------------------------------------------------------------------------
(* Threads that wait are woken *)

\* The first waiter is told e.
LEMMA WakeLeaves ==
  ASSUME IInv, Waiters # <<>>, NEW e \in {"EOK", "ERROR"}
  PROVE  LET t == Head(Waiters)
             r == Wake(k, "sem", e)
         IN  /\ t \in Thread /\ Waits(t)
             /\ Leave(r, {t})
             /\ r.error[t] = e
             /\ r.cur = k.cur
             /\ \/ r.stat[k.cur] = "RUNNING"
                \/ r.stat[k.cur] = k.stat[k.cur]
<1> DEFINE t == Head(k.wait["sem"])
           r == Wake(k, "sem", e)
<1>1. /\ Sound(k, {}) /\ k.wait["sem"] # <<>> /\ e \in Error
      /\ "sem" \in WaitList /\ Waiters = k.wait["sem"]
  BY OneList DEF IInv, Error, Waiters
<1>2. t \in Thread /\ Contains(k.wait["sem"], t) /\ Woken(r, k, {}, t, e)
  BY <1>1, WakeSound
<1> HIDE DEF t, r
<1>3. CurrentSound(r, {})
  BY <1>2, IInvFacts DEF IInv, CurrentSound, OnlyStat, Woken
<1>4. r.nest = 0 /\ r.cur = k.cur /\ r.stat[Idle] \in {"READY", "RUNNING"}
  BY <1>2, IInvFacts DEF IInv, OnlyStat, Woken, IdleCanRun
<1>5. \A u \in Thread :
        /\ Contains(r.wait["sem"], u) <=> Waits(u) /\ u \notin {t}
        /\ u \notin {t} => r.error[u] = k.error[u]
        /\ r.stat[u] = "SUSPEND" <=> k.stat[u] = "SUSPEND" /\ u \notin {t}
  BY <1>1, <1>2 DEF OffWaits, Told, OnlyStat, Woken, Waits
<1>6. r.error[t] = e /\ (r.stat[k.cur] = "RUNNING" \/ r.stat[k.cur] = k.stat[k.cur])
  BY <1>2, IInvFacts DEF Told, OnlyStat, Woken
<1>7. Leave(r, {t})
  BY <1>2, <1>3, <1>4, <1>5, <1>6 DEF Leave, Woken
<1> QED BY <1>1, <1>2, <1>4, <1>6, <1>7 DEF Waits, r, t

\* A wake-up followed by rt_schedule, in one go.
LEMMA LeaveSchedule ==
  ASSUME IInv, NEW r, NEW X, Leave(r, X)
  PROVE  /\ Leave(Schedule(r), X)
         /\ \A t \in Thread : Schedule(r).error[t] = r.error[t]
         /\ Schedule(r).stat[Schedule(r).cur] = "RUNNING"
<1> DEFINE q == Schedule(r)
<1>1. Sound(r, {}) /\ CurrentSound(r, {}) /\ r.nest = 0
  BY DEF Leave
<1>2. Sound(q, {}) /\ CurrentSound(q, {}) /\ AfterSchedule(q, r, {})
  BY <1>1, ScheduleSound
<1> HIDE DEF q
<1>3. q.stat[q.cur] = "RUNNING"
  <2>1. CASE r.stat[r.cur] = "RUNNING"
    BY <1>2, <2>1 DEF AfterSchedule
  <2>2. CASE r.stat[r.cur] # "RUNNING"
    <3>1. Idle # r.cur /\ r.stat[Idle] = "READY" /\ Idle \in Thread /\ r.prio[Idle] \in Prio
      BY <1>1, <2>2, IInvFacts DEF Leave, CurrentSound, Sound, KernelState
    <3>2. Contains(r.ready[r.prio[Idle]], Idle)
      BY <1>1, <3>1 DEF Sound, ReadySound
    <3>3. r.group # {}
      BY <1>1, <3>1, <3>2, EmptyFacts DEF Sound, ListsSound
    <3> QED BY <1>1, <1>2, <3>3 DEF AfterSchedule
  <2> QED BY <2>1, <2>2
<1>4. Leave(q, X)
  BY <1>2, IInvFacts DEF Leave, AfterSchedule, SameWaits
<1>5. \A t \in Thread : q.error[t] = r.error[t]
  BY <1>2 DEF AfterSchedule, SameWaits
<1> QED BY <1>3, <1>4, <1>5 DEF q

\* A waiter that has been answered is the one whose call changes.
LEMMA AnswerStep ==
  ASSUME IInv, NEW t \in Thread, Waits(t), Leave(k', {t}),
         ControlOK', CurrentRuns', value' = value,
         \A u \in Thread : pc'[u] = pc[u] \/ ~Waits(u),
         \A u \in Thread : pc'[u] = pc[u] \/ CallOf(u)' = CallOf(u)
  PROVE  /\ IInv'
         /\ Calls' = [Calls EXCEPT ![t] = IF k'.error[t] = "EOK" THEN "granted"
                                                                ELSE "refused"]
         /\ CallOf(t) = "waiting"
<1>1. ~(value > 0)
  BY NobodyWaits DEF IInv, NoWaitWhileFree, Waiters, Waits
<1>2. IInv'
  BY <1>1, LeaveStep
<1>3. CallOf(t)' = IF k'.error[t] = "EOK" THEN "granted" ELSE "refused"
  BY CallAfterLeave
<1>4. ASSUME NEW u \in Thread, u # t PROVE CallOf(u)' = CallOf(u)
  BY <1>4, CallAfterLeave
<1>5. CallOf(t) = "waiting"
  BY DEF CallOf, Waits
<1> QED BY <1>2, <1>3, <1>4, <1>5, CallsChange

\* The executing thread, not in rt_sem_take, has woken the first waiter.
LEMMA ThreadWakes ==
  ASSUME IInv, NEW t \in Thread, NEW c \in PC, NEW e \in {"EOK", "ERROR"},
         Executes(t), pc[t] \in {"run", "detach_wake"},
         c \in {"post_sched", "detach_test"}, Goto(t, c),
         Waiters # <<>>, k' = Wake(k, "sem", e),
         isr' = isr, value' = value, inUse' = inUse
  PROVE  IInv' /\ Implements
<1> DEFINE u == Head(Waiters)
<1>1. t = k.cur /\ k.stat[t] = "RUNNING" /\ ~Waits(t)
  BY ExecutingRuns
<1>2. /\ u \in Thread /\ Waits(u) /\ Leave(k', {u}) /\ k'.error[u] = e
      /\ k'.cur = k.cur
      /\ k'.stat[k.cur] = "RUNNING" \/ k'.stat[k.cur] = k.stat[k.cur]
  BY WakeLeaves
<1> HIDE DEF u
<1>3. ControlOK' /\ CurrentRuns'
  BY <1>1, <1>2 DEF IInv, ControlOK, CurrentRuns, Goto
<1>4. /\ \A x \in Thread : x # t => pc'[x] = pc[x]
      /\ pc'[t] = c
  BY DEF Goto, IInv, ControlOK
<1>5. CallOf(t)' = CallOf(t)
  <2>1. ~Contains(Waiters', t)
    BY <1>1, <1>2 DEF Leave, Waiters
  <2> QED BY <1>1, <1>4, <2>1 DEF CallOf, Waits
<1>6. /\ \A x \in Thread : pc'[x] = pc[x] \/ ~Waits(x)
      /\ \A x \in Thread : pc'[x] = pc[x] \/ CallOf(x)' = CallOf(x)
  BY <1>1, <1>4, <1>5
<1>7. /\ IInv' /\ CallOf(u) = "waiting"
      /\ Calls' = [Calls EXCEPT ![u] = IF e = "EOK" THEN "granted" ELSE "refused"]
  BY <1>2, <1>3, <1>6, AnswerStep
<1>8. Abstract!Hand(u) \/ Abstract!Refuse(u)
  BY <1>2, <1>7 DEF Abstract!Hand, Abstract!Refuse, Abstract!Become, Calls
<1> QED BY <1>2, <1>7, <1>8 DEF Implements, Abstract!Next

\* rt_sem_release, called by a thread.
LEMMA ReleaseStep ==
  ASSUME IInv, NEW t \in Thread, Release(t)
  PROVE  IInv' /\ Implements
<1>1. CASE Hand /\ Goto(t, "post_sched")
  <2>1. "post_sched" \in PC /\ "EOK" \in {"EOK", "ERROR"}
    BY DEF PC
  <2>2. /\ Executes(t) /\ pc[t] \in {"run", "detach_wake"} /\ Goto(t, "post_sched")
        /\ Waiters # <<>> /\ k' = Wake(k, "sem", "EOK")
        /\ isr' = isr /\ value' = value /\ inUse' = inUse
    BY <1>1 DEF Release, Hand, At, IpcListResume
  <2> QED BY <2>1, <2>2, ThreadWakes
<1>2. CASE Count /\ UNCHANGED pc
  BY <1>2, CountStep DEF Release
<1> QED BY <1>1, <1>2 DEF Release

\* rt_sem_detach and rt_sem_delete wake one waiter after the other.
LEMMA DetachWakeStep ==
  ASSUME IInv, NEW t \in Thread, DetachWake(t)
  PROVE  IInv' /\ Implements
<1>1. "detach_test" \in PC /\ "ERROR" \in {"EOK", "ERROR"}
  BY DEF PC
<1>2. /\ Executes(t) /\ pc[t] \in {"run", "detach_wake"} /\ Goto(t, "detach_test")
      /\ Waiters # <<>> /\ k' = Wake(k, "sem", "ERROR")
      /\ isr' = isr /\ value' = value /\ inUse' = inUse
  BY DEF DetachWake, At
<1> QED BY <1>1, <1>2, ThreadWakes

\* rt_sem_release, called by an interrupt handler.
LEMMA IsrReleaseStep ==
  ASSUME IInv, IsrRelease
  PROVE  IInv' /\ Implements
<1>1. CASE Count
  BY <1>1, CountStep DEF IsrRelease
<1>2. CASE /\ Waiters # <<>>
           /\ k' = Schedule(IpcListResume(k, "sem"))
           /\ value' = value
  <2> DEFINE u == Head(Waiters)
             r == Wake(k, "sem", "EOK")
  <2>1. u \in Thread /\ Waits(u) /\ Leave(r, {u}) /\ r.error[u] = "EOK"
    BY <1>2, WakeLeaves
  <2>2. k' = Schedule(r)
    BY <1>2 DEF IpcListResume
  <2> HIDE DEF u, r
  <2>3. Leave(k', {u}) /\ k'.error[u] = "EOK" /\ k'.stat[k'.cur] = "RUNNING"
    BY <2>1, <2>2, LeaveSchedule
  <2>4. isr' = isr /\ inUse' = inUse /\ pc' = pc
    BY DEF IsrRelease
  <2>5. ControlOK' /\ CurrentRuns'
    BY <1>2, <2>3, <2>4 DEF IInv, ControlOK, CurrentRuns
  <2>6. \A x \in Thread : pc'[x] = pc[x]
    BY <2>4
  <2>7. /\ IInv' /\ CallOf(u) = "waiting"
        /\ Calls' = [Calls EXCEPT ![u] = IF k'.error[u] = "EOK" THEN "granted"
                                                               ELSE "refused"]
    BY <1>2, <2>1, <2>3, <2>5, <2>6, AnswerStep
  <2>8. Abstract!Hand(u)
    BY <1>2, <2>1, <2>3, <2>7 DEF Abstract!Hand, Abstract!Become, Calls
  <2> QED BY <2>1, <2>7, <2>8 DEF Implements, Abstract!Next
<1> QED BY <1>1, <1>2 DEF IsrRelease

\* rt_sem_control(RESET) turns every waiter away.
LEMMA ResetStep ==
  ASSUME IInv, NEW t \in Thread, Reset(t)
  PROVE  IInv' /\ Implements
<1> DEFINE X == {x \in Thread : Contains(k.wait["sem"], x)}
<1>1. /\ Executes(t) /\ pc[t] = "run" /\ Goto(t, "post_sched")
      /\ k' = IpcListResumeAll(k, "sem")
      /\ value' \in 0 .. MaxValue /\ isr' = isr /\ inUse' = inUse
  BY SemaphoreAssumption DEF Reset, At
<1>2. t = k.cur /\ k.stat[t] = "RUNNING" /\ ~Waits(t)
  BY <1>1, ExecutingRuns
<1>3. Sound(k', {}) /\ AllWoken(k', k, X, "ERROR")
  <2>1. Sound(k, {}) /\ "sem" \in WaitList
    BY OneList DEF IInv
  <2> QED BY <1>1, <2>1, ResumeAllSound
<1>4. \A u \in Thread : u \in X <=> Waits(u)
  BY DEF Waits, Waiters
<1> HIDE DEF X
<1>5. k'.cur = k.cur /\ k'.stat[k'.cur] = "RUNNING" /\ CurrentSound(k', {})
  BY <1>2, <1>3, <1>4, IInvFacts DEF IInv, CurrentSound, AllWoken
<1>6. k'.nest = 0 /\ k'.stat[Idle] \in {"READY", "RUNNING"}
  BY <1>3, <1>4, IInvFacts DEF AllWoken, IInv, IdleCanRun
<1>7. \A u \in Thread :
        /\ Contains(k'.wait["sem"], u) <=> Waits(u) /\ u \notin X
        /\ u \notin X => k'.error[u] = k.error[u]
        /\ Contains(k'.timers, u) => Contains(k.timers, u)
        /\ k'.stat[u] = "SUSPEND" <=> k.stat[u] = "SUSPEND" /\ u \notin X
  BY <1>3, OneList DEF AllWoken, Waits, Waiters
<1>8. X \subseteq Thread /\ \A u \in X : k'.error[u] = "ERROR"
  BY <1>3 DEF AllWoken, X
<1>9. Leave(k', X)
  BY <1>3, <1>5, <1>6, <1>7, <1>8 DEF Leave
<1>10. ControlOK' /\ CurrentRuns'
  BY <1>1, <1>5 DEF IInv, ControlOK, CurrentRuns, Goto, PC
<1>11. /\ \A u \in Thread : u # t => pc'[u] = pc[u]
       /\ pc'[t] = "post_sched"
  BY <1>1 DEF Goto, IInv, ControlOK
<1>12. \A u \in Thread : ~Contains(k'.wait["sem"], u)
  BY <1>4, <1>7
<1>13. IInv'
  <2>1. X \subseteq {u \in Thread : Waits(u)}
    BY <1>4, <1>8
  <2>2. \A u \in Thread : pc'[u] = pc[u] \/ ~Waits(u)
    BY <1>2, <1>11
  <2> QED BY <1>9, <1>10, <1>12, <2>1, <2>2, LeaveStep
<1>14. ASSUME NEW u \in Thread
       PROVE  CallOf(u)' = IF CallOf(u) = "waiting" THEN "refused" ELSE CallOf(u)
  <2>1. CASE u = t
    BY <1>1, <1>2, <1>11, <1>12, <2>1 DEF CallOf, Waits, Waiters
  <2>2. CASE u # t
    <3>1. CallOf(u)' = IF u \notin X THEN CallOf(u)
                       ELSE IF k'.error[u] = "EOK" THEN "granted" ELSE "refused"
      BY <1>4, <1>9, <1>11, <2>2, CallAfterLeave
    <3>2. CallOf(u) = "waiting" <=> u \in X
      BY <1>4 DEF CallOf, Waits
    <3> QED BY <1>8, <3>1, <3>2
  <2> QED BY <2>1, <2>2
<1>15. Abstract!Reset
  BY <1>1, <1>14 DEF Abstract!Reset, Abstract!Waiting, Calls
<1> QED BY <1>13, <1>15 DEF Implements, Abstract!Next

-----------------------------------------------------------------------------
(* Time goes on *)

\* One step of the SysTick handler wakes at most one waiter, of a timeout.
LEMMA InterruptStep ==
  ASSUME IInv, Interrupt
  PROVE  IInv' /\ Implements
<1>1. /\ TickStep /\ value' = value /\ inUse' = inUse /\ pc' = pc
  BY DEF Interrupt
<1>2. Sound(k, {}) /\ CurrentSound(k, {})
  BY DEF IInv
<1>3. /\ Sound(k', {}) /\ CurrentSound(k', {})
      /\ \E W \in SUBSET Thread :
           /\ Progress(k', k, {}, W)
           /\ \A t \in W : Contains(k.timers, t) /\ k.stat[t] = "SUSPEND"
           /\ \A t, u \in W : t = u
      /\ isr' \in {"none", "tick"}
  BY <1>1, <1>2, TickStepSound
<1>4. PICK W \in SUBSET Thread :
        /\ Progress(k', k, {}, W)
        /\ \A t \in W : Contains(k.timers, t) /\ k.stat[t] = "SUSPEND"
        /\ \A t, u \in W : t = u
  BY <1>3
<1>5. W \subseteq {t \in Thread : Waits(t)}
  BY <1>4 DEF IInv, TimersOnlyForWaiters, Waits
<1>6. k'.nest = 0 /\ k'.stat[Idle] \in {"READY", "RUNNING"}
  BY <1>4, IInvFacts DEF Progress, IInv, IdleCanRun
<1>7. \A u \in Thread :
        /\ Contains(k'.wait["sem"], u) <=> Waits(u) /\ u \notin W
        /\ k'.error[u] = IF u \in W THEN "ETIMEOUT" ELSE k.error[u]
        /\ Contains(k'.timers, u) => Contains(k.timers, u)
        /\ k'.stat[u] = "SUSPEND" <=> k.stat[u] = "SUSPEND" /\ u \notin W
  BY <1>4, OneList DEF Progress, TimedOut, Waits, Waiters
<1>8. Leave(k', W)
  BY <1>3, <1>6, <1>7 DEF Leave
<1>9. ControlOK' /\ CurrentRuns'
  BY <1>1, <1>3, <1>4, IInvFacts DEF IInv, ControlOK, CurrentRuns, Progress
<1>10. CASE W = {}
  <2>1. value' > 0 => \A u \in Thread : Contains(k'.wait["sem"], u) => FALSE
    BY <1>1, <1>2, <1>7, NobodyWaits DEF IInv, NoWaitWhileFree, Waits, Waiters
  <2>2. IInv'
    BY <1>1, <1>5, <1>8, <1>9, <2>1, LeaveStep
  <2>3. \A u \in Thread : CallOf(u)' = CallOf(u)
    BY <1>1, <1>8, <1>10, CallAfterLeave
  <2>4. Calls' = Calls
    BY <2>3, CallsSame
  <2> QED BY <1>1, <2>2, <2>4 DEF Implements
<1>11. CASE W # {}
  <2>1. PICK t \in Thread : t \in W
    BY <1>11
  <2>2. W = {t}
    BY <1>4, <2>1
  <2>3. Waits(t) /\ k'.error[t] = "ETIMEOUT" /\ Leave(k', {t})
    BY <1>5, <1>7, <1>8, <2>1, <2>2
  <2>4. \A u \in Thread : pc'[u] = pc[u]
    BY <1>1
  <2>5. /\ IInv' /\ CallOf(t) = "waiting"
        /\ Calls' = [Calls EXCEPT ![t] = IF k'.error[t] = "EOK" THEN "granted"
                                                               ELSE "refused"]
    BY <1>1, <1>9, <2>3, <2>4, AnswerStep
  <2>6. Abstract!Refuse(t)
    BY <1>1, <2>3, <2>5 DEF Abstract!Refuse, Abstract!Become, Calls
  <2> QED BY <2>5, <2>6 DEF Implements, Abstract!Next
<1> QED BY <1>10, <1>11

-----------------------------------------------------------------------------
(* The theorems *)

\* The semaphore has been initialised, its threads started, and none calls it.
LEMMA InitIInv ==
  ASSUME Init
  PROVE  IInv /\ Abstract!Init
<1>1. /\ isr = "none" /\ value \in InitValues /\ inUse = TRUE
      /\ pc = [t \in Thread |-> "run"]
      /\ InitPrio \in [Thread -> Prio] /\ InitValues \subseteq 0 .. MaxValue
      /\ Idle \in Thread
  BY SemaphoreAssumption, KernelAssumption DEF Init
<1>2. PICK cur \in Thread : k = KernelStart(Thread, cur, InitPrio)
  BY DEF Init
<1>3. /\ Sound(k, {}) /\ CurrentSound(k, {})
      /\ k.cur = cur /\ k.stat[cur] = "RUNNING"
      /\ k.stat[Idle] \in {"READY", "RUNNING"}
      /\ \A t \in Thread : k.stat[t] \in {"READY", "RUNNING"}
      /\ k.timers = <<>> /\ \A w \in WaitList : k.wait[w] = <<>>
      /\ k.nest = 0 /\ \A t \in Thread : k.error[t] = "EOK"
  BY <1>1, <1>2, KernelStartSound
<1>4. Waiters = <<>>
  BY <1>3, OneList DEF Waiters
<1>5. \A t \in Thread : ~Contains(Waiters, t) /\ ~Contains(k.timers, t)
  BY <1>3, <1>4, EmptyFacts
<1>6. ControlOK /\ CurrentRuns /\ IdleCanRun
  BY <1>1, <1>3 DEF ControlOK, CurrentRuns, IdleCanRun, PC
<1>7. /\ SuspendedWaits /\ Answered /\ TimersOnlyForWaiters /\ NoWaitWhileFree
  BY <1>3, <1>4, <1>5 DEF SuspendedWaits, Answered, TimersOnlyForWaiters,
                          NoWaitWhileFree, Waits
<1>8. \A t \in Thread : CallOf(t) = "none"
  BY <1>1, <1>5 DEF CallOf
<1>9. Abstract!Init
  BY <1>1, <1>8 DEF Abstract!Init
<1> QED BY <1>3, <1>6, <1>7, <1>9 DEF IInv

\* Every step keeps the invariant and is one of the counting semaphore's.
LEMMA NextStep ==
  ASSUME IInv, [Next]_svars
  PROVE  IInv' /\ Implements
<1>1. CASE Interrupt
  BY <1>1, InterruptStep
<1>2. CASE IsrRelease
  BY <1>2, IsrReleaseStep
<1>3. ASSUME NEW t \in Thread, ThreadStep(t)
      PROVE  IInv' /\ Implements
  <2>1. CASE TakeNow(t) \/ TakeRefused(t) \/ TakeWait(t) \/ TakeReturn(t)
    BY <2>1, TakeNowStep, TakeRefusedStep, TakeWaitStep, TakeReturnStep
  <2>2. CASE TakeSchedule(t) \/ CallSchedule(t)
    BY <2>2, ScheduleStep
  <2>3. CASE Release(t) \/ Reset(t)
    BY <2>3, ReleaseStep, ResetStep
  <2>4. CASE DetachStart(t) \/ DetachTest(t) \/ DetachWake(t)
    BY <2>4, DetachMoves, DetachWakeStep
  <2>5. CASE \E u \in Thread : ChangePriority(t, u)
    BY <2>5, ChangePriorityStep
  <2> QED BY <1>3, <2>1, <2>2, <2>3, <2>4, <2>5 DEF ThreadStep
<1>4. CASE UNCHANGED svars
  <2>1. k' = k /\ isr' = isr /\ value' = value /\ inUse' = inUse /\ pc' = pc
    BY <1>4 DEF svars
  <2>2. ControlOK' /\ CurrentRuns' /\ NoWaitWhileFree'
    BY <2>1 DEF IInv, ControlOK, CurrentRuns, NoWaitWhileFree, Waiters
  <2>3. IInv'
    BY <2>1, <2>2 DEF IInv, IdleCanRun, SuspendedWaits, Answered,
                      TimersOnlyForWaiters, Waits, Waiters
  <2>4. \A u \in Thread : CallOf(u)' = CallOf(u)
    BY <2>1 DEF CallOf, Waiters
  <2> QED BY <2>1, <2>3, <2>4, CallsSame DEF Implements
<1> QED BY <1>1, <1>2, <1>3, <1>4 DEF Next

\* The inductive invariant: the kernel record is sound, the current thread
\* runs unless it has just blocked itself, every suspended thread is on the
\* list of the semaphore, and whoever is not has been told why.
THEOREM Invariance == Spec => []IInv
<1>1. Init => IInv
  BY InitIInv
<1>2. IInv /\ [Next]_svars => IInv'
  BY NextStep
<1> QED BY <1>1, <1>2, PTL DEF Spec

\* The kernel record, the value and the program counters keep their types.
THEOREM TypeCorrect == Spec => []TypeOK
<1>1. IInv => TypeOK
  BY DEF IInv, ControlOK, TypeOK, Sound
<1> QED BY <1>1, Invariance, PTL

\* No waiter is left behind while the semaphore has a unit: releases by
\* threads and by interrupt handlers, timeouts and resets in any order.
THEOREM NobodyWaitsWhileFree == Spec => []NoWaitWhileFree
<1>1. IInv => NoWaitWhileFree
  BY DEF IInv
<1> QED BY <1>1, Invariance, PTL

\* A thread timer runs only for a thread that still waits: rt_thread_timeout
\* cannot hit one that has been given its unit or turned away.
THEOREM NoLateTimeout == Spec => []TimersOnlyForWaiters
<1>1. IInv => TimersOnlyForWaiters
  BY DEF IInv
<1> QED BY <1>1, Invariance, PTL

\* The semaphore of ipc.c implements the counting semaphore: each of its steps,
\* and each of the scheduler and of the tick under it, is one of
\* CountingSemaphore's or changes nothing a caller sees.
THEOREM Refinement == Spec => IsCountingSemaphore
<1>1. Init => Abstract!Init
  BY InitIInv
<1>2. IInv /\ [Next]_svars => [Abstract!Next]_<<value, Calls>>
  BY NextStep DEF Implements
<1>3. Calls = [t \in Thread |-> CallOf(t)]
  BY DEF Calls
<1> QED BY <1>1, <1>2, <1>3, Invariance, PTL DEF Spec, IsCountingSemaphore, Abstract!Spec, Calls

=============================================================================
