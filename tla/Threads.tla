------------------------------ MODULE Threads -------------------------------
(***************************************************************************)
(* The thread API of thread.c, with rt_enter_critical/rt_exit_critical of  *)
(* scheduler_up.c and the reaper of idle.c, on top of the kernel core.     *)
(*                                                                         *)
(* Each thread has a program counter: at "run" it is in its own code and   *)
(* may call any function; the other values are the points inside an API    *)
(* function where interrupts are enabled, so that the tick may preempt it. *)
(***************************************************************************)
EXTENDS Kernel

CONSTANTS
  Delays,      \* the tick counts threads sleep for
  NewPrio,     \* the priorities rt_thread_control may set
  Mortal,      \* the threads that are created and end
  MaxNest,     \* bound on the nesting of rt_enter_critical
  Started,     \* the threads that exist when the scheduler starts
  InitPrio,    \* their priorities
  Raced        \* the races on another thread's state the callers leave open:
               \* a subset of {"resume", "delete"}

ASSUME ThreadsAssumption ==
  /\ Delays \subseteq 1 .. TickHalf - 1
  /\ NewPrio \subseteq Prio
  /\ MaxNest \in Nat
  /\ Mortal \subseteq Thread \ {Idle}
  /\ Started \subseteq Thread /\ Idle \in Started
  /\ InitPrio \in [Thread -> Prio] /\ InitPrio[Idle] = PrioMax - 1

VARIABLES
  pc,       \* where each thread is
  target,   \* the thread it is resuming or deleting
  stale     \* history: the threads that were resumed or whose priority was
            \* changed since rt_schedule last ran; no guard reads it

tvars == <<k, isr, pc, target, stale>>

PC == {"run", "sched", "sleep_mark", "sleep_sched", "sleep_return",
       "resume_unlink", "resume_insert", "delete_close", "dead"}

\* t runs, and is at program counter c.
At(t, c) == Executes(t) /\ pc[t] = c

Goto(t, c) == pc' = [pc EXCEPT ![t] = c]

\* No thread is between two steps of resuming or deleting u.
Unclaimed(u) ==
  \A t \in Thread :
     pc[t] \in {"resume_unlink", "resume_insert", "delete_close"} => target[t] # u

\* rt_schedule looks at the queues if the kernel is not locked.
Rescheduled == stale' = IF k.nest = 0 THEN {} ELSE stale

-----------------------------------------------------------------------------
(* rt_schedule, called by an API function after interrupts are enabled *)

CallSchedule(t) ==
  /\ At(t, "sched")
  /\ k' = Schedule(k)
  /\ Goto(t, "run")
  /\ Rescheduled
  /\ UNCHANGED <<isr, target>>

\* rt_schedule called by a thread itself, which functions that do not call it
\* leave to their callers: rt_thread_resume, rt_thread_control.
Reschedule(t) ==
  /\ At(t, "run")
  /\ k' = Schedule(k)
  /\ Rescheduled
  /\ UNCHANGED <<isr, pc, target>>

-----------------------------------------------------------------------------
(* rt_thread_create, rt_thread_startup. A startup is one step up to its    *)
(* rt_schedule, though the code enables interrupts within: the new thread  *)
(* is on no list and its timer does not run, so the tick does not find it, *)
(* and callers leave a thread alone that another one starts.               *)

Create(t, u) ==
  /\ At(t, "run")
  /\ u \in Mortal /\ k.stat[u] = "FREE" /\ Unclaimed(u)
  /\ \E p \in NewPrio :
       k' = [k EXCEPT !.stat[u] = "INIT", !.prio[u] = p, !.yield[u] = FALSE,
                      !.slice[u] = InitTick[u], !.error[u] = "EOK"]
  /\ pc' = [pc EXCEPT ![u] = "run"]
  /\ UNCHANGED <<isr, target, stale>>

Startup(t, u) ==
  /\ At(t, "run")
  /\ k.stat[u] = "INIT" /\ Unclaimed(u)
  /\ k' = ResumeThread([k EXCEPT !.stat[u] = "SUSPEND", !.yield[u] = FALSE], u)
  /\ Goto(t, "sched")
  /\ UNCHANGED <<isr, target, stale>>

-----------------------------------------------------------------------------
(* rt_thread_yield *)

Yield(t) ==
  /\ At(t, "run")
  /\ k' = [k EXCEPT !.slice[t] = InitTick[t], !.yield[t] = TRUE]
  /\ Goto(t, "sched")
  /\ UNCHANGED <<isr, target, stale>>

-----------------------------------------------------------------------------
(* rt_thread_sleep: suspend and arm the timer; then, with interrupts       *)
(* enabled, mark the sleep as interrupted; schedule; read the outcome.     *)
(* A thread blocks with the scheduler unlocked (RT_DEBUG_SCHEDULER_...).   *)

\* mutant: the suspension comes second and stops the timer
ArmSleepFirst(s, t, d) == SuspendThread(TimerStart(s, t, d), t)

ArmSleep(s, t, d) == TimerStart(SuspendThread(s, t), t, d)

SleepBlock(t) ==
  /\ At(t, "run")
  /\ t # Idle /\ k.nest = 0
  /\ \E d \in Delays :
       k' = ArmSleep([k EXCEPT !.error[t] = "EOK"], t, d)
  /\ Goto(t, "sleep_mark")
  /\ UNCHANGED <<isr, target, stale>>

SleepMark(t) ==
  /\ At(t, "sleep_mark")
  /\ k' = [k EXCEPT !.error[t] = "EINTR"]
  /\ Goto(t, "sleep_sched")
  /\ UNCHANGED <<isr, target, stale>>

SleepSchedule(t) ==
  /\ At(t, "sleep_sched")
  /\ k' = Schedule(k)
  /\ Goto(t, "sleep_return")
  /\ Rescheduled
  /\ UNCHANGED <<isr, target>>

SleepReturn(t) ==
  /\ At(t, "sleep_return")
  /\ k' = IF k.error[t] = "ETIMEOUT" THEN [k EXCEPT !.error[t] = "EOK"] ELSE k
  /\ Goto(t, "run")
  /\ UNCHANGED <<isr, target, stale>>

-----------------------------------------------------------------------------
(* rt_thread_suspend of the calling thread, then its rt_schedule *)

Suspend(t) ==
  /\ At(t, "run")
  /\ t # Idle /\ k.nest = 0
  /\ k' = SuspendThread(k, t)
  /\ Goto(t, "sched")
  /\ UNCHANGED <<isr, target, stale>>

(* rt_thread_resume tests the state, unlinks the thread and inserts it,    *)
(* with interrupts enabled in between. Without the race "resume", callers  *)
(* only resume a thread whose timer is not running. It does not call       *)
(* rt_schedule: the caller goes on, even in front of a higher thread.      *)

ResumeTest(t, u) ==
  /\ At(t, "run")
  /\ k.stat[u] = "SUSPEND" /\ Unclaimed(u)
  /\ \/ "resume" \in Raced
     \/ ~Contains(k.timers, u)
  /\ Goto(t, "resume_unlink")
  /\ target' = [target EXCEPT ![t] = u]
  /\ UNCHANGED <<k, isr, stale>>

ResumeUnlink(t) ==
  /\ At(t, "resume_unlink")
  /\ k' = TimerStop(ListRemove(k, target[t]), target[t])
  /\ Goto(t, "resume_insert")
  /\ UNCHANGED <<isr, target, stale>>

ResumeInsert(t) ==
  /\ At(t, "resume_insert")
  /\ k' = InsertThread(k, target[t])
  /\ Goto(t, "run")
  /\ target' = [target EXCEPT ![t] = t]
  /\ stale' = stale \cup {target[t]}
  /\ UNCHANGED isr

-----------------------------------------------------------------------------
(* rt_thread_control(CHANGE_PRIORITY) does not schedule *)

ChangePriority(t, u) ==
  /\ At(t, "run")
  /\ u # Idle /\ Unclaimed(u) /\ k.stat[u] \notin {"FREE", "CLOSE"}
  /\ \E p \in NewPrio : k' = SetPriority(k, u, p)
  /\ stale' = stale \cup {u}
  /\ UNCHANGED <<isr, pc, target>>

-----------------------------------------------------------------------------
(* rt_enter_critical, rt_exit_critical *)

EnterCritical(t) ==
  /\ At(t, "run")
  /\ k.nest < MaxNest
  /\ k' = [k EXCEPT !.nest = @ + 1]
  /\ UNCHANGED <<isr, pc, target, stale>>

ExitCritical(t) ==
  /\ At(t, "run")
  /\ k.nest > 0
  /\ k' = [k EXCEPT !.nest = @ - 1]
  /\ Goto(t, IF k.nest = 1 THEN "sched" ELSE "run")
  /\ UNCHANGED <<isr, target, stale>>

-----------------------------------------------------------------------------
(* The end of a thread: _thread_exit, rt_thread_detach, rt_thread_delete   *)

\* Timer off, closed, and at the front of the list the idle thread reaps.
Close(s, u) ==
  [TimerStop(s, u) EXCEPT !.stat[u] = "CLOSE", !.yield[u] = FALSE,
                          !.defunct = <<u>> \o s.defunct]

Exit(t) ==
  /\ At(t, "run")
  /\ t \in Mortal /\ k.nest = 0
  /\ k' = Close(RemoveThread(k, t), t)
  /\ Goto(t, "dead")
  /\ UNCHANGED <<isr, target, stale>>

ExitSchedule(t) ==
  /\ At(t, "dead")
  /\ k' = Schedule(k)
  /\ Rescheduled
  /\ UNCHANGED <<isr, pc, target>>

\* The first step of a deletion runs before interrupts are disabled. Without
\* the race "delete", callers only delete a thread whose timer is stopped.
DeleteUnlink(t, u) ==
  /\ At(t, "run")
  /\ u \in Mortal \ {t} /\ Unclaimed(u) /\ k.stat[u] \notin {"FREE", "CLOSE"}
  /\ \/ "delete" \in Raced
     \/ ~Contains(k.timers, u) /\ pc[u] # "delete_close"
  /\ k' = IF k.stat[u] = "INIT" THEN k ELSE RemoveThread(k, u)
  /\ Goto(t, "delete_close")
  /\ target' = [target EXCEPT ![t] = u]
  /\ UNCHANGED <<isr, stale>>

DeleteClose(t) ==
  /\ At(t, "delete_close")
  /\ k' = Close(k, target[t])
  /\ pc' = [pc EXCEPT ![t] = "run", ![target[t]] = "dead"]
  /\ target' = [target EXCEPT ![t] = t]
  /\ UNCHANGED <<isr, stale>>

\* rt_defunct_execute frees the threads of the defunct list.
Reap ==
  /\ At(Idle, "run")
  /\ k.defunct # <<>>
  /\ LET u == Head(k.defunct) IN
       k' = [ListRemove(k, u) EXCEPT !.stat[u] = "FREE"]
  /\ UNCHANGED <<isr, pc, target, stale>>

-----------------------------------------------------------------------------
(* The tick reschedules when a slice ends and when a timer expires. *)

TickReschedules == \/ isr = "none" /\ k.slice[k.cur] = 1
                   \/ isr = "tick" /\ TimerExpired(k)

Interrupt ==
  /\ TickStep
  /\ IF TickReschedules THEN Rescheduled ELSE stale' = stale
  /\ UNCHANGED <<pc, target>>

ThreadStep(t) ==
  \/ CallSchedule(t) \/ Reschedule(t) \/ Yield(t) \/ Suspend(t)
  \/ SleepBlock(t) \/ SleepMark(t) \/ SleepSchedule(t) \/ SleepReturn(t)
  \/ ResumeUnlink(t) \/ ResumeInsert(t)
  \/ EnterCritical(t) \/ ExitCritical(t)
  \/ Exit(t) \/ ExitSchedule(t) \/ DeleteClose(t)
  \/ \E u \in Thread : \/ Create(t, u) \/ Startup(t, u)
                       \/ ResumeTest(t, u) \/ ChangePriority(t, u)
                       \/ DeleteUnlink(t, u)

Init ==
  /\ \E cur \in Started :
       /\ \A t \in Started : InitPrio[cur] <= InitPrio[t]
       /\ k = KernelStart(Started, cur, InitPrio)
  /\ isr = "none"
  /\ pc = [t \in Thread |-> "run"]
  /\ target = [t \in Thread |-> t]
  /\ stale = {}

Next == Interrupt \/ Reap \/ \E t \in Thread : ThreadStep(t)

Spec == Init /\ [][Next]_tvars
-----------------------------------------------------------------------------
(* Properties *)

\* The kernel record and the program counters have their types.
TypeOK ==
  /\ k \in KernelState
  /\ isr \in {"none", "tick"}
  /\ pc \in [Thread -> PC]
  /\ target \in [Thread -> Thread]
  /\ stale \in SUBSET Thread

\* u is off every list on purpose: a resume or a deletion has unlinked it
\* and not yet inserted or closed it.
InTransit(u) ==
  \E t \in Thread : pc[t] \in {"resume_insert", "delete_close"} /\ target[t] = u

\* The lists that hold the tlist node of t.
Homes(t) ==
  {<<"ready", p>> : p \in {q \in Prio : Contains(k.ready[q], t)}}
    \cup {<<"wait", w>> : w \in {v \in WaitList : Contains(k.wait[v], t)}}
    \cup (IF Contains(k.defunct, t) THEN {<<"defunct", 0>>} ELSE {})

\* A thread is linked exactly where its state says: a ready one in the queue
\* of its current priority, a closed one in the defunct list, a suspended one
\* in at most one wait list, the running one nowhere, whatever the order in
\* which the thread functions and the tick move the shared list node.
NodeWhereStateSays ==
  \A t \in Thread :
    IF InTransit(t) THEN Homes(t) = {}
    ELSE CASE k.stat[t] = "READY"   -> Homes(t) = {<<"ready", k.prio[t]>>}
           [] k.stat[t] = "CLOSE"   -> Homes(t) = {<<"defunct", 0>>}
           [] k.stat[t] = "SUSPEND" -> \A g, h \in Homes(t) : g = h /\ h[1] = "wait"
           [] OTHER                 -> Homes(t) = {}

\* rt_schedule trusts the bitmap to find a thread: a bit is set exactly when
\* the queue of that priority holds a thread, and never twice the same one.
BitmapMatchesQueues ==
  \A p \in Prio : /\ p \in k.group <=> k.ready[p] # <<>>
                  /\ IsInjective(k.ready[p])

\* A thread that runs its own code with the scheduler unlocked is in front of
\* a ready thread of higher priority only where rt_thread_resume or a priority
\* change, which do not call rt_schedule, has left it so: since rt_schedule last
\* ran, the ready thread was resumed or one of the two got another priority.
HighestPriorityRuns ==
  (isr = "none" /\ k.nest = 0 /\ pc[k.cur] = "run" /\ k.cur \notin stale)
    => \A p \in Prio, t \in Thread :
          p < k.prio[k.cur] /\ Contains(k.ready[p], t) => t \in stale

\* With the tick wrapping around, no thread timer is left behind when the
\* handler returns, and the list stays in the order of expiry.
NoTimerOverdue ==
  isr = "none" =>
    \A i \in DOMAIN k.timers :
       LET left(j) == TicksFrom(k.tick, k.timeout[k.timers[j]]) IN
       /\ left(i) \in 1 .. TickHalf - 1
       /\ \A j \in 1 .. i : left(j) <= left(i)

-----------------------------------------------------------------------------
(* Statements of comments in the code, see the findings of the README *)

\* "there is no time slices left(YIELD), inserting thread before ready list"
\* (scheduler_up.c): a running thread that loses the processor because its
\* slice is used up or it yields goes behind the threads of its priority.
SliceUsedGoesLast ==
  [][LET t == k.cur
         gaveUp == \/ k.yield[t]
                   \/ isr = "none" /\ isr' = "tick" /\ k.slice[t] = 1
     IN  (gaveUp /\ k.stat[t] = "RUNNING" /\ k'.stat[t] = "READY")
           => Last(k'.ready[k.prio[t]]) = t]_tvars

\* "The thread object will be removed from thread queue" (rt_thread_delete):
\* a deleted thread is not in a ready queue.
ClosedThreadOffQueue ==
  \A t \in Thread : k.stat[t] = "CLOSE" =>
     \A p \in Prio : ~Contains(k.ready[p], t)
=============================================================================
