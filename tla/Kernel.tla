------------------------------- MODULE Kernel -------------------------------
(***************************************************************************)
(* The kernel core every RT-Thread service of this firmware goes through:  *)
(* the uniprocessor scheduler (scheduler_up.c), suspending and resuming a  *)
(* thread (thread.c), the timers of the threads and the SysTick handler    *)
(* (clock.c).                                                              *)
(*                                                                         *)
(* The C functions are operators from a kernel record to a kernel record,  *)
(* so that a function that calls another is the composition of the two.    *)
(* What a function does with interrupts disabled is one operator; whoever  *)
(* uses it decides where interrupts are enabled between two of them.       *)
(*                                                                         *)
(* The intrusive tlist node of a thread is modelled by the sequences it    *)
(* can be linked into: a ready queue, the suspend list of an IPC object,   *)
(* or the defunct list of the idle thread.                                 *)
(***************************************************************************)
EXTENDS TimerList

CONSTANTS
  Thread,     \* the threads, the idle thread included
  Idle,       \* the idle thread of idle.c
  PrioMax,    \* RT_THREAD_PRIORITY_MAX: priorities are 0 .. PrioMax-1, 0 first
  WaitList,   \* the suspend lists of the IPC objects of the instance
  InitTick    \* thread->init_tick: the time slice of each thread

Prio == 0 .. PrioMax - 1

ASSUME KernelAssumption ==
  /\ IsFiniteSet(Thread) /\ Idle \in Thread
  /\ PrioMax \in Nat \ {0}
  /\ InitTick \in [Thread -> Nat \ {0}]

Stat == {"FREE", "INIT", "READY", "RUNNING", "SUSPEND", "CLOSE"}
Error == {"EOK", "ETIMEOUT", "EINTR", "ERROR"}

VARIABLES
  k,      \* the kernel record, see KernelState
  isr     \* "none", or the interrupt handler that is running

KernelState ==
  [ ready   : [Prio -> Seq(Thread)],      \* rt_thread_priority_table
    group   : SUBSET Prio,                \* rt_thread_ready_priority_group
    wait    : [WaitList -> Seq(Thread)],  \* suspend_thread of the IPC objects
    defunct : Seq(Thread),                \* _rt_thread_defunct
    cur     : Thread,                     \* rt_current_thread
    nest    : Nat,                        \* rt_scheduler_lock_nest
    stat    : [Thread -> Stat],
    yield   : [Thread -> BOOLEAN],        \* RT_THREAD_STAT_YIELD of stat
    prio    : [Thread -> Prio],           \* current_priority and number_mask
    slice   : [Thread -> Nat \ {0}],      \* remaining_tick
    error   : [Thread -> Error],
    tick    : Tick,                       \* rt_tick
    timers  : Seq(Thread),                \* _timer_list
    timeout : [Thread -> Tick] ]          \* timeout_tick of a linked timer

-----------------------------------------------------------------------------
(* Ready queues *)

\* rt_list_remove(&thread->tlist): out of whatever list holds the node.
ListRemove(s, t) ==
  [s EXCEPT !.ready   = [p \in Prio |-> RemoveFirst(s.ready[p], t)],
            !.wait    = [w \in WaitList |-> RemoveFirst(s.wait[w], t)],
            !.defunct = RemoveFirst(s.defunct, t)]

\* A thread whose slice is used up goes last, a preempted one first. The
\* current thread is only marked as running: it is in no queue.
InsertThread(s, t) ==
  LET p == s.prio[t] IN
  IF t = s.cur
  THEN [s EXCEPT !.stat[t] = "RUNNING"]
  ELSE [s EXCEPT !.stat[t]  = "READY",
                 !.ready[p] = IF s.yield[t] THEN Append(s.ready[p], t)
                                            ELSE <<t>> \o s.ready[p],
                 !.group    = s.group \cup {p}]

RemoveThreadKeepsBit(s, t) == ListRemove(s, t)      \* mutant: bit not cleared

\* The bit that is cleared is the one of the thread's current priority.
RemoveThread(s, t) ==
  LET r == ListRemove(s, t) IN
  IF r.ready[s.prio[t]] = <<>>
  THEN [r EXCEPT !.group = s.group \ {s.prio[t]}]
  ELSE r

HighestPrio(s) == Min(s.group)

\* mutant: the priorities are not compared
KeepsRunningAnyPrio(s) == s.stat[s.cur] = "RUNNING" /\ ~s.yield[s.cur]

\* The current thread goes on running: it is ahead of every ready thread, or
\* level with the first of them and has not given up its slice.
KeepsRunning(s) ==
  /\ s.stat[s.cur] = "RUNNING"
  /\ \/ s.prio[s.cur] < HighestPrio(s)
     \/ s.prio[s.cur] = HighestPrio(s) /\ ~s.yield[s.cur]

\* The yield mark of a running thread is cleared before it is queued again.
ClearYield(s) ==
  IF s.stat[s.cur] = "RUNNING" THEN [s EXCEPT !.yield[s.cur] = FALSE] ELSE s

SetRunning(s, t) == [RemoveThread(s, t) EXCEPT !.stat[t] = "RUNNING"]

SwitchTo(s, to) ==
  LET from     == s.cur
      switched == [s EXCEPT !.cur = to]
      queued   == IF s.stat[from] = "RUNNING" THEN InsertThread(switched, from)
                                              ELSE switched
  IN  SetRunning(queued, to)

Schedule(s) ==
  IF s.nest # 0 \/ s.group = {} THEN s
  ELSE IF KeepsRunning(s) THEN SetRunning(ClearYield(s), s.cur)
       ELSE SwitchTo(ClearYield(s), Head(s.ready[HighestPrio(s)]))

-----------------------------------------------------------------------------
(* Suspend, resume, time out *)

SuspendThread(s, t) ==
  IF s.stat[t] \in {"READY", "RUNNING"}
  THEN TimerStop([RemoveThread(s, t) EXCEPT !.stat[t] = "SUSPEND"], t)
  ELSE s

\* mutant: the timer of the resumed thread goes on running
ResumeThreadTimerRuns(s, t) ==
  IF s.stat[t] = "SUSPEND" THEN InsertThread(ListRemove(s, t), t) ELSE s

ResumeThread(s, t) ==
  IF s.stat[t] = "SUSPEND"
  THEN InsertThread(TimerStop(ListRemove(s, t), t), t)
  ELSE s

\* mutant: the thread is not put back
ThreadTimeoutLost(s, t) == ListRemove([s EXCEPT !.error[t] = "ETIMEOUT"], t)

ThreadTimeout(s, t) ==
  Schedule(InsertThread(ListRemove([s EXCEPT !.error[t] = "ETIMEOUT"], t), t))

\* mutant: a ready thread is not requeued
SetPriorityInPlace(s, u, p) == [s EXCEPT !.prio[u] = p]

\* rt_thread_control(CHANGE_PRIORITY): only a ready thread changes its place.
SetPriority(s, u, p) ==
  IF s.stat[u] = "READY"
  THEN InsertThread([RemoveThread(s, u) EXCEPT !.prio[u] = p], u)
  ELSE [s EXCEPT !.prio[u] = p]

-----------------------------------------------------------------------------
(* SysTick_Handler: rt_tick_increase, then one step per expired timer *)

SliceEnd(s) ==
  Schedule([s EXCEPT !.slice[s.cur] = InitTick[s.cur], !.yield[s.cur] = TRUE])

TickIncrease(s) ==
  LET ticked == [s EXCEPT !.tick = NextTick(s)] IN
  IF s.slice[s.cur] = 1 THEN SliceEnd(ticked)
                        ELSE [ticked EXCEPT !.slice[s.cur] = @ - 1]

TickEnter ==
  /\ isr = "none"
  /\ isr' = "tick"
  /\ k' = TickIncrease(k)

TimerExpire ==
  /\ isr = "tick"
  /\ TimerExpired(k)
  /\ LET t == Head(k.timers) IN k' = ThreadTimeout(TimerStop(k, t), t)
  /\ UNCHANGED isr

TickExit ==
  /\ isr = "tick"
  /\ ~TimerExpired(k)
  /\ isr' = "none"
  /\ UNCHANGED k

TickStep == TickEnter \/ TimerExpire \/ TickExit

\* A thread runs when it is the current one and no handler is.
Executes(t) == isr = "none" /\ k.cur = t

-----------------------------------------------------------------------------
(* The state after rt_system_scheduler_start: the threads of started are    *)
(* ready in some queue, cur runs, the others are not allocated.             *)

KernelStart(started, cur, prio) ==
  LET others == started \ {cur}
      queued(p) == SetToSeq({t \in others : prio[t] = p})
  IN  [ ready   |-> [p \in Prio |-> queued(p)],
        group   |-> {prio[t] : t \in others},
        wait    |-> [w \in WaitList |-> <<>>],
        defunct |-> <<>>,
        cur     |-> cur,
        nest    |-> 0,
        stat    |-> [t \in Thread |-> IF t = cur THEN "RUNNING"
                                      ELSE IF t \in started THEN "READY"
                                      ELSE "FREE"],
        yield   |-> [t \in Thread |-> FALSE],
        prio    |-> prio,
        slice   |-> InitTick,
        error   |-> [t \in Thread |-> "EOK"],
        tick    |-> 0,
        timers  |-> <<>>,
        timeout |-> [t \in Thread |-> 0] ]
=============================================================================
