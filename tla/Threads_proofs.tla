--------------------------- MODULE Threads_proofs ---------------------------
(***************************************************************************)
(* The thread API keeps the lists of the kernel consistent, no timer is    *)
(* overdue and the foremost thread runs, for any number of threads and     *)
(* priorities, when no two of them race for a third one (Raced = {}):      *)
(* neither resumes nor deletes a thread whose timer runs.                  *)
(***************************************************************************)
EXTENDS Threads, Kernel_proofs

Claims(t) == pc[t] \in {"resume_unlink", "resume_insert", "delete_close"}

\* The threads that are off every list, on their way.
Off == {target[t] : t \in {u \in Thread : pc[u] \in {"resume_insert", "delete_close"}}}

\* Where a thread that has blocked or ended itself has not yet called rt_schedule.
Blocking == {"sched", "sleep_mark", "sleep_sched", "dead"}

ControlOK ==
  /\ isr \in {"none", "tick"}
  /\ pc \in [Thread -> PC]
  /\ target \in [Thread -> Thread]
  /\ stale \in SUBSET Thread

CurrentRuns ==
  \/ k.stat[k.cur] = "RUNNING"
  \/ k.nest = 0 /\ pc[k.cur] \in Blocking

IdleCanRun == k.stat[Idle] \in {"READY", "RUNNING"}

OneClaim ==
  \A t, u \in Thread : Claims(t) /\ Claims(u) /\ target[t] = target[u] => t = u

ClaimedIsStill ==
  \A t \in Thread : Claims(t) =>
     /\ target[t] # k.cur /\ target[t] # Idle
     /\ ~Contains(k.timers, target[t])

ResumedIsSuspended ==
  \A t \in Thread : pc[t] \in {"resume_unlink", "resume_insert"} =>
     k.stat[target[t]] = "SUSPEND"

ClaimantLives ==
  \A t \in Thread : Claims(t) => k.stat[t] \in {"READY", "RUNNING"}

DeletedIsNotDeleting ==
  \A t \in Thread : pc[t] = "delete_close" =>
     /\ k.stat[target[t]] \in {"INIT", "READY", "SUSPEND"}
     /\ pc[target[t]] # "delete_close"

IInv ==
  /\ ControlOK
  /\ Sound(k, Off)
  /\ CurrentSound(k, Off)
  /\ CurrentRuns
  /\ IdleCanRun
  /\ OneClaim
  /\ ClaimedIsStill
  /\ ResumedIsSuspended
  /\ ClaimantLives
  /\ DeletedIsNotDeleting

-----------------------------------------------------------------------------
(* Consequences of the invariant *)

\* What the invariant says of the current thread, of the idle thread and of
\* the threads in transit.
LEMMA IInvFacts ==
  ASSUME IInv
  PROVE  /\ k \in KernelState /\ k.cur \in Thread /\ k.cur \notin Off
         /\ Off \subseteq Thread
         /\ Idle \in Thread /\ Idle \notin Off
         /\ \A u \in Off : \E t \in Thread : Claims(t) /\ u = target[t]
         /\ \A u \in Thread : Unclaimed(u) => u \notin Off
BY KernelAssumption, TickAssumption DEF IInv, ControlOK, CurrentSound, Sound, KernelState, Off,
                        ClaimedIsStill, Claims, Unclaimed

\* A thread that executes outside of the blocking functions is running.
LEMMA ExecutingRuns ==
  ASSUME IInv, NEW t \in Thread, Executes(t), pc[t] \notin Blocking
  PROVE  /\ t = k.cur /\ k.stat[t] = "RUNNING" /\ t \notin Off
         /\ ~Contains(k.timers, t)
BY IInvFacts DEF IInv, CurrentRuns, Executes, Sound, TimersSound

\* With the scheduler unlocked, somebody can take over.
LEMMA SomebodyReady ==
  ASSUME IInv, k.stat[k.cur] # "RUNNING"
  PROVE  k.nest = 0 /\ k.group # {}
<1>1. Idle # k.cur /\ k.stat[Idle] = "READY" /\ Idle \in Thread /\ Idle \notin Off
  BY IInvFacts DEF IInv, IdleCanRun, CurrentSound
<1>2. k.prio[Idle] \in Prio
  BY <1>1, IInvFacts DEF KernelState
<1>3. Contains(k.ready[k.prio[Idle]], Idle)
  BY <1>1, <1>2 DEF IInv, Sound, ReadySound
<1>4. k.ready[k.prio[Idle]] # <<>>
  BY <1>3, EmptyFacts
<1>5. k.prio[Idle] \in k.group
  BY <1>2, <1>4 DEF IInv, Sound, ListsSound
<1> QED BY <1>5 DEF IInv, CurrentRuns

\* A step that neither makes nor ends a claim.
LEMMA SameClaimsStep ==
  ASSUME IInv,
         pc' \in [Thread -> PC], target' = target,
         isr' \in {"none", "tick"}, stale' \in SUBSET Thread,
         \A u \in Thread : \/ pc'[u] = pc[u]
                           \/ ~Claims(u) /\ ~Claims(u)',
         Sound(k', Off), CurrentSound(k', Off),
         CurrentRuns', IdleCanRun',
         \A u \in Thread : Claims(u) =>
            /\ k'.stat[target[u]] = k.stat[target[u]]
            /\ target[u] # k'.cur
            /\ ~Contains(k'.timers, target[u])
            /\ k'.stat[u] \in {"READY", "RUNNING"}
  PROVE  IInv'
<1>1. \A u \in Thread :
        /\ Claims(u)' <=> Claims(u)
        /\ Claims(u) => pc'[u] = pc[u]
        /\ \A c \in {"resume_unlink", "resume_insert", "delete_close"} :
              pc'[u] = c <=> pc[u] = c
  BY DEF Claims
<1>2. Off' = Off
  BY <1>1 DEF Off
<1>3. ControlOK'
  BY DEF IInv, ControlOK
<1>4. OneClaim' /\ ClaimedIsStill' /\ ClaimantLives'
  BY <1>1 DEF IInv, OneClaim, ClaimedIsStill, ClaimantLives
<1>5. ResumedIsSuspended'
  BY <1>1 DEF IInv, ResumedIsSuspended, Claims
<1>6. DeletedIsNotDeleting'
  BY <1>1 DEF IInv, DeletedIsNotDeleting, Claims, ControlOK
<1> QED BY <1>2, <1>3, <1>4, <1>5, <1>6 DEF IInv

\* The tick, and rt_schedule.
LEMMA ProgressStep ==
  ASSUME IInv, NEW W \in SUBSET Thread,
         pc' \in [Thread -> PC], target' = target,
         isr' \in {"none", "tick"}, stale' \in SUBSET Thread,
         \A u \in Thread : \/ pc'[u] = pc[u]
                           \/ ~Claims(u) /\ ~Claims(u)',
         Sound(k', Off), CurrentSound(k', Off), Progress(k', k, Off, W),
         \A u \in W : Contains(k.timers, u),
         k'.stat[k'.cur] = "RUNNING" \/ pc'[k'.cur] = pc[k'.cur]
  PROVE  IInv'
<1>0. k \in KernelState /\ k' \in KernelState /\ k.cur \in Thread
  BY DEF IInv, Sound, KernelState
<1>1. CurrentRuns'
  BY <1>0 DEF IInv, CurrentRuns, Progress
<1>2. IdleCanRun'
  BY IInvFacts DEF IInv, IdleCanRun, Progress
<1>3. ASSUME NEW u \in Thread, Claims(u)
      PROVE  /\ k'.stat[target[u]] = k.stat[target[u]]
             /\ target[u] # k'.cur
             /\ ~Contains(k'.timers, target[u])
             /\ k'.stat[u] \in {"READY", "RUNNING"}
  <2>0. target[u] \in Thread
    BY DEF IInv, ControlOK
  <2>1. target[u] \notin W /\ target[u] # k.cur /\ ~Contains(k.timers, target[u])
    BY <1>3 DEF IInv, ClaimedIsStill
  <2>2. k'.stat[u] \in {"READY", "RUNNING"}
    BY <1>3 DEF IInv, ClaimantLives, Progress
  <2>3. target[u] \in Off \/ k.stat[target[u]] = "SUSPEND"
    BY <1>3 DEF Claims, Off, IInv, ResumedIsSuspended
  <2>4. k'.stat[target[u]] = k.stat[target[u]]
    BY <2>0, <2>1, <2>3 DEF Progress
  <2>5. target[u] # k'.cur
    BY <2>0, <2>1, <2>3 DEF Progress
  <2> QED BY <2>0, <2>1, <2>2, <2>4, <2>5 DEF Progress
<1> QED BY <1>1, <1>2, <1>3, SameClaimsStep

\* The SysTick handler, at each of its steps, keeps the invariant.
LEMMA InterruptStep ==
  ASSUME IInv, Interrupt
  PROVE  IInv'
<1>1. /\ Sound(k', Off) /\ CurrentSound(k', Off) /\ isr' \in {"none", "tick"}
      /\ \E W \in SUBSET Thread :
           /\ Progress(k', k, Off, W)
           /\ \A t \in W : Contains(k.timers, t) /\ k.stat[t] = "SUSPEND"
  BY TickStepSound DEF Interrupt, IInv
<1>2. pc' = pc /\ target' = target /\ stale' \in SUBSET Thread
  BY DEF Interrupt, Rescheduled, IInv, ControlOK
<1> QED BY <1>1, <1>2, ProgressStep DEF IInv, ControlOK

\* rt_schedule, called by the current thread, which goes on at c when it runs
\* again.
LEMMA ScheduleStep ==
  ASSUME IInv, NEW t \in Thread, NEW c \in PC, Executes(t),
         pc[t] \in Blocking \cup {"run"},
         c \notin {"resume_unlink", "resume_insert", "delete_close"},
         k' = Schedule(k), pc' = [pc EXCEPT ![t] = c], isr' = isr,
         target' = target, stale' \in SUBSET Thread
  PROVE  IInv'
<1>1. Sound(k', Off) /\ CurrentSound(k', Off) /\ AfterSchedule(k', k, Off)
  BY ScheduleSound DEF IInv
<1>2. k'.stat[k'.cur] = "RUNNING"
  BY <1>1, SomebodyReady DEF AfterSchedule
<1>3. Progress(k', k, Off, {})
  BY <1>1 DEF AfterSchedule, Progress, TimedOut, SameWaits
<1>4. /\ pc' \in [Thread -> PC] /\ isr' \in {"none", "tick"}
      /\ \A u \in Thread : \/ pc'[u] = pc[u]
                           \/ ~Claims(u) /\ ~Claims(u)'
  BY DEF IInv, ControlOK, Claims, Blocking
<1> QED BY <1>1, <1>2, <1>3, <1>4, ProgressStep

-----------------------------------------------------------------------------
(* Steps of the running thread that make and end no claim *)

\* Only fields change that the lists do not depend on.
SameFields ==
  /\ k'.cur = k.cur /\ k'.stat = k.stat /\ k'.prio = k.prio
  /\ k'.ready = k.ready /\ k'.group = k.group /\ k'.wait = k.wait
  /\ k'.defunct = k.defunct /\ k'.timers = k.timers

MayBlockAt(t, c) ==
  \/ k.stat[t] = "RUNNING"
  \/ k'.nest = k.nest /\ c \in Blocking

\* A step that changes no list and no state keeps the invariant.
LEMMA FieldsStep ==
  ASSUME IInv, NEW t \in Thread, NEW c \in PC, Executes(t),
         pc[t] \notin {"resume_unlink", "resume_insert", "delete_close"},
         c \notin {"resume_unlink", "resume_insert", "delete_close"},
         k' \in KernelState, SameFields,
         MayBlockAt(t, c),
         pc' = [pc EXCEPT ![t] = c], isr' = isr,
         target' = target, stale' \in SUBSET Thread
  PROVE  IInv'
<1>1. k \in KernelState /\ k.cur = t
  BY IInvFacts DEF Executes
<1>2. k'.cur = k.cur /\ k'.stat = k.stat /\ k'.prio = k.prio /\ k'.timers = k.timers
  BY DEF SameFields
<1>3. Sound(k', Off) /\ CurrentSound(k', Off)
  BY <1>2, SoundFrame DEF IInv, CurrentSound, SameFields
<1>4. /\ pc' \in [Thread -> PC] /\ pc'[t] = c
      /\ \A u \in Thread : \/ pc'[u] = pc[u]
                           \/ ~Claims(u) /\ ~Claims(u)'
  BY DEF IInv, ControlOK, Claims
<1>5. CurrentRuns' /\ IdleCanRun'
  BY <1>1, <1>2, <1>4 DEF IInv, CurrentRuns, IdleCanRun, MayBlockAt
<1>6. isr' \in {"none", "tick"}
  BY DEF IInv, ControlOK
<1>7. \A u \in Thread : Claims(u) =>
            /\ k'.stat[target[u]] = k.stat[target[u]]
            /\ target[u] # k'.cur
            /\ ~Contains(k'.timers, target[u])
            /\ k'.stat[u] \in {"READY", "RUNNING"}
  BY <1>2 DEF IInv, ClaimedIsStill, ClaimantLives
<1> QED BY <1>3, <1>4, <1>5, <1>6, <1>7, SameClaimsStep

\* rt_thread_yield keeps the invariant.
LEMMA YieldStep ==
  ASSUME IInv, NEW t \in Thread, Yield(t)
  PROVE  IInv'
<1>1. k.stat[t] = "RUNNING" /\ Executes(t) /\ pc[t] = "run"
  BY ExecutingRuns DEF Yield, At, Blocking
<1>2. k' \in KernelState /\ SameFields
  <2>1. InitTick[t] \in Nat \ {0}
    BY KernelAssumption, TickAssumption
  <2> QED BY <2>1, IInvFacts DEF Yield, KernelState, SameFields
<1>3. /\ pc' = [pc EXCEPT ![t] = "sched"] /\ isr' = isr
      /\ target' = target /\ stale' \in SUBSET Thread
  BY DEF Yield, Goto, IInv, ControlOK
<1>4. \A c : MayBlockAt(t, c)
  BY <1>1 DEF MayBlockAt
<1> QED BY <1>1, <1>2, <1>3, <1>4, FieldsStep DEF PC

\* rt_thread_sleep's write of -RT_EINTR keeps the invariant.
LEMMA SleepMarkStep ==
  ASSUME IInv, NEW t \in Thread, SleepMark(t)
  PROVE  IInv'
<1>1. Executes(t) /\ pc[t] = "sleep_mark"
  BY DEF SleepMark, At
<1>2. k' \in KernelState /\ SameFields /\ k'.nest = k.nest
  BY IInvFacts DEF SleepMark, KernelState, SameFields, Error
<1>3. /\ pc' = [pc EXCEPT ![t] = "sleep_sched"] /\ isr' = isr
      /\ target' = target /\ stale' \in SUBSET Thread
  BY DEF SleepMark, Goto, IInv, ControlOK
<1> QED BY <1>1, <1>2, <1>3, FieldsStep DEF PC, Blocking, MayBlockAt

\* The return of rt_thread_sleep keeps the invariant.
LEMMA SleepReturnStep ==
  ASSUME IInv, NEW t \in Thread, SleepReturn(t)
  PROVE  IInv'
<1>1. Executes(t) /\ pc[t] = "sleep_return" /\ k.stat[t] = "RUNNING"
  BY ExecutingRuns DEF SleepReturn, At, Blocking
<1>2. k' \in KernelState /\ SameFields
  BY IInvFacts DEF SleepReturn, KernelState, SameFields, Error
<1>3. /\ pc' = [pc EXCEPT ![t] = "run"] /\ isr' = isr
      /\ target' = target /\ stale' \in SUBSET Thread
  BY DEF SleepReturn, Goto, IInv, ControlOK
<1>4. \A c : MayBlockAt(t, c)
  BY <1>1 DEF MayBlockAt
<1> QED BY <1>1, <1>2, <1>3, <1>4, FieldsStep DEF PC

\* rt_enter_critical keeps the invariant.
LEMMA EnterCriticalStep ==
  ASSUME IInv, NEW t \in Thread, EnterCritical(t)
  PROVE  IInv'
<1>1. Executes(t) /\ pc[t] = "run" /\ k.stat[t] = "RUNNING"
  BY ExecutingRuns DEF EnterCritical, At, Blocking
<1>2. k' \in KernelState /\ SameFields
  <2>1. k \in KernelState /\ k.nest + 1 \in Nat
    BY IInvFacts DEF EnterCritical, KernelState
  <2>2. k' = [k EXCEPT !.nest = k.nest + 1]
    BY DEF EnterCritical
  <2> QED BY <2>1, <2>2 DEF KernelState, SameFields
<1>3. /\ pc' = [pc EXCEPT ![t] = "run"] /\ isr' = isr
      /\ target' = target /\ stale' \in SUBSET Thread
  BY <1>1 DEF EnterCritical, IInv, ControlOK
<1>4. \A c : MayBlockAt(t, c)
  BY <1>1 DEF MayBlockAt
<1> QED BY <1>1, <1>2, <1>3, <1>4, FieldsStep DEF PC

\* rt_exit_critical keeps the invariant.
LEMMA ExitCriticalStep ==
  ASSUME IInv, NEW t \in Thread, ExitCritical(t)
  PROVE  IInv'
<1>1. Executes(t) /\ pc[t] = "run" /\ k.stat[t] = "RUNNING"
  BY ExecutingRuns DEF ExitCritical, At, Blocking
<1>2. k' \in KernelState /\ SameFields
  <2>1. k \in KernelState /\ k.nest - 1 \in Nat
    BY IInvFacts DEF ExitCritical, KernelState
  <2>2. k' = [k EXCEPT !.nest = k.nest - 1]
    BY DEF ExitCritical
  <2> QED BY <2>1, <2>2 DEF KernelState, SameFields
<1> DEFINE c == IF k.nest = 1 THEN "sched" ELSE "run"
<1>3. /\ pc' = [pc EXCEPT ![t] = c] /\ isr' = isr
      /\ target' = target /\ stale' \in SUBSET Thread
  BY DEF ExitCritical, Goto, IInv, ControlOK
<1>4. c \in PC /\ c \in {"run", "sched"}
  BY DEF PC
<1> HIDE DEF c
<1>5. MayBlockAt(t, c)
  BY <1>1 DEF MayBlockAt
<1> QED BY <1>1, <1>2, <1>3, <1>4, <1>5, FieldsStep

\* rt_schedule, called by an API function, keeps the invariant.
LEMMA CallScheduleStep ==
  ASSUME IInv, NEW t \in Thread, CallSchedule(t)
  PROVE  IInv'
<1>1. /\ Executes(t) /\ pc[t] = "sched" /\ k' = Schedule(k) /\ isr' = isr
      /\ pc' = [pc EXCEPT ![t] = "run"] /\ target' = target
      /\ stale' \in SUBSET Thread
  BY DEF CallSchedule, At, Goto, Rescheduled, IInv, ControlOK
<1> QED BY <1>1, ScheduleStep DEF PC, Blocking

\* rt_schedule, called by rt_thread_sleep, keeps the invariant.
LEMMA SleepScheduleStep ==
  ASSUME IInv, NEW t \in Thread, SleepSchedule(t)
  PROVE  IInv'
<1>1. /\ Executes(t) /\ pc[t] = "sleep_sched" /\ k' = Schedule(k) /\ isr' = isr
      /\ pc' = [pc EXCEPT ![t] = "sleep_return"] /\ target' = target
      /\ stale' \in SUBSET Thread
  BY DEF SleepSchedule, At, Goto, Rescheduled, IInv, ControlOK
<1> QED BY <1>1, ScheduleStep DEF PC, Blocking

\* rt_schedule, called by a thread that has ended, keeps the invariant.
LEMMA ExitScheduleStep ==
  ASSUME IInv, NEW t \in Thread, ExitSchedule(t)
  PROVE  IInv'
<1>1. /\ Executes(t) /\ pc[t] = "dead" /\ k' = Schedule(k) /\ isr' = isr
      /\ pc' = [pc EXCEPT ![t] = "dead"] /\ target' = target
      /\ stale' \in SUBSET Thread
  BY DEF ExitSchedule, At, Rescheduled, IInv, ControlOK
<1> QED BY <1>1, ScheduleStep DEF PC, Blocking

\* rt_schedule, called by a thread in its own code, keeps the invariant.
LEMMA RescheduleStep ==
  ASSUME IInv, NEW t \in Thread, Reschedule(t)
  PROVE  IInv'
<1>1. /\ Executes(t) /\ pc[t] = "run" /\ k' = Schedule(k) /\ isr' = isr
      /\ pc' = [pc EXCEPT ![t] = "run"] /\ target' = target
      /\ stale' \in SUBSET Thread
  BY DEF Reschedule, At, Rescheduled, IInv, ControlOK
<1> QED BY <1>1, ScheduleStep DEF PC

\* Only the state of u changes, which nobody is resuming or deleting.
LEMMA OneThreadStep ==
  ASSUME IInv, NEW u \in Thread, NEW v, Unclaimed(u),
         Sound(k', Off), k'.cur = k.cur, k'.stat[u] = v,
         \A x \in Thread : x # u => k'.stat[x] = k.stat[x],
         \A x \in Thread : Contains(k'.timers, x) => (Contains(k.timers, x) \/ x = u),
         v \in {"READY", "RUNNING"} \/ (u # Idle /\ ~Claims(u)),
         u = k.cur => v # "READY", u # k.cur => v # "RUNNING",
         CurrentRuns',
         pc' \in [Thread -> PC], target' = target, isr' = isr,
         stale' \in SUBSET Thread,
         \A x \in Thread : \/ pc'[x] = pc[x]
                           \/ ~Claims(x) /\ ~Claims(x)'
  PROVE  IInv'
<1>1. CurrentSound(k', Off)
  BY IInvFacts DEF IInv, CurrentSound
<1>2. IdleCanRun'
  BY IInvFacts DEF IInv, IdleCanRun
<1>3. ASSUME NEW x \in Thread, Claims(x)
      PROVE  /\ k'.stat[target[x]] = k.stat[target[x]]
             /\ target[x] # k'.cur
             /\ ~Contains(k'.timers, target[x])
             /\ k'.stat[x] \in {"READY", "RUNNING"}
  <2>1. target[x] \in Thread /\ target[x] # u
    BY <1>3 DEF IInv, ControlOK, Unclaimed, Claims
  <2>2. target[x] # k.cur /\ ~Contains(k.timers, target[x])
        /\ k.stat[x] \in {"READY", "RUNNING"}
    BY <1>3 DEF IInv, ClaimedIsStill, ClaimantLives
  <2> QED BY <1>3, <2>1, <2>2
<1>4. isr' \in {"none", "tick"}
  BY DEF IInv, ControlOK
<1> QED BY <1>1, <1>2, <1>3, <1>4, SameClaimsStep

\* A running thread is nobody's target.
LEMMA RunningUnclaimed ==
  ASSUME IInv, NEW t \in Thread, t = k.cur
  PROVE  Unclaimed(t)
BY DEF IInv, ClaimedIsStill, Unclaimed, Claims

\* rt_thread_suspend keeps the invariant.
LEMMA SuspendStep ==
  ASSUME IInv, NEW t \in Thread, Suspend(t)
  PROVE  IInv'
<1>1. /\ t = k.cur /\ k.stat[t] = "RUNNING" /\ t \notin Off /\ pc[t] = "run"
      /\ Executes(t) /\ Unclaimed(t) /\ t # Idle /\ k.nest = 0
  BY ExecutingRuns, RunningUnclaimed DEF Suspend, At, Blocking
<1>2. /\ Sound(k', Off) /\ OnlyStat(k', k, t, "SUSPEND")
      /\ \A x : Contains(k'.timers, x) => Contains(k.timers, x)
  BY <1>1, SuspendThreadSound DEF Suspend, IInv
<1>3. /\ pc' = [pc EXCEPT ![t] = "sched"] /\ isr' = isr
      /\ target' = target /\ stale' \in SUBSET Thread
  BY DEF Suspend, Goto, IInv, ControlOK
<1>4. /\ pc' \in [Thread -> PC] /\ pc'[t] = "sched" /\ ~Claims(t) /\ ~Claims(t)'
      /\ \A x \in Thread : x # t => pc'[x] = pc[x]
  BY <1>1, <1>3 DEF IInv, ControlOK, PC, Claims
<1>5. CurrentRuns'
  BY <1>1, <1>2, <1>4 DEF CurrentRuns, OnlyStat, Blocking
<1> QED BY <1>1, <1>2, <1>3, <1>4, <1>5, OneThreadStep DEF OnlyStat

\* The suspension and arming of rt_thread_sleep keep the invariant.
LEMMA SleepBlockStep ==
  ASSUME IInv, NEW t \in Thread, SleepBlock(t)
  PROVE  IInv'
<1>1. /\ t = k.cur /\ k.stat[t] = "RUNNING" /\ t \notin Off /\ pc[t] = "run"
      /\ Executes(t) /\ Unclaimed(t) /\ t # Idle /\ k.nest = 0
  BY ExecutingRuns, RunningUnclaimed DEF SleepBlock, At, Blocking
<1> DEFINE e == [k EXCEPT !.error[t] = "EOK"]
           m == SuspendThread(e, t)
<1>2. PICK d \in Delays : k' = TimerStart(m, t, d)
  BY DEF SleepBlock, ArmSleep
<1>3. /\ Sound(e, Off) /\ e.stat = k.stat /\ e.cur = k.cur /\ e.nest = k.nest
      /\ e.timers = k.timers
  <2>1. /\ e \in KernelState /\ e.stat = k.stat /\ e.prio = k.prio
        /\ e.cur = k.cur /\ e.nest = k.nest
        /\ e.ready = k.ready /\ e.group = k.group /\ e.wait = k.wait
        /\ e.defunct = k.defunct /\ e.timers = k.timers
    BY IInvFacts DEF KernelState, Error
  <2> HIDE DEF e
  <2> QED BY <2>1, SoundFrame DEF IInv
<1> HIDE DEF e
<1>4. /\ Sound(m, Off) /\ OnlyStat(m, e, t, "SUSPEND")
      /\ \A x : Contains(m.timers, x) => Contains(e.timers, x)
  BY <1>1, <1>3, SuspendThreadSound
<1>5. d \in Int
  BY ThreadsAssumption
<1> HIDE DEF m
<1>6. m.stat[t] = "SUSPEND"
  BY <1>4 DEF OnlyStat
<1>7. /\ Sound(k', Off) /\ SameThreads(k', m)
      /\ \A x : Contains(k'.timers, x) => Contains(m.timers, x) \/ x = t
  BY <1>1, <1>2, <1>4, <1>5, <1>6, TimerStartSound
<1>9. /\ pc' = [pc EXCEPT ![t] = "sleep_mark"] /\ isr' = isr
      /\ target' = target /\ stale' \in SUBSET Thread
  BY DEF SleepBlock, Goto, IInv, ControlOK
<1>10. /\ pc' \in [Thread -> PC] /\ pc'[t] = "sleep_mark"
       /\ ~Claims(t) /\ ~Claims(t)'
       /\ \A x \in Thread : x # t => pc'[x] = pc[x]
  BY <1>1, <1>9 DEF IInv, ControlOK, PC, Claims
<1>11. /\ k'.cur = k.cur /\ k'.nest = k.nest /\ k'.stat[t] = "SUSPEND"
       /\ \A x \in Thread : x # t => k'.stat[x] = k.stat[x]
  BY <1>3, <1>4, <1>7 DEF OnlyStat, SameThreads
<1>12. CurrentRuns'
  BY <1>1, <1>10, <1>11 DEF CurrentRuns, Blocking
<1> QED BY <1>1, <1>3, <1>4, <1>7, <1>9, <1>10, <1>11, <1>12, OneThreadStep

\* The running thread goes on at c, or stays where it is.
LEMMA StartupStep ==
  ASSUME IInv, NEW t \in Thread, NEW u \in Thread, Startup(t, u)
  PROVE  IInv'
<1>1. /\ t = k.cur /\ k.stat[t] = "RUNNING" /\ pc[t] = "run" /\ Executes(t)
      /\ k.stat[u] = "INIT" /\ Unclaimed(u) /\ u # t /\ u \notin Off
  BY ExecutingRuns, IInvFacts DEF Startup, At, Blocking
<1> DEFINE m == [k EXCEPT !.stat[u] = "SUSPEND", !.yield[u] = FALSE]
<1>2. Sound(k, Off \cup {u})
  BY <1>1, SoundGrow DEF IInv
<1>3. /\ Sound(m, Off) /\ OnlyStat(m, k, u, "SUSPEND") /\ m.timers = k.timers
  <2> DEFINE n == [k EXCEPT !.stat[u] = "SUSPEND"]
  <2>1. Sound(n, Off \cup {u}) /\ n \in KernelState
    <3> DEFINE U == Off \cup {u}
    <3>1. Sound(k, U) /\ u \in U /\ "SUSPEND" \in Stat
      BY <1>2 DEF Stat
    <3> HIDE DEF U
    <3>2. Sound(n, U)
      BY <3>1, SoundStat
    <3> QED BY <3>2 DEF U, Sound
  <2>2. /\ m \in KernelState
        /\ m.ready = n.ready /\ m.group = n.group /\ m.wait = n.wait
        /\ m.defunct = n.defunct /\ m.timers = n.timers /\ m.prio = n.prio
        /\ m.stat = n.stat
        /\ OnlyStat(m, k, u, "SUSPEND") /\ m.timers = k.timers
    <3>1. k \in KernelState /\ "SUSPEND" \in Stat
      BY IInvFacts DEF Stat
    <3>2. m = [n EXCEPT !.yield[u] = FALSE]
      BY <3>1 DEF KernelState
    <3>3. /\ n.cur = k.cur /\ n.nest = k.nest /\ n.prio = k.prio
          /\ n.timers = k.timers /\ n.stat[u] = "SUSPEND"
          /\ \A x \in Thread : x # u => n.stat[x] = k.stat[x]
      BY <3>1 DEF KernelState
    <3> HIDE DEF m, n
    <3>4. /\ m \in KernelState
          /\ m.ready = n.ready /\ m.group = n.group /\ m.wait = n.wait
          /\ m.defunct = n.defunct /\ m.timers = n.timers /\ m.prio = n.prio
          /\ m.stat = n.stat /\ m.cur = n.cur /\ m.nest = n.nest
      BY <2>1, <3>2 DEF KernelState
    <3> QED BY <3>3, <3>4 DEF OnlyStat
  <2> HIDE DEF m, n
  <2>3. Sound(m, Off \cup {u})
    BY <2>1, <2>2, SoundFrame
  <2>4. Sound(m, Off)
    BY <2>2, <2>3, SoundShrink DEF OnlyStat
  <2> QED BY <2>2, <2>4
<1>4. k' = ResumeThread(m, u)
  BY DEF Startup
<1> HIDE DEF m
<1>5. m.stat[u] = "SUSPEND" /\ m.cur = k.cur
  BY <1>3 DEF OnlyStat
<1>6. /\ Sound(k', Off)
      /\ OnlyStat(k', m, u, IF u = m.cur THEN "RUNNING" ELSE "READY")
      /\ \A x : Contains(k'.timers, x) <=> Contains(m.timers, x) /\ x # u
  BY <1>1, <1>3, <1>4, <1>5, ResumeThreadSound
<1>7. /\ k'.cur = k.cur /\ k'.stat[u] = "READY"
      /\ \A x \in Thread : x # u => k'.stat[x] = k.stat[x]
  BY <1>1, <1>3, <1>6 DEF OnlyStat
<1>8. /\ pc' = [pc EXCEPT ![t] = "sched"] /\ isr' = isr
      /\ target' = target /\ stale' \in SUBSET Thread
  BY DEF Startup, Goto, IInv, ControlOK
<1>9. /\ pc' \in [Thread -> PC]
      /\ ~Claims(t) /\ ~Claims(t)'
      /\ \A x \in Thread : x # t => pc'[x] = pc[x]
  BY <1>1, <1>8 DEF IInv, ControlOK, PC, Claims
<1>10. CurrentRuns'
  BY <1>1, <1>7 DEF CurrentRuns
<1> QED BY <1>1, <1>3, <1>6, <1>7, <1>8, <1>9, <1>10, OneThreadStep

\* rt_thread_create keeps the invariant.
LEMMA CreateStep ==
  ASSUME IInv, NEW t \in Thread, NEW u \in Thread, Create(t, u)
  PROVE  IInv'
<1>1. /\ t = k.cur /\ k.stat[t] = "RUNNING" /\ pc[t] = "run" /\ Executes(t)
      /\ k.stat[u] = "FREE" /\ Unclaimed(u) /\ u # t /\ u \notin Off
      /\ u # Idle /\ ~Claims(u)
  BY ExecutingRuns, IInvFacts, ThreadsAssumption
     DEF Create, At, Blocking, IInv, ClaimantLives
<1>2. PICK p \in NewPrio :
         k' = [k EXCEPT !.stat[u] = "INIT", !.prio[u] = p, !.yield[u] = FALSE,
                        !.slice[u] = InitTick[u], !.error[u] = "EOK"]
  BY DEF Create
<1>3. p \in Prio /\ InitTick[u] \in Nat \ {0}
  BY ThreadsAssumption, KernelAssumption, TickAssumption
<1> DEFINE m == [k EXCEPT !.prio[u] = p]
           n == [m EXCEPT !.stat[u] = "INIT"]
<1>4. Sound(k, Off \cup {u})
  BY <1>1, SoundGrow DEF IInv
<1>5. Sound(m, Off \cup {u}) /\ m \in KernelState
  BY <1>3, <1>4, SoundPrio DEF Sound
<1>6. Sound(n, Off \cup {u}) /\ n \in KernelState
  <2> DEFINE U == Off \cup {u}
  <2>1. Sound(m, U) /\ u \in U /\ "INIT" \in Stat
    BY <1>5 DEF Stat
  <2> HIDE DEF m, U
  <2>2. Sound(n, U)
    BY <2>1, SoundStat
  <2> QED BY <2>2 DEF U, Sound
<1>7. /\ k' \in KernelState
      /\ k'.ready = n.ready /\ k'.group = n.group /\ k'.wait = n.wait
      /\ k'.defunct = n.defunct /\ k'.timers = n.timers /\ k'.prio = n.prio
      /\ k'.stat = n.stat
  BY <1>2, <1>3, IInvFacts DEF KernelState, Stat, Error
<1>8. /\ k'.stat[u] = "INIT" /\ k'.cur = k.cur /\ k'.timers = k.timers
      /\ \A x \in Thread : x # u => k'.stat[x] = k.stat[x]
  BY <1>2, IInvFacts DEF KernelState
<1> HIDE DEF m, n
<1>9. Sound(k', Off \cup {u})
  BY <1>6, <1>7, SoundFrame
<1>10. Sound(k', Off)
  BY <1>8, <1>9, SoundShrink
<1>11. /\ pc' = [pc EXCEPT ![u] = "run"] /\ isr' = isr
       /\ target' = target /\ stale' \in SUBSET Thread
  BY DEF Create, IInv, ControlOK
<1>12. /\ pc' \in [Thread -> PC] /\ ~Claims(u)'
       /\ \A x \in Thread : x # u => pc'[x] = pc[x]
  BY <1>11 DEF IInv, ControlOK, PC, Claims
<1>13. CurrentRuns'
  BY <1>1, <1>8 DEF CurrentRuns
<1> QED BY <1>1, <1>8, <1>10, <1>11, <1>12, <1>13, OneThreadStep

\* rt_thread_control(CHANGE_PRIORITY) keeps the invariant.
LEMMA ChangePriorityStep ==
  ASSUME IInv, NEW t \in Thread, NEW u \in Thread, ChangePriority(t, u)
  PROVE  IInv'
<1>1. /\ t = k.cur /\ k.stat[t] = "RUNNING" /\ Unclaimed(u) /\ u \notin Off
  BY ExecutingRuns, IInvFacts DEF ChangePriority, At, Blocking
<1>2. PICK p \in NewPrio : k' = SetPriority(k, u, p)
  BY DEF ChangePriority
<1>3. p \in Prio /\ k \in KernelState
  BY ThreadsAssumption, IInvFacts
<1>4. /\ pc' = pc /\ isr' = isr /\ target' = target /\ stale' \in SUBSET Thread
      /\ pc' \in [Thread -> PC]
  BY DEF ChangePriority, IInv, ControlOK
<1>5. /\ Sound(k', Off) /\ k'.timers = k.timers /\ k'.cur = k.cur
      /\ k'.stat[u] = k.stat[u]
      /\ \A x \in Thread : x # u => k'.stat[x] = k.stat[x]
  BY <1>1, <1>2, <1>3, SetPrioritySound DEF IInv
<1>6. CurrentSound(k', Off) /\ CurrentRuns' /\ IdleCanRun'
  BY <1>1, <1>4, <1>5, IInvFacts DEF IInv, CurrentSound, CurrentRuns, IdleCanRun
<1>7. \A x \in Thread : k'.stat[x] = k.stat[x]
  BY <1>5
<1>8. ASSUME NEW x \in Thread, Claims(x)
      PROVE  /\ k'.stat[target[x]] = k.stat[target[x]]
             /\ target[x] # k'.cur
             /\ ~Contains(k'.timers, target[x])
             /\ k'.stat[x] \in {"READY", "RUNNING"}
  <2>1. target[x] \in Thread
    BY DEF IInv, ControlOK
  <2> QED BY <1>5, <1>7, <1>8, <2>1 DEF IInv, ClaimedIsStill, ClaimantLives
<1>9. isr' \in {"none", "tick"} /\ \A x \in Thread : pc'[x] = pc[x]
  BY <1>4 DEF IInv, ControlOK
<1> QED BY <1>4, <1>5, <1>6, <1>8, <1>9, SameClaimsStep

\* A thread off its list is closed.
LEMMA CloseSound ==
  ASSUME NEW s, NEW T, NEW u \in Thread, Sound(s, T), u \in T
  PROVE  LET r == Close(s, u)
         IN  /\ Sound(r, T \ {u})
             /\ OnlyStat(r, s, u, "CLOSE")
             /\ \A x : Contains(r.timers, x) => Contains(s.timers, x)
<1> DEFINE q == TimerStop(s, u)
           new == <<u>> \o s.defunct
           r == Close(s, u)
<1>1. /\ Sound(q, T) /\ SameThreads(q, s)
      /\ \A x : Contains(q.timers, x) <=> Contains(s.timers, x) /\ x # u
  BY TimerStopSound
<1>2. q.defunct = s.defunct /\ q \in KernelState
  BY <1>1 DEF TimerStop, Sound, KernelState
<1>3. r = [q EXCEPT !.stat[u] = "CLOSE", !.yield[u] = FALSE, !.defunct = new]
  BY DEF Close
<1>4. /\ new \in Seq(Thread) /\ IsInjective(new)
      /\ \A x : Contains(new, x) <=> Contains(q.defunct, x) \/ x = u
  <2>1. /\ q.defunct \in Seq(Thread) /\ IsInjective(q.defunct)
        /\ ~Contains(q.defunct, u)
    BY <1>1, <1>2 DEF Sound, KernelState, ListsSound, DefunctSound
  <2> QED BY <1>2, <2>1, ConsKeepsOne
<1> HIDE DEF q, new, r
<1>5. /\ r \in KernelState
      /\ r.ready = q.ready /\ r.group = q.group /\ r.wait = q.wait
      /\ r.defunct = new /\ r.prio = q.prio /\ r.timers = q.timers
      /\ r.cur = q.cur /\ r.nest = q.nest
      /\ r.stat[u] = "CLOSE"
      /\ \A x \in Thread : x # u => r.stat[x] = q.stat[x]
  <2>1. "CLOSE" \in Stat
    BY DEF Stat
  <2> QED BY <1>2, <1>3, <1>4, <2>1 DEF KernelState
<1>6. Sound(r, T \ {u})
  <2>1. ListsSound(r)
    BY <1>1, <1>4, <1>5 DEF Sound, ListsSound
  <2>2. ReadySound(r, T \ {u}) /\ WaitSound(r, T \ {u}) /\ TimersSound(r, T \ {u})
    BY <1>1, <1>5 DEF Sound, ReadySound, WaitSound, TimersSound
  <2>3. DefunctSound(r, T \ {u})
    BY <1>1, <1>4, <1>5 DEF Sound, DefunctSound
  <2> QED BY <1>5, <2>1, <2>2, <2>3 DEF Sound
<1> QED BY <1>1, <1>5, <1>6 DEF SameThreads, OnlyStat, r

\* The exit of a thread keeps the invariant.
LEMMA ExitStep ==
  ASSUME IInv, NEW t \in Thread, Exit(t)
  PROVE  IInv'
<1>1. /\ t = k.cur /\ k.stat[t] = "RUNNING" /\ t \notin Off /\ pc[t] = "run"
      /\ Unclaimed(t) /\ t # Idle /\ k.nest = 0 /\ ~Contains(k.timers, t)
  BY ExecutingRuns, RunningUnclaimed, ThreadsAssumption DEF Exit, At, Blocking
<1> DEFINE q == RemoveThread(k, t)
           U == Off \cup {t}
<1>2. Sound(q, U) /\ SameThreads(q, k) /\ q.timers = k.timers /\ t \in U
  BY <1>1, RemoveThreadSound, UnlinkFacts DEF IInv
<1>3. k' = Close(q, t)
  BY DEF Exit
<1> HIDE DEF q, U
<1>4. /\ Sound(k', U \ {t}) /\ OnlyStat(k', q, t, "CLOSE")
      /\ \A x : Contains(k'.timers, x) => Contains(q.timers, x)
  BY <1>2, <1>3, CloseSound
<1>5. U \ {t} = Off
  BY <1>1 DEF U
<1>6. /\ Sound(k', Off) /\ k'.cur = k.cur /\ k'.nest = k.nest
      /\ k'.stat[t] = "CLOSE"
      /\ \A x \in Thread : x # t => k'.stat[x] = k.stat[x]
      /\ \A x : Contains(k'.timers, x) => Contains(k.timers, x)
  BY <1>2, <1>4, <1>5 DEF SameThreads, OnlyStat
<1>7. /\ pc' = [pc EXCEPT ![t] = "dead"] /\ isr' = isr
      /\ target' = target /\ stale' \in SUBSET Thread
  BY DEF Exit, Goto, IInv, ControlOK
<1>8. /\ pc' \in [Thread -> PC] /\ pc'[t] = "dead" /\ ~Claims(t) /\ ~Claims(t)'
      /\ \A x \in Thread : x # t => pc'[x] = pc[x]
  BY <1>1, <1>7 DEF IInv, ControlOK, PC, Claims
<1>9. CurrentRuns'
  BY <1>1, <1>6, <1>8 DEF CurrentRuns, Blocking
<1> QED BY <1>1, <1>6, <1>7, <1>8, <1>9, OneThreadStep

\* The idle thread's reaping of a closed thread keeps the invariant.
LEMMA ReapStep ==
  ASSUME IInv, Reap
  PROVE  IInv'
<1> DEFINE u == Head(k.defunct)
           q == ListRemove(k, u)
<1>1. Idle = k.cur /\ k.stat[Idle] = "RUNNING"
  BY ExecutingRuns, KernelAssumption, TickAssumption DEF Reap, At, Blocking
<1>2. k.defunct \in Seq(Thread) /\ k.defunct # <<>>
  BY IInvFacts DEF Reap, KernelState
<1>3. u \in Thread /\ Contains(k.defunct, u)
  BY <1>2, HeadFacts
<1>4. k' = [q EXCEPT !.stat[u] = "FREE"]
  BY DEF Reap
<1> HIDE DEF u
<1>5. k.stat[u] = "CLOSE" /\ u \notin Off /\ u # k.cur
  BY <1>1, <1>3 DEF IInv, Sound, DefunctSound
<1>6. ~Contains(k.timers, u) /\ Unclaimed(u) /\ ~Claims(u) /\ u # Idle
  BY <1>1, <1>3, <1>5 DEF IInv, Sound, TimersSound, Unclaimed, ClaimantLives,
     ResumedIsSuspended, DeletedIsNotDeleting
<1> DEFINE U == Off \cup {u}
<1>7. /\ Sound(q, U) /\ SameThreads(q, k) /\ q.timers = k.timers
      /\ u \in U /\ "FREE" \in Stat
  BY <1>3, <1>5, <1>6, ListRemoveSound, UnlinkFacts DEF IInv, Stat
<1> HIDE DEF q, U
<1>8. Sound(k', U)
  BY <1>3, <1>4, <1>7, SoundStat
<1>9. /\ k'.cur = k.cur /\ k'.nest = k.nest /\ k'.timers = k.timers
      /\ k'.stat[u] = "FREE"
      /\ \A x \in Thread : x # u => k'.stat[x] = k.stat[x]
  BY <1>3, <1>4, <1>7 DEF Sound, KernelState, SameThreads
<1>10. Sound(k', Off)
  BY <1>8, <1>9, SoundShrink DEF U
<1>11. /\ pc' = pc /\ isr' = isr /\ target' = target /\ stale' \in SUBSET Thread
       /\ pc' \in [Thread -> PC]
  BY DEF Reap, IInv, ControlOK
<1>12. CurrentRuns'
  BY <1>1, <1>5, <1>9, IInvFacts DEF CurrentRuns
<1> QED BY <1>3, <1>5, <1>6, <1>9, <1>10, <1>11, <1>12, OneThreadStep

-----------------------------------------------------------------------------
(* Steps that make, move or end a claim *)

\* rt_thread_resume up to its test of the state keeps the invariant: it
\* claims a thread whose timer is stopped.
LEMMA ResumeTestStep ==
  ASSUME Raced = {}, IInv, NEW t \in Thread, NEW u \in Thread, ResumeTest(t, u)
  PROVE  IInv'
<1>1. /\ t = k.cur /\ k.stat[t] = "RUNNING" /\ pc[t] = "run"
      /\ k.stat[u] = "SUSPEND" /\ Unclaimed(u) /\ ~Contains(k.timers, u)
      /\ u # k.cur /\ u # Idle
  BY ExecutingRuns DEF ResumeTest, At, Blocking, IInv, IdleCanRun
<1>2. /\ k' = k /\ isr' = isr /\ stale' = stale
      /\ pc' = [pc EXCEPT ![t] = "resume_unlink"]
      /\ target' = [target EXCEPT ![t] = u]
  BY DEF ResumeTest, Goto
<1>3. /\ pc \in [Thread -> PC] /\ target \in [Thread -> Thread]
      /\ pc' \in [Thread -> PC] /\ target' \in [Thread -> Thread]
      /\ pc'[t] = "resume_unlink" /\ target'[t] = u
      /\ \A x \in Thread : x # t => pc'[x] = pc[x] /\ target'[x] = target[x]
  BY <1>2 DEF IInv, ControlOK, PC
<1>4. Off' = Off
  BY <1>1, <1>3 DEF Off
<1>5. ControlOK' /\ Sound(k, Off)' /\ CurrentSound(k, Off)' /\ IdleCanRun'
  BY <1>2, <1>3, <1>4 DEF IInv, ControlOK, IdleCanRun
<1>6. CurrentRuns'
  BY <1>1, <1>2 DEF CurrentRuns
<1>7. OneClaim'
  BY <1>1, <1>3 DEF IInv, OneClaim, Claims, Unclaimed
<1>8. ClaimedIsStill' /\ ResumedIsSuspended' /\ ClaimantLives'
  BY <1>1, <1>2, <1>3 DEF IInv, ClaimedIsStill, ResumedIsSuspended, ClaimantLives, Claims
<1>9. DeletedIsNotDeleting'
  BY <1>1, <1>2, <1>3 DEF IInv, DeletedIsNotDeleting
<1> QED BY <1>5, <1>6, <1>7, <1>8, <1>9 DEF IInv

\* The target of a resume or a deletion.
LEMMA TargetFacts ==
  ASSUME IInv, NEW t \in Thread, Executes(t), Claims(t)
  PROVE  /\ t = k.cur /\ k.stat[t] = "RUNNING"
         /\ target[t] \in Thread /\ target[t] # t /\ target[t] # Idle
         /\ ~Contains(k.timers, target[t])
         /\ \A x \in Thread : x # t /\ Claims(x) => target[x] # target[t]
BY ExecutingRuns DEF IInv, ControlOK, ClaimedIsStill, OneClaim, Claims, Blocking

\* The unlinking half of rt_thread_resume keeps the invariant.
LEMMA ResumeUnlinkStep ==
  ASSUME IInv, NEW t \in Thread, ResumeUnlink(t)
  PROVE  IInv'
<1> DEFINE u == target[t]
           q == ListRemove(k, u)
<1>1. /\ t = k.cur /\ k.stat[t] = "RUNNING" /\ u \in Thread /\ u # t
      /\ u # Idle /\ ~Contains(k.timers, u) /\ pc[t] = "resume_unlink"
      /\ \A x \in Thread : x # t /\ Claims(x) => target[x] # u
  BY TargetFacts DEF ResumeUnlink, At, Claims
<1>2. k.stat[u] = "SUSPEND"
  BY <1>1 DEF IInv, ResumedIsSuspended
<1>3. /\ k' = TimerStop(q, u) /\ isr' = isr /\ stale' = stale
      /\ pc' = [pc EXCEPT ![t] = "resume_insert"] /\ target' = target
  BY DEF ResumeUnlink, Goto
<1>4. /\ pc' \in [Thread -> PC] /\ target \in [Thread -> Thread]
      /\ pc'[t] = "resume_insert"
      /\ \A x \in Thread : x # t => pc'[x] = pc[x]
  BY <1>3 DEF IInv, ControlOK, PC
<1>5. Sound(q, Off \cup {u}) /\ SameThreads(q, k) /\ q.timers = k.timers
  BY <1>1, <1>2, ListRemoveSound, UnlinkFacts DEF IInv
<1>6. Off' = Off \cup {u}
  BY <1>1, <1>3, <1>4 DEF Off
<1> HIDE DEF u, q
<1>7. /\ Sound(k', Off') /\ SameThreads(k', q)
      /\ \A x : Contains(k'.timers, x) <=> Contains(q.timers, x) /\ x # u
  BY <1>1, <1>3, <1>5, <1>6, TimerStopSound
<1>8. /\ k'.cur = k.cur /\ k'.stat = k.stat /\ k'.nest = k.nest
      /\ \A x : Contains(k'.timers, x) => Contains(k.timers, x)
  BY <1>5, <1>7 DEF SameThreads
<1>9. ControlOK' /\ IdleCanRun' /\ CurrentRuns'
  BY <1>1, <1>3, <1>4, <1>8 DEF IInv, ControlOK, IdleCanRun, CurrentRuns
<1>10. CurrentSound(k, Off)'
  BY <1>1, <1>6, <1>8 DEF IInv, CurrentSound
<1>11. \A x \in Thread : Claims(x)' <=> Claims(x)
  BY <1>1, <1>4 DEF Claims
<1>12. OneClaim' /\ ClaimedIsStill' /\ ClaimantLives'
  BY <1>3, <1>8, <1>11 DEF IInv, OneClaim, ClaimedIsStill, ClaimantLives
<1>13. ResumedIsSuspended' /\ DeletedIsNotDeleting'
  BY <1>1, <1>3, <1>4, <1>8 DEF IInv, ResumedIsSuspended, DeletedIsNotDeleting
<1> QED BY <1>7, <1>9, <1>10, <1>12, <1>13 DEF IInv

\* The inserting half of rt_thread_resume keeps the invariant.
LEMMA ResumeInsertStep ==
  ASSUME IInv, NEW t \in Thread, ResumeInsert(t)
  PROVE  IInv'
<1> DEFINE u == target[t]
<1>1. /\ t = k.cur /\ k.stat[t] = "RUNNING" /\ u \in Thread /\ u # t
      /\ u # Idle /\ ~Contains(k.timers, u) /\ pc[t] = "resume_insert"
      /\ \A x \in Thread : x # t /\ Claims(x) => target[x] # u
  BY TargetFacts DEF ResumeInsert, At, Claims
<1>2. u \in Off /\ k.stat[u] = "SUSPEND"
  BY <1>1 DEF Off, IInv, ResumedIsSuspended
<1>3. /\ k' = InsertThread(k, u) /\ isr' = isr /\ stale' = stale \cup {u}
      /\ pc' = [pc EXCEPT ![t] = "run"] /\ target' = [target EXCEPT ![t] = t]
  BY DEF ResumeInsert, Goto
<1>4. /\ pc' \in [Thread -> PC] /\ target' \in [Thread -> Thread]
      /\ pc'[t] = "run"
      /\ \A x \in Thread : x # t => pc'[x] = pc[x] /\ target'[x] = target[x]
  BY <1>3 DEF IInv, ControlOK, PC
<1>5. Off' = Off \ {u}
  BY <1>1, <1>4 DEF Off, Claims
<1> HIDE DEF u
<1>6. /\ Sound(k', Off') /\ k'.cur = k.cur /\ k'.nest = k.nest
      /\ k'.timers = k.timers /\ k'.stat[u] = "READY"
      /\ \A x \in Thread : x # u => k'.stat[x] = k.stat[x]
  BY <1>1, <1>2, <1>3, <1>5, InsertThreadSound DEF IInv
<1>7. ControlOK' /\ IdleCanRun' /\ CurrentRuns'
  BY <1>1, <1>3, <1>4, <1>6, IInvFacts DEF IInv, ControlOK, IdleCanRun, CurrentRuns
<1>8. CurrentSound(k, Off)'
  BY <1>1, <1>5, <1>6, IInvFacts DEF IInv, CurrentSound
<1>9. \A x \in Thread : Claims(x)' => x # t /\ Claims(x) /\ target[x] # u
  BY <1>1, <1>4 DEF Claims
<1>10. OneClaim' /\ ClaimedIsStill' /\ ClaimantLives'
  BY <1>4, <1>6, <1>9 DEF IInv, OneClaim, ClaimedIsStill, ClaimantLives
<1>11. ASSUME NEW x \in Thread, Claims(x)'
       PROVE  /\ pc'[x] = pc[x] /\ target'[x] = target[x]
              /\ target[x] \in Thread /\ target[x] # u
              /\ k'.stat[target'[x]] = k.stat[target[x]]
  BY <1>4, <1>6, <1>9, <1>11 DEF IInv, ControlOK
<1>12. ResumedIsSuspended'
  BY <1>11 DEF IInv, ResumedIsSuspended, Claims
<1>13. DeletedIsNotDeleting'
  <2> SUFFICES ASSUME NEW x \in Thread, pc'[x] = "delete_close"
               PROVE  /\ k'.stat[target'[x]] \in {"INIT", "READY", "SUSPEND"}
                      /\ pc'[target'[x]] # "delete_close"
    BY DEF DeletedIsNotDeleting
  <2> QED BY <1>4, <1>11 DEF IInv, DeletedIsNotDeleting, Claims
<1> QED BY <1>6, <1>7, <1>8, <1>10, <1>12, <1>13 DEF IInv

\* The first half of rt_thread_delete keeps the invariant.
LEMMA DeleteUnlinkStep ==
  ASSUME Raced = {}, IInv, NEW t \in Thread, NEW u \in Thread, DeleteUnlink(t, u)
  PROVE  IInv'
<1>1. /\ t = k.cur /\ k.stat[t] = "RUNNING" /\ pc[t] = "run" /\ u # t
      /\ u # Idle /\ Unclaimed(u) /\ u \notin Off /\ ~Contains(k.timers, u)
      /\ k.stat[u] \in {"INIT", "READY", "SUSPEND"} /\ pc[u] # "delete_close"
  <2>1. /\ t = k.cur /\ k.stat[t] = "RUNNING" /\ pc[t] = "run" /\ u # t
        /\ u # Idle /\ Unclaimed(u) /\ u \notin Off /\ ~Contains(k.timers, u)
        /\ k.stat[u] \notin {"FREE", "CLOSE"} /\ pc[u] # "delete_close"
    BY ExecutingRuns, IInvFacts, ThreadsAssumption DEF DeleteUnlink, At, Blocking
  <2>2. k.stat[u] \in Stat /\ k.stat[u] # "RUNNING"
    BY <2>1, IInvFacts DEF IInv, CurrentSound, KernelState
  <2> QED BY <2>1, <2>2 DEF Stat
<1>2. /\ k' = (IF k.stat[u] = "INIT" THEN k ELSE RemoveThread(k, u))
      /\ isr' = isr /\ stale' = stale
      /\ pc' = [pc EXCEPT ![t] = "delete_close"]
      /\ target' = [target EXCEPT ![t] = u]
  BY DEF DeleteUnlink, Goto
<1>3. /\ pc' \in [Thread -> PC] /\ target' \in [Thread -> Thread]
      /\ pc'[t] = "delete_close" /\ target'[t] = u
      /\ \A x \in Thread : x # t => pc'[x] = pc[x] /\ target'[x] = target[x]
  BY <1>2 DEF IInv, ControlOK, PC
<1>4. Off' = Off \cup {u}
  BY <1>1, <1>3 DEF Off
<1>5. /\ Sound(k', Off') /\ SameThreads(k', k) /\ k'.timers = k.timers
  <2>1. CASE k.stat[u] = "INIT"
    BY <2>1, <1>2, <1>4, SoundGrow DEF IInv, SameThreads
  <2>2. CASE k.stat[u] # "INIT"
    BY <2>2, <1>1, <1>2, <1>4, RemoveThreadSound, UnlinkFacts DEF IInv
  <2> QED BY <2>1, <2>2
<1>6. ControlOK' /\ IdleCanRun' /\ CurrentRuns' /\ CurrentSound(k, Off)'
  BY <1>1, <1>2, <1>3, <1>4, <1>5
     DEF IInv, ControlOK, IdleCanRun, CurrentRuns, CurrentSound, SameThreads
<1>7. OneClaim'
  BY <1>1, <1>3 DEF IInv, OneClaim, Claims, Unclaimed
<1>8. ClaimedIsStill' /\ ClaimantLives'
  BY <1>1, <1>3, <1>5 DEF IInv, ClaimedIsStill, ClaimantLives, Claims, SameThreads
<1>9. ResumedIsSuspended'
  BY <1>1, <1>3, <1>5 DEF IInv, ResumedIsSuspended, SameThreads
<1>10. DeletedIsNotDeleting'
  <2> SUFFICES ASSUME NEW x \in Thread, pc'[x] = "delete_close"
               PROVE  /\ k'.stat[target'[x]] \in {"INIT", "READY", "SUSPEND"}
                      /\ pc'[target'[x]] # "delete_close"
    BY DEF DeletedIsNotDeleting
  <2>1. CASE x = t
    BY <2>1, <1>1, <1>3, <1>5 DEF SameThreads
  <2>2. CASE x # t
    <3>1. /\ pc[x] = "delete_close" /\ target'[x] = target[x]
          /\ target[x] \in Thread /\ target[x] # t
      BY <2>2, <1>1, <1>3 DEF IInv, ControlOK, ClaimedIsStill, Claims
    <3> QED BY <3>1, <1>3, <1>5 DEF IInv, DeletedIsNotDeleting, SameThreads
  <2> QED BY <2>1, <2>2
<1> QED BY <1>5, <1>6, <1>7, <1>8, <1>9, <1>10 DEF IInv

\* The second half of rt_thread_delete keeps the invariant.
LEMMA DeleteCloseStep ==
  ASSUME IInv, NEW t \in Thread, DeleteClose(t)
  PROVE  IInv'
<1> DEFINE u == target[t]
<1>1. /\ t = k.cur /\ k.stat[t] = "RUNNING" /\ u \in Thread /\ u # t
      /\ u # Idle /\ ~Contains(k.timers, u) /\ pc[t] = "delete_close"
      /\ \A x \in Thread : x # t /\ Claims(x) => target[x] # u
  BY TargetFacts DEF DeleteClose, At, Claims
<1>2. u \in Off /\ pc[u] # "delete_close"
  BY <1>1 DEF Off, IInv, DeletedIsNotDeleting
<1>3. /\ k' = Close(k, u) /\ isr' = isr /\ stale' = stale
      /\ pc' = [pc EXCEPT ![t] = "run", ![u] = "dead"]
      /\ target' = [target EXCEPT ![t] = t]
  BY DEF DeleteClose
<1>4. /\ pc' \in [Thread -> PC] /\ target' \in [Thread -> Thread]
      /\ pc'[t] = "run" /\ pc'[u] = "dead"
      /\ \A x \in Thread : x # t /\ x # u => pc'[x] = pc[x]
      /\ \A x \in Thread : x # t => target'[x] = target[x]
  BY <1>1, <1>3 DEF IInv, ControlOK, PC
<1>5. \A x \in Thread : Claims(x)' =>
         /\ x # t /\ x # u /\ Claims(x) /\ target'[x] = target[x]
         /\ target[x] \in Thread /\ target[x] # u /\ pc'[x] = pc[x]
  BY <1>1, <1>4 DEF Claims, IInv, ControlOK
<1> HIDE DEF u
<1>6. /\ Sound(k', Off \ {u}) /\ OnlyStat(k', k, u, "CLOSE")
      /\ \A x : Contains(k'.timers, x) => Contains(k.timers, x)
  BY <1>1, <1>2, <1>3, CloseSound DEF IInv
<1>7. Off' \subseteq Off \ {u}
  BY <1>5 DEF Off, Claims
<1>8. ASSUME NEW y \in Thread, y \in Off \ {u}, y \notin Off'
      PROVE  k'.stat[y] \notin {"READY", "CLOSE"}
  <2>1. PICK x \in Thread : pc[x] \in {"resume_insert", "delete_close"} /\ y = target[x]
    BY <1>8 DEF Off
  <2>2. x = u
    <3>1. x # t
      BY <1>8, <2>1 DEF u
    <3> QED BY <3>1, <1>4, <1>8, <2>1 DEF Off
  <2>3. k.stat[y] = "SUSPEND"
    BY <1>2, <2>1, <2>2 DEF IInv, ResumedIsSuspended
  <2> QED BY <1>6, <1>8, <2>3 DEF OnlyStat
<1>9. Sound(k', Off')
  BY <1>6, <1>7, <1>8, SoundShrink
<1>10. ControlOK' /\ IdleCanRun' /\ CurrentRuns'
  BY <1>1, <1>3, <1>4, <1>6, IInvFacts
     DEF IInv, ControlOK, IdleCanRun, CurrentRuns, OnlyStat
<1>11. CurrentSound(k, Off)'
  BY <1>1, <1>6, <1>7, IInvFacts DEF IInv, CurrentSound, OnlyStat
<1>12. OneClaim' /\ ClaimedIsStill' /\ ClaimantLives'
  BY <1>5, <1>6 DEF IInv, OneClaim, ClaimedIsStill, ClaimantLives, OnlyStat
<1>13. ResumedIsSuspended'
  BY <1>5, <1>6 DEF IInv, ResumedIsSuspended, Claims, OnlyStat
<1>14. DeletedIsNotDeleting'
  <2> SUFFICES ASSUME NEW x \in Thread, pc'[x] = "delete_close"
               PROVE  /\ k'.stat[target'[x]] \in {"INIT", "READY", "SUSPEND"}
                      /\ pc'[target'[x]] # "delete_close"
    BY DEF DeletedIsNotDeleting
  <2>1. Claims(x)'
    BY DEF Claims
  <2> QED BY <1>4, <1>5, <1>6, <2>1 DEF IInv, DeletedIsNotDeleting, OnlyStat
<1> QED BY <1>9, <1>10, <1>11, <1>12, <1>13, <1>14 DEF IInv

-----------------------------------------------------------------------------
(* The theorems *)

\* The state in which the scheduler starts satisfies the invariant.
LEMMA InitIInv == Init => IInv
<1> SUFFICES ASSUME Init PROVE IInv
  OBVIOUS
<1>1. PICK cur \in Started : k = KernelStart(Started, cur, InitPrio)
  BY DEF Init
<1>2. /\ Sound(k, {}) /\ CurrentSound(k, {}) /\ k.cur = cur
      /\ k.stat[cur] = "RUNNING" /\ k.stat[Idle] \in {"READY", "RUNNING"}
  <2>1. /\ Started \in SUBSET Thread /\ Idle \in Started
        /\ InitPrio \in [Thread -> Prio]
    BY ThreadsAssumption
  <2> QED BY <1>1, <2>1, KernelStartSound
<1>3. /\ isr = "none" /\ pc = [t \in Thread |-> "run"]
      /\ target = [t \in Thread |-> t] /\ stale = {}
  BY DEF Init
<1>4. Off = {} /\ \A t \in Thread : ~Claims(t) /\ pc[t] = "run"
  BY <1>3 DEF Off, Claims
<1>5. ControlOK
  BY <1>3 DEF ControlOK, PC
<1> QED BY <1>2, <1>4, <1>5 DEF IInv, CurrentRuns, IdleCanRun, OneClaim,
  ClaimedIsStill, ResumedIsSuspended, ClaimantLives, DeletedIsNotDeleting

\* Every step of the thread API and of the tick keeps the invariant.
LEMMA NextIInv ==
  ASSUME Raced = {}, IInv, [Next]_tvars
  PROVE  IInv'
<1>1. CASE Interrupt
  BY <1>1, InterruptStep
<1>2. CASE Reap
  BY <1>2, ReapStep
<1>3. ASSUME NEW t \in Thread, ThreadStep(t) PROVE IInv'
  <2>1. CASE CallSchedule(t)  BY <2>1, CallScheduleStep
  <2>2. CASE Yield(t)         BY <2>2, YieldStep
  <2>3. CASE Suspend(t)       BY <2>3, SuspendStep
  <2>4. CASE SleepBlock(t)    BY <2>4, SleepBlockStep
  <2>5. CASE SleepMark(t)     BY <2>5, SleepMarkStep
  <2>6. CASE SleepSchedule(t) BY <2>6, SleepScheduleStep
  <2>7. CASE SleepReturn(t)   BY <2>7, SleepReturnStep
  <2>8. CASE ResumeUnlink(t)  BY <2>8, ResumeUnlinkStep
  <2>9. CASE ResumeInsert(t)  BY <2>9, ResumeInsertStep
  <2>10. CASE EnterCritical(t) BY <2>10, EnterCriticalStep
  <2>11. CASE ExitCritical(t) BY <2>11, ExitCriticalStep
  <2>12. CASE Exit(t)         BY <2>12, ExitStep
  <2>13. CASE ExitSchedule(t) BY <2>13, ExitScheduleStep
  <2>14. CASE DeleteClose(t)  BY <2>14, DeleteCloseStep
  <2>15. ASSUME NEW u \in Thread,
                \/ Create(t, u) \/ Startup(t, u) \/ ResumeTest(t, u)
                \/ ChangePriority(t, u) \/ DeleteUnlink(t, u)
         PROVE  IInv'
    BY <2>15, CreateStep, StartupStep, ResumeTestStep, ChangePriorityStep,
       DeleteUnlinkStep
  <2>16. CASE Reschedule(t)   BY <2>16, RescheduleStep
  <2> QED BY <1>3, <2>1, <2>2, <2>3, <2>4, <2>5, <2>6, <2>7, <2>8, <2>9,
       <2>10, <2>11, <2>12, <2>13, <2>14, <2>15, <2>16 DEF ThreadStep
<1>4. CASE UNCHANGED tvars
  BY <1>4 DEF tvars, IInv, ControlOK, CurrentRuns, IdleCanRun, OneClaim,
     ClaimedIsStill, ResumedIsSuspended, ClaimantLives, DeletedIsNotDeleting,
     Off, Claims
<1> QED BY <1>1, <1>2, <1>3, <1>4 DEF Next

\* The inductive invariant holds throughout.
THEOREM Invariance == Raced = {} => (Spec => []IInv)
<1> SUFFICES ASSUME Raced = {} PROVE Spec => []IInv
  OBVIOUS
<1>1. IInv /\ [Next]_tvars => IInv'
  BY NextIInv
<1> QED BY <1>1, InitIInv, PTL DEF Spec

\* The record keeps its type. In rt_schedule this is what makes the list node
\* it takes from the ready table a thread: without the agreement of the bitmap
\* with the queues, the node would be the list head itself.
THEOREM TypeCorrect == Raced = {} => (Spec => []TypeOK)
<1> SUFFICES ASSUME Raced = {} PROVE Spec => []TypeOK
  OBVIOUS
<1>1. IInv => TypeOK
  BY DEF IInv, TypeOK, ControlOK, Sound
<1>2. Spec => []IInv
  BY Invariance
<1> QED BY <1>1, <1>2, PTL

\* A thread is on the list its state says, and on no other.
THEOREM NodesWhereStatesSay == Raced = {} => (Spec => []NodeWhereStateSays)
<1> SUFFICES ASSUME Raced = {} PROVE Spec => []NodeWhereStateSays
  OBVIOUS
<1>1. IInv => NodeWhereStateSays
  <2> SUFFICES ASSUME IInv, NEW t \in Thread
      PROVE IF InTransit(t) THEN Homes(t) = {}
            ELSE CASE k.stat[t] = "READY"   -> Homes(t) = {<<"ready", k.prio[t]>>}
                   [] k.stat[t] = "CLOSE"   -> Homes(t) = {<<"defunct", 0>>}
                   [] k.stat[t] = "SUSPEND" ->
                        \A g, h \in Homes(t) : g = h /\ h[1] = "wait"
                   [] OTHER                 -> Homes(t) = {}
    BY DEF NodeWhereStateSays
  <2> DEFINE R == {q \in Prio : Contains(k.ready[q], t)}
             W == {v \in WaitList : Contains(k.wait[v], t)}
             D == IF Contains(k.defunct, t) THEN {<<"defunct", 0>>} ELSE {}
  <2>1. InTransit(t) <=> t \in Off
    BY DEF InTransit, Off
  <2>2. R = IF k.stat[t] = "READY" /\ t \notin Off THEN {k.prio[t]} ELSE {}
    BY IInvFacts DEF IInv, Sound, ReadySound, KernelState
  <2>3. D = IF k.stat[t] = "CLOSE" /\ t \notin Off THEN {<<"defunct", 0>>} ELSE {}
    BY DEF IInv, Sound, DefunctSound
  <2>4. /\ \A v, w \in W : v = w
        /\ W # {} => k.stat[t] = "SUSPEND" /\ t \notin Off
    BY DEF IInv, Sound, WaitSound
  <2>5. Homes(t) = {<<"ready", p>> : p \in R} \cup {<<"wait", w>> : w \in W} \cup D
    BY DEF Homes
  <2> HIDE DEF R, W, D
  <2>6. CASE k.stat[t] = "SUSPEND" /\ t \notin Off
    <3>1. Homes(t) = {<<"wait", w>> : w \in W}
      BY <2>2, <2>3, <2>5, <2>6
    <3> QED BY <2>1, <2>4, <2>6, <3>1
  <2>7. CASE ~(k.stat[t] = "SUSPEND" /\ t \notin Off)
    <3>1. Homes(t) = {<<"ready", p>> : p \in R} \cup D
      BY <2>4, <2>5, <2>7
    <3>2. CASE t \in Off
      <4>1. Homes(t) = {}
        BY <2>2, <2>3, <3>1, <3>2
      <4> QED BY <2>1, <3>2, <4>1
    <3>3. CASE t \notin Off /\ k.stat[t] = "READY"
      <4>1. Homes(t) = {<<"ready", k.prio[t]>>}
        BY <2>2, <2>3, <3>1, <3>3
      <4> QED BY <2>1, <3>3, <4>1
    <3>4. CASE t \notin Off /\ k.stat[t] = "CLOSE"
      <4>1. Homes(t) = {<<"defunct", 0>>}
        BY <2>2, <2>3, <3>1, <3>4
      <4> QED BY <2>1, <3>4, <4>1
    <3>5. CASE t \notin Off /\ k.stat[t] \notin {"READY", "CLOSE", "SUSPEND"}
      <4>1. Homes(t) = {}
        BY <2>2, <2>3, <3>1, <3>5
      <4> QED BY <2>1, <3>5, <4>1
    <3> QED BY <2>7, <3>2, <3>3, <3>4, <3>5
  <2> QED BY <2>6, <2>7
<1>2. Spec => []IInv
  BY Invariance
<1> QED BY <1>1, <1>2, PTL

\* The bitmap rt_schedule trusts names the queues that hold a thread.
THEOREM BitmapAgrees == Raced = {} => (Spec => []BitmapMatchesQueues)
<1> SUFFICES ASSUME Raced = {} PROVE Spec => []BitmapMatchesQueues
  OBVIOUS
<1>1. IInv => BitmapMatchesQueues
  BY DEF IInv, BitmapMatchesQueues, Sound, ListsSound
<1>2. Spec => []IInv
  BY Invariance
<1> QED BY <1>1, <1>2, PTL

-----------------------------------------------------------------------------
(* The order of the timers *)

\* Between two steps of the handler a timer may be due, never otherwise.
InTime == Timely(k, IF isr = "none" THEN 1 ELSE 0)

\* Only the list of timers and the clock matter.
SameTimers(r, s) == r.timers = s.timers /\ r.tick = s.tick /\ r.timeout = s.timeout

\* Steps of the threads take no time.
LEMMA KeepsInTime ==
  ASSUME InTime, isr' = isr, KeepsTimely(k', k) \/ SameTimers(k', k)
  PROVE  InTime'
BY DEF InTime, KeepsTimely, SameTimers, Timely

\* Steps that leave the timers alone.
LEMMA TimersUntouched ==
  ASSUME IInv, NEW t \in Thread,
         \/ CallSchedule(t) \/ SleepSchedule(t) \/ ExitSchedule(t)
         \/ Reschedule(t) \/ Yield(t) \/ SleepMark(t) \/ SleepReturn(t)
         \/ EnterCritical(t) \/ ExitCritical(t) \/ ResumeInsert(t)
         \/ \E u \in Thread : \/ Create(t, u) \/ ResumeTest(t, u)
                              \/ ChangePriority(t, u) \/ DeleteUnlink(t, u)
  PROVE  SameTimers(k', k) /\ isr' = isr
<1>0. k \in KernelState
  BY IInvFacts
<1>1. CASE CallSchedule(t) \/ SleepSchedule(t) \/ ExitSchedule(t) \/ Reschedule(t)
  <2>1. k' = Schedule(k) /\ isr' = isr
    BY <1>1 DEF CallSchedule, SleepSchedule, ExitSchedule, Reschedule
  <2>2. Sound(k', Off) /\ CurrentSound(k', Off) /\ AfterSchedule(k', k, Off)
    BY <2>1, ScheduleSound DEF IInv
  <2> QED BY <2>1, <2>2 DEF AfterSchedule, SameClock, SameTimers
<1>2. CASE Yield(t)
  BY <1>0, <1>2 DEF Yield, SameTimers, KernelState
<1>3. CASE SleepMark(t) \/ SleepReturn(t)
  BY <1>0, <1>3 DEF SleepMark, SleepReturn, SameTimers, KernelState
<1>4. CASE EnterCritical(t) \/ ExitCritical(t)
  BY <1>0, <1>4 DEF EnterCritical, ExitCritical, SameTimers, KernelState
<1>5. CASE ResumeInsert(t)
  BY <1>0, <1>5 DEF ResumeInsert, InsertThread, SameTimers, KernelState
<1>6. ASSUME NEW u \in Thread, Create(t, u) PROVE SameTimers(k', k) /\ isr' = isr
  BY <1>0, <1>6 DEF Create, SameTimers, KernelState
<1>7. ASSUME NEW u \in Thread, ResumeTest(t, u)
      PROVE  SameTimers(k', k) /\ isr' = isr
  BY <1>7 DEF ResumeTest, SameTimers
<1>8. ASSUME NEW u \in Thread, ChangePriority(t, u)
      PROVE  SameTimers(k', k) /\ isr' = isr
  <2>1. PICK p \in NewPrio : k' = SetPriority(k, u, p)
    BY <1>8 DEF ChangePriority
  <2>2. isr' = isr /\ p \in Prio
    BY <1>8, ThreadsAssumption DEF ChangePriority
  <2>3. k'.timers = k.timers /\ k'.tick = k.tick /\ k'.timeout = k.timeout
    BY <1>0, <2>1 DEF SetPriority, InsertThread, RemoveThread, ListRemove, KernelState
  <2> QED BY <2>2, <2>3 DEF SameTimers
<1>9. ASSUME NEW u \in Thread, DeleteUnlink(t, u)
      PROVE  SameTimers(k', k) /\ isr' = isr
  BY <1>0, <1>9 DEF DeleteUnlink, RemoveThread, ListRemove, SameTimers, KernelState
<1> QED BY <1>1, <1>2, <1>3, <1>4, <1>5, <1>6, <1>7, <1>8, <1>9

\* Steps that may stop a timer.
LEMMA TimerStopped ==
  ASSUME IInv, NEW t \in Thread,
         \/ Suspend(t) \/ ResumeUnlink(t) \/ Exit(t) \/ DeleteClose(t)
         \/ \E u \in Thread : Startup(t, u)
  PROVE  KeepsTimely(k', k) /\ isr' = isr
<1>0. /\ k \in KernelState /\ IsInjective(k.timers) /\ target[t] \in Thread
  BY IInvFacts DEF IInv, Sound, ListsSound, ControlOK
<1>1. CASE Suspend(t)
  BY <1>0, <1>1, TimerStopTimely DEF Suspend
<1>2. CASE ResumeUnlink(t)
  <2>1. /\ k'.timers = RemoveFirst(k.timers, target[t])
        /\ k'.timeout = [k.timeout EXCEPT ![target[t]] = 0] /\ k'.tick = k.tick
    BY <1>0, <1>2 DEF ResumeUnlink, ListRemove, TimerStop, KernelState
  <2> QED BY <1>0, <1>2, <2>1, TimerOffTimely DEF ResumeUnlink
<1>3. CASE Exit(t)
  <2>1. /\ k'.timers = RemoveFirst(k.timers, t)
        /\ k'.timeout = [k.timeout EXCEPT ![t] = 0] /\ k'.tick = k.tick
    BY <1>0, <1>3 DEF Exit, Close, RemoveThread, ListRemove, TimerStop, KernelState
  <2> QED BY <1>0, <1>3, <2>1, TimerOffTimely DEF Exit
<1>4. CASE DeleteClose(t)
  <2>1. /\ k'.timers = RemoveFirst(k.timers, target[t])
        /\ k'.timeout = [k.timeout EXCEPT ![target[t]] = 0] /\ k'.tick = k.tick
    BY <1>0, <1>4 DEF DeleteClose, Close, TimerStop, KernelState
  <2> QED BY <1>0, <1>4, <2>1, TimerOffTimely DEF DeleteClose
<1>5. ASSUME NEW u \in Thread, Startup(t, u) PROVE KeepsTimely(k', k) /\ isr' = isr
  <2> DEFINE s == [k EXCEPT !.stat[u] = "SUSPEND", !.yield[u] = FALSE]
  <2>1. /\ s \in KernelState /\ IsInjective(s.timers) /\ SameTimers(s, k)
    BY <1>0 DEF KernelState, Stat, SameTimers
  <2>2. k' = ResumeThread(s, u) /\ isr' = isr
    BY <1>5 DEF Startup
  <2> HIDE DEF s
  <2>3. KeepsTimely(k', s)
    BY <2>1, <2>2, TimerStopTimely
  <2> QED BY <2>1, <2>2, <2>3 DEF KeepsTimely, SameTimers, Timely
<1> QED BY <1>1, <1>2, <1>3, <1>4, <1>5

\* rt_thread_sleep puts its timer where it belongs.
LEMMA SleepTimerStarted ==
  ASSUME IInv, NEW t \in Thread, SleepBlock(t)
  PROVE  KeepsTimely(k', k) /\ isr' = isr
<1> DEFINE e == [k EXCEPT !.error[t] = "EOK"]
           m == SuspendThread(e, t)
<1>0. /\ k.stat[t] = "RUNNING" /\ t \notin Off /\ k \in KernelState
  BY ExecutingRuns, IInvFacts DEF SleepBlock, At, Blocking
<1>1. PICK d \in Delays : k' = TimerStart(m, t, d)
  BY DEF SleepBlock, ArmSleep
<1>2. /\ e \in KernelState /\ e.stat = k.stat /\ e.prio = k.prio
      /\ e.ready = k.ready /\ e.group = k.group /\ e.wait = k.wait
      /\ e.defunct = k.defunct /\ SameTimers(e, k)
  BY <1>0 DEF KernelState, Error, SameTimers
<1> HIDE DEF e
<1>3. Sound(e, Off) /\ e.stat[t] = "RUNNING"
  BY <1>0, <1>2, SoundFrame DEF IInv, SameTimers
<1>4. /\ Sound(m, Off) /\ OnlyStat(m, e, t, "SUSPEND")
      /\ SameWaits(m, e) /\ m.tick = e.tick
      /\ \A x : Contains(m.timers, x) <=> Contains(e.timers, x)
  BY <1>0, <1>3, SuspendThreadSound
<1>5. KeepsTimely(m, e)
  BY <1>2, <1>3, TimerStopTimely DEF Sound, ListsSound
<1> HIDE DEF m
<1>6. KeepsTimely(k', m)
  BY <1>1, <1>4, ThreadsAssumption, TimerStartTimely DEF Sound, ListsSound
<1>7. KeepsTimely(k', k)
  BY <1>2, <1>5, <1>6 DEF KeepsTimely, SameTimers, Timely
<1> QED BY <1>7 DEF SleepBlock

\* The timers stay in order, and none is due outside of the tick handler.
LEMMA NextInTime ==
  ASSUME Raced = {}, IInv, InTime, [Next]_tvars
  PROVE  InTime'
<1>1. CASE Interrupt
  BY <1>1, TickStepTimely DEF Interrupt, IInv, InTime
<1>2. CASE Reap
  <2>1. SameTimers(k', k) /\ isr' = isr
    BY <1>2, IInvFacts DEF Reap, ListRemove, SameTimers, KernelState
  <2> QED BY <2>1, KeepsInTime
<1>3. ASSUME NEW t \in Thread, ThreadStep(t) PROVE InTime'
  BY <1>3, TimersUntouched, TimerStopped, SleepTimerStarted, KeepsInTime
     DEF ThreadStep
<1>4. CASE UNCHANGED tvars
  BY <1>4 DEF tvars, InTime, Timely
<1> QED BY <1>1, <1>2, <1>3, <1>4 DEF Next

\* No thread is woken late, wherever the counter wraps: outside of the handler
\* every timer is still ahead, and the list is in the order of expiry.
THEOREM NothingOverdue == Raced = {} => (Spec => []NoTimerOverdue)
<1> SUFFICES ASSUME Raced = {} PROVE Spec => []NoTimerOverdue
  OBVIOUS
<1>1. Init => IInv /\ InTime
  <2> SUFFICES ASSUME Init PROVE InTime
    BY InitIInv
  <2>1. PICK cur \in Started : k = KernelStart(Started, cur, InitPrio)
    BY DEF Init
  <2>2. k.timers = <<>>
    BY <2>1 DEF KernelStart
  <2> QED BY <2>2 DEF InTime, Timely, ByExpiry
<1>2. IInv /\ InTime /\ [Next]_tvars => (IInv /\ InTime)'
  BY NextIInv, NextInTime
<1>3. IInv /\ InTime => NoTimerOverdue
  <2> SUFFICES ASSUME IInv, Timely(k, 1)
      PROVE  \A i \in DOMAIN k.timers :
               LET left(j) == TicksFrom(k.tick, k.timeout[k.timers[j]]) IN
               /\ left(i) \in 1 .. TickHalf - 1
               /\ \A j \in 1 .. i : left(j) <= left(i)
    BY DEF InTime, NoTimerOverdue
  <2>1. DOMAIN k.timers = 1 .. Len(k.timers)
    BY IInvFacts DEF KernelState
  <2> QED BY <2>1 DEF Timely, ByExpiry, TicksFrom
<1> QED BY <1>1, <1>2, <1>3, PTL DEF Spec

-----------------------------------------------------------------------------
(* The highest priority runs *)

\* The current thread is not behind a ready one, the threads of X apart.
AheadBut(s, X) ==
  s.cur \in X \/ \A p \in Prio, t \in Thread :
                    p < s.prio[s.cur] /\ Contains(s.ready[p], t) => t \in X

\* With the scheduler unlocked the current thread is ahead, but for threads that
\* were resumed or got another priority, unless it is about to call rt_schedule.
Foremost == (k.nest = 0 /\ pc[k.cur] \notin Blocking) => AheadBut(k, stale)

\* What the bitmap shows holds for the threads of the queues.
LEMMA AheadOfAll ==
  ASSUME NEW s, NEW T, Sound(s, T), Ahead(s), NEW X
  PROVE  AheadBut(s, X)
<1> SUFFICES ASSUME NEW p \in Prio, NEW t \in Thread, p < s.prio[s.cur],
                    Contains(s.ready[p], t)
             PROVE  FALSE
  BY DEF AheadBut
<1>1. s.ready[p] # <<>>
  BY EmptyFacts
<1>2. p \in s.group
  BY <1>1 DEF Sound, ListsSound
<1>3. s.prio[s.cur] <= p
  BY <1>2 DEF Ahead
<1>4. p \in Int /\ s.prio[s.cur] \in Int
  BY KernelAssumption DEF Prio, Sound, KernelState
<1> QED BY <1>3, <1>4

\* No thread comes into a ready queue but those that are stale.
NoneReadied ==
  \A p \in Prio, x \in Thread :
     Contains(k'.ready[p], x) => Contains(k.ready[p], x) \/ x \in stale'

\* A step of the current thread that does not lock or unlock the scheduler, and
\* readies or promotes nobody behind its back.
LEMMA StaysForemost ==
  ASSUME Foremost, k'.cur = k.cur, k'.nest = k.nest, stale \subseteq stale',
         k'.prio[k.cur] = k.prio[k.cur] \/ k.cur \in stale',
         NoneReadied, pc[k.cur] \notin Blocking
  PROVE  Foremost'
BY DEF Foremost, AheadBut, NoneReadied

\* A thread that is about to call rt_schedule, or keeps it locked, owes nothing.
LEMMA OwesNothing ==
  ASSUME k'.nest # 0 \/ pc'[k'.cur] \in Blocking
  PROVE  Foremost'
BY DEF Foremost

\* Steps that end at a call of rt_schedule or lock the scheduler.
LEMMA NotSettled ==
  ASSUME IInv, NEW t \in Thread,
         \/ Yield(t) \/ Suspend(t) \/ SleepBlock(t) \/ SleepMark(t) \/ Exit(t)
         \/ EnterCritical(t) \/ ExitCritical(t)
         \/ \E u \in Thread : Startup(t, u)
  PROVE  k'.nest # 0 \/ pc'[k'.cur] \in Blocking
<1>0. k \in KernelState /\ pc \in [Thread -> PC]
  BY IInvFacts DEF IInv, ControlOK
<1>1. CASE Yield(t) \/ SleepMark(t)
  <2>1. k'.cur = k.cur
    BY <1>0, <1>1 DEF Yield, SleepMark, KernelState
  <2> QED BY <1>0, <1>1, <2>1 DEF Yield, SleepMark, At, Executes, Goto, Blocking
<1>2. CASE Suspend(t)
  <2>1. k'.cur = k.cur
    BY <1>0, <1>2 DEF Suspend, SuspendThread, RemoveThread, ListRemove, TimerStop, KernelState
  <2> QED BY <1>0, <1>2, <2>1 DEF Suspend, At, Executes, Goto, Blocking
<1>3. CASE SleepBlock(t)
  <2>1. PICK d \in Delays : k' = ArmSleep([k EXCEPT !.error[t] = "EOK"], t, d)
    BY <1>3 DEF SleepBlock
  <2> DEFINE m == SuspendThread([k EXCEPT !.error[t] = "EOK"], t)
  <2>2. m.cur = k.cur /\ TimerStart(m, t, d).cur = m.cur
    BY <1>0 DEF SuspendThread, RemoveThread, ListRemove, TimerStop, TimerStart, KernelState
  <2>3. k'.cur = k.cur
    BY <2>1, <2>2 DEF ArmSleep
  <2> QED BY <1>0, <1>3, <2>3 DEF SleepBlock, At, Executes, Goto, Blocking
<1>4. CASE Exit(t)
  <2>1. k'.cur = k.cur
    BY <1>0, <1>4 DEF Exit, Close, RemoveThread, ListRemove, TimerStop, KernelState
  <2> QED BY <1>0, <1>4, <2>1 DEF Exit, At, Executes, Goto, Blocking
<1>5. CASE EnterCritical(t)
  BY <1>0, <1>5 DEF EnterCritical, KernelState
<1>6. CASE ExitCritical(t)
  BY <1>0, <1>6 DEF ExitCritical, At, Executes, Goto, Blocking, KernelState
<1>7. ASSUME NEW u \in Thread, Startup(t, u)
      PROVE  pc'[k'.cur] \in Blocking
  <2>1. k'.cur = k.cur
    BY <1>0, <1>7 DEF Startup, ResumeThread, InsertThread, ListRemove, TimerStop, KernelState
  <2> QED BY <1>0, <1>7, <2>1 DEF Startup, At, Executes, Goto, Blocking
<1> QED BY <1>1, <1>2, <1>3, <1>4, <1>5, <1>6, <1>7

\* Taking a thread off its list brings nobody into a queue.
LEMMA UnlinkReadies ==
  ASSUME k \in KernelState, \A p \in Prio : IsInjective(k.ready[p]), NEW u,
         \/ k'.ready = k.ready
         \/ k'.ready = [p \in Prio |-> RemoveFirst(k.ready[p], u)]
  PROVE  NoneReadied
<1>1. \A p \in Prio : k.ready[p] \in Seq(Thread)
  BY DEF KernelState
<1>2. \A p \in Prio : \A x : Contains(RemoveFirst(k.ready[p], u), x)
                               <=> Contains(k.ready[p], x) /\ x # u
  BY <1>1, RemoveFirstFacts
<1> QED BY <1>2 DEF NoneReadied

\* Steps after which the current thread goes on as it was.
LEMMA GoesOn ==
  ASSUME IInv, NEW t \in Thread,
         \/ SleepReturn(t) \/ ResumeUnlink(t) \/ DeleteClose(t)
         \/ \E u \in Thread : Create(t, u) \/ ResumeTest(t, u) \/ DeleteUnlink(t, u)
  PROVE  /\ k'.cur = k.cur /\ k'.nest = k.nest /\ stale' = stale
         /\ k'.prio[k.cur] = k.prio[k.cur] /\ NoneReadied
         /\ pc[k.cur] \notin Blocking
<1> DEFINE Unlinked(u) == k'.ready = [p \in Prio |-> RemoveFirst(k.ready[p], u)]
           Same == /\ k'.cur = k.cur /\ k'.nest = k.nest /\ stale' = stale
                   /\ k'.prio[k.cur] = k.prio[k.cur]
                   /\ pc[k.cur] \notin Blocking
<1>0. k \in KernelState /\ target[t] \in Thread
  BY IInvFacts DEF IInv, ControlOK
<1>1. CASE SleepReturn(t)
  <2>1. Same /\ k'.ready = k.ready
    BY <1>0, <1>1 DEF SleepReturn, At, Executes, Blocking, KernelState
  <2> QED BY <2>1 DEF NoneReadied
<1>2. \A p \in Prio : IsInjective(k.ready[p])
  BY DEF IInv, Sound, ListsSound
<1>3. CASE ResumeUnlink(t)
  <2>1. Same /\ Unlinked(target[t])
    BY <1>0, <1>3 DEF ResumeUnlink, ListRemove, TimerStop, At, Executes, Blocking, KernelState
  <2> QED BY <1>0, <1>2, <2>1, UnlinkReadies
<1>4. CASE DeleteClose(t)
  <2>1. Same /\ k'.ready = k.ready
    BY <1>0, <1>4 DEF DeleteClose, Close, TimerStop, At, Executes, Blocking, KernelState
  <2> QED BY <2>1 DEF NoneReadied
<1>5. ASSUME NEW u \in Thread, Create(t, u)
      PROVE  Same /\ k'.ready = k.ready
  <2>1. u # k.cur
    BY <1>5, ExecutingRuns DEF Create, At, Blocking
  <2>2. PICK p \in NewPrio :
          k' = [k EXCEPT !.stat[u] = "INIT", !.prio[u] = p, !.yield[u] = FALSE,
                         !.slice[u] = InitTick[u], !.error[u] = "EOK"]
    BY <1>5 DEF Create
  <2>3. /\ k'.cur = k.cur /\ k'.nest = k.nest /\ k'.ready = k.ready
        /\ k'.prio[k.cur] = k.prio[k.cur]
    BY <1>0, <2>1, <2>2 DEF KernelState
  <2> QED BY <1>5, <2>3 DEF Create, At, Executes, Blocking
<1>6. ASSUME NEW u \in Thread, ResumeTest(t, u)
      PROVE  Same /\ k'.ready = k.ready
  BY <1>6 DEF ResumeTest, At, Executes, Blocking
<1>7. ASSUME NEW u \in Thread, DeleteUnlink(t, u)
      PROVE  Same /\ (k'.ready = k.ready \/ Unlinked(u))
  <2>1. k' = k \/ k' = RemoveThread(k, u)
    BY <1>7 DEF DeleteUnlink
  <2>2. /\ RemoveThread(k, u).cur = k.cur /\ RemoveThread(k, u).nest = k.nest
        /\ RemoveThread(k, u).prio = k.prio
        /\ RemoveThread(k, u).ready = [p \in Prio |-> RemoveFirst(k.ready[p], u)]
    BY <1>0 DEF RemoveThread, ListRemove, KernelState
  <2>3. stale' = stale /\ pc[k.cur] \notin Blocking
    BY <1>7 DEF DeleteUnlink, At, Executes, Blocking
  <2> QED BY <2>1, <2>2, <2>3
<1>8. ASSUME NEW u \in Thread, Create(t, u) \/ ResumeTest(t, u) \/ DeleteUnlink(t, u)
      PROVE  Same /\ NoneReadied
  BY <1>0, <1>2, <1>5, <1>6, <1>7, <1>8, UnlinkReadies
<1> HIDE DEF Same
<1>9. Same /\ NoneReadied
  BY <1>1, <1>3, <1>4, <1>8 DEF Same
<1> QED BY <1>9 DEF Same

\* rt_thread_resume and rt_thread_control leave the caller in front of the thread
\* they have moved, which is stale from now on.
LEMMA MovesOne ==
  ASSUME IInv, NEW t \in Thread,
         ResumeInsert(t) \/ \E u \in Thread : ChangePriority(t, u)
  PROVE  /\ k'.cur = k.cur /\ k'.nest = k.nest /\ stale \subseteq stale'
         /\ k'.prio[k.cur] = k.prio[k.cur] \/ k.cur \in stale'
         /\ NoneReadied /\ pc[k.cur] \notin Blocking
<1>0. /\ k \in KernelState /\ k.prio \in [Thread -> Prio] /\ k.cur \in Thread
      /\ Sound(k, Off) /\ CurrentSound(k, Off)
  BY IInvFacts DEF IInv, KernelState
<1>1. ASSUME NEW u \in Thread, NEW U, Sound(k', U), Off \subseteq U \cup {u},
             u \in stale', \A x \in Thread : x # u => k'.stat[x] = k.stat[x],
             \A x \in Thread : x # u => k'.prio[x] = k.prio[x]
      PROVE  NoneReadied
  <2> SUFFICES ASSUME NEW p \in Prio, NEW x \in Thread, Contains(k'.ready[p], x), x # u
               PROVE  Contains(k.ready[p], x)
    BY <1>1 DEF NoneReadied
  <2>1. k'.stat[x] = "READY" /\ k'.prio[x] = p /\ x \notin U
    BY <1>1 DEF Sound, ReadySound
  <2> QED BY <1>0, <1>1, <2>1 DEF Sound, ReadySound
<1>2. CASE ResumeInsert(t)
  <2> DEFINE u == target[t]
  <2>1. /\ t = k.cur /\ u \in Thread /\ pc[t] = "resume_insert"
    BY <1>2, TargetFacts DEF ResumeInsert, At, Claims
  <2>2. u \in Off
    BY <1>2, <2>1 DEF Off
  <2>3. k' = InsertThread(k, u) /\ stale' = stale \cup {u}
    BY <1>2 DEF ResumeInsert
  <2> HIDE DEF u
  <2>4. /\ Sound(k', Off \ {u}) /\ k'.cur = k.cur /\ k'.nest = k.nest
        /\ k'.prio = k.prio /\ \A x \in Thread : x # u => k'.stat[x] = k.stat[x]
    BY <1>0, <2>1, <2>2, <2>3, InsertThreadSound
  <2>5. NoneReadied
    BY <1>1, <2>1, <2>3, <2>4
  <2> QED BY <2>1, <2>3, <2>4, <2>5 DEF Blocking
<1>3. ASSUME NEW u \in Thread, ChangePriority(t, u)
      PROVE  /\ k'.cur = k.cur /\ k'.nest = k.nest /\ stale \subseteq stale'
             /\ k'.prio[k.cur] = k.prio[k.cur] \/ k.cur \in stale'
             /\ NoneReadied /\ pc[k.cur] \notin Blocking
  <2>1. t = k.cur /\ pc[t] = "run" /\ u \notin Off /\ stale' = stale \cup {u}
    BY <1>3, IInvFacts DEF ChangePriority, At, Executes
  <2>2. PICK p \in NewPrio : k' = SetPriority(k, u, p)
    BY <1>3 DEF ChangePriority
  <2>3. p \in Prio
    BY ThreadsAssumption
  <2>4. /\ Sound(k', Off) /\ k'.cur = k.cur /\ k'.nest = k.nest /\ k'.stat = k.stat
    BY <1>0, <2>1, <2>2, <2>3, SetPrioritySound
  <2>5. k'.prio = [k.prio EXCEPT ![u] = p]
    BY <1>0, <2>2 DEF SetPriority, InsertThread, RemoveThread, ListRemove, KernelState
  <2>6. \A x \in Thread : x # u => k'.prio[x] = k.prio[x]
    BY <1>0, <2>5
  <2>7. NoneReadied
    BY <1>1, <2>1, <2>4, <2>6
  <2> QED BY <1>0, <2>1, <2>4, <2>6, <2>7 DEF Blocking
<1> QED BY <1>2, <1>3

\* The tick handler leaves the current thread ahead, or does not touch it.
LEMMA InterruptForemost ==
  ASSUME IInv, Foremost, Interrupt
  PROVE  Foremost'
<1> SUFFICES ASSUME k'.nest = 0, pc'[k'.cur] \notin Blocking
             PROVE  AheadBut(k', stale')
  BY DEF Foremost
<1>0. Sound(k, Off) /\ CurrentSound(k, Off) /\ k \in KernelState
  BY IInvFacts DEF IInv
<1>1. k.nest = 0 /\ pc' = pc /\ TickStep /\ Sound(k', Off)
  <2>1. PICK W \in SUBSET Thread : Progress(k', k, Off, W)
    BY <1>0, TickStepSound DEF Interrupt
  <2>2. Sound(k', Off)
    BY <1>0, TickStepSound DEF Interrupt
  <2> QED BY <2>1, <2>2 DEF Progress, Interrupt
<1>2. CASE TickReschedules
  <2>1. Ahead(k')
    BY <1>0, <1>1, <1>2, TickStepAhead DEF TickReschedules
  <2> QED BY <1>1, <2>1, AheadOfAll
<1>3. CASE ~TickReschedules
  <2>1. stale' = stale
    BY <1>3 DEF Interrupt
  <2>2. k'.cur = k.cur /\ k'.prio = k.prio /\ k'.ready = k.ready
    BY <1>0, <1>1, <1>3
       DEF TickStep, TickEnter, TimerExpire, TickExit, TickReschedules, TickIncrease,
           KernelState
  <2>3. AheadBut(k, stale)
    BY <1>1, <2>1, <2>2 DEF Foremost
  <2> QED BY <2>1, <2>2, <2>3 DEF AheadBut
<1> QED BY <1>2, <1>3

\* Every step keeps the current thread ahead.
LEMMA NextForemost ==
  ASSUME Raced = {}, IInv, Foremost, [Next]_tvars
  PROVE  Foremost'
<1>0. k \in KernelState /\ Idle \in Thread
  BY IInvFacts
<1>1. CASE Interrupt
  BY <1>1, InterruptForemost
<1>2. CASE Reap
  <2> DEFINE u == Head(k.defunct)
  <2>1. /\ k'.cur = k.cur /\ k'.nest = k.nest /\ stale' = stale
        /\ k'.prio[k.cur] = k.prio[k.cur] /\ pc[k.cur] \notin Blocking
        /\ k'.ready = [p \in Prio |-> RemoveFirst(k.ready[p], u)]
    BY <1>0, <1>2 DEF Reap, ListRemove, At, Executes, Blocking, KernelState
  <2>2. \A p \in Prio : IsInjective(k.ready[p])
    BY DEF IInv, Sound, ListsSound
  <2>3. NoneReadied
    BY <1>0, <2>1, <2>2, UnlinkReadies
  <2> QED BY <2>1, <2>3, StaysForemost
<1>3. ASSUME NEW t \in Thread, ThreadStep(t) PROVE Foremost'
  <2>1. CASE CallSchedule(t) \/ SleepSchedule(t) \/ ExitSchedule(t) \/ Reschedule(t)
    <3>1. k' = Schedule(k)
      BY <2>1 DEF CallSchedule, SleepSchedule, ExitSchedule, Reschedule
    <3>2. Sound(k', Off) /\ CurrentSound(k', Off) /\ AfterSchedule(k', k, Off)
      BY <3>1, ScheduleSound DEF IInv
    <3>3. k.nest = 0 => Ahead(k')
      BY <3>1, ScheduleAhead DEF IInv
    <3>4. k.nest = 0 => AheadBut(k', stale')
      BY <3>2, <3>3, AheadOfAll
    <3> QED BY <3>2, <3>4 DEF AfterSchedule, Foremost
  <2>2. CASE \/ Yield(t) \/ Suspend(t) \/ SleepBlock(t) \/ SleepMark(t) \/ Exit(t)
             \/ EnterCritical(t) \/ ExitCritical(t)
             \/ \E u \in Thread : Startup(t, u)
    BY <2>2, NotSettled, OwesNothing
  <2>3. CASE \/ SleepReturn(t) \/ ResumeUnlink(t) \/ DeleteClose(t)
             \/ \E u \in Thread : Create(t, u) \/ ResumeTest(t, u) \/ DeleteUnlink(t, u)
    BY <2>3, GoesOn, StaysForemost
  <2>4. CASE ResumeInsert(t) \/ \E u \in Thread : ChangePriority(t, u)
    BY <2>4, MovesOne, StaysForemost
  <2> QED BY <1>3, <2>1, <2>2, <2>3, <2>4 DEF ThreadStep
<1>4. CASE UNCHANGED tvars
  BY <1>4 DEF tvars, Foremost
<1> QED BY <1>1, <1>2, <1>3, <1>4 DEF Next

\* A thread that runs its own code is in front of a ready one of higher priority
\* only where rt_thread_resume or a priority change has left it so.
THEOREM HighestRuns == Raced = {} => (Spec => []HighestPriorityRuns)
<1> SUFFICES ASSUME Raced = {} PROVE Spec => []HighestPriorityRuns
  OBVIOUS
<1>1. Init => IInv /\ Foremost
  <2> SUFFICES ASSUME Init PROVE Foremost
    BY InitIInv
  <2>1. PICK cur \in Started : /\ \A t \in Started : InitPrio[cur] <= InitPrio[t]
                               /\ k = KernelStart(Started, cur, InitPrio)
    BY DEF Init
  <2>2. /\ k.cur = cur /\ k.prio = InitPrio
        /\ k.group = {InitPrio[t] : t \in Started \ {cur}}
    BY <2>1 DEF KernelStart
  <2>3. Ahead(k)
    BY <2>1, <2>2 DEF Ahead
  <2>4. Sound(k, Off)
    BY InitIInv DEF IInv
  <2> QED BY <2>3, <2>4, AheadOfAll DEF Foremost
<1>2. IInv /\ Foremost /\ [Next]_tvars => (IInv /\ Foremost)'
  BY NextIInv, NextForemost
<1>3. Foremost => HighestPriorityRuns
  BY DEF Foremost, AheadBut, HighestPriorityRuns, Blocking
<1> QED BY <1>1, <1>2, <1>3, PTL DEF Spec

=============================================================================
