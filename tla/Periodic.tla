-------------------------------- MODULE Periodic --------------------------------
(***************************************************************************)
(* rt_thread_delay_until: a thread sleeps until a fixed number of ticks    *)
(* after its last wake-up, not after the call.                             *)
(***************************************************************************)
EXTENDS Waiting

CONSTANT Periodics    \* the threads that call it

ASSUME PeriodicAssumption == Periodics \subseteq Thread \ {Idle}

VARIABLE lastWake     \* *tick: what each of them passes and gets back

PeriodicPC == {"until_sched", "until_return"}

\* mutant: the delay starts at the call, and drifts
DelayFromNow(t, inc) == inc

TicksLeft(t, inc) == TicksFrom(k.tick, (lastWake[t] + inc) % TickMod)

\* A thread that comes too late does not sleep, and counts from now.
UntilNow(t) ==
  /\ Calls(t, "sleep") /\ t \in Periodics
  /\ \E inc \in Delays : TicksFrom(lastWake[t], k.tick) >= inc
  /\ k' = [k EXCEPT !.error[t] = "EOK"]
  /\ lastWake' = [lastWake EXCEPT ![t] = k.tick]
  /\ UNCHANGED <<isr, pc, wvars>>

UntilBlock(t) ==
  /\ Calls(t, "sleep") /\ t \in Periodics
  /\ \E inc \in Delays :
       /\ TicksFrom(lastWake[t], k.tick) < inc
       /\ k' = TimerStart(Suspended(k, t), t, TicksLeft(t, inc))
       /\ lastWake' = [lastWake EXCEPT ![t] = (@ + inc) % TickMod]
  /\ Goto(t, "until_sched")
  /\ UNCHANGED <<isr, wvars>>

UntilSchedule(t) ==
  ScheduleIn(t, "until_sched", "until_return") /\ UNCHANGED <<wvars, lastWake>>

UntilReturn(t) ==
  /\ At(t, "until_return")
  /\ Back(t)
  /\ UNCHANGED <<isr, wvars, lastWake>>

PeriodicStep(t) ==
  UntilNow(t) \/ UntilBlock(t) \/ UntilSchedule(t) \/ UntilReturn(t)

PeriodicNext == \E t \in Thread : PeriodicStep(t)

PeriodicInit == lastWake = [t \in Periodics |-> 0]
-----------------------------------------------------------------------------
(* Properties *)

\* A thread in rt_thread_delay_until is put back by the tick it has asked
\* for, the one that lies a whole number of periods after its first, however
\* late the call came in the period and wherever the tick counter wraps.
WakesOnTick ==
  [][\A t \in Periodics :
       (/\ pc[t] \in PeriodicPC
        /\ Contains(k.timers, t) /\ ~Contains(k'.timers, t))
         => k.tick = lastWake[t]]_<<k, pc, lastWake>>

=============================================================================
