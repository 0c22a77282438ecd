-------------------------------- MODULE Services --------------------------------
(***************************************************************************)
(* The services that block threads, and the UART whose handler does, each  *)
(* composed with the scheduler, the tick and the thread timers. The        *)
(* application of an instance uses one service at a time: which one, of    *)
(* those in Lives, is fixed when the system starts.                        *)
(***************************************************************************)
EXTENDS Event, MemPool, DataQueue, Completion, Periodic, Usart

CONSTANT Lives        \* the sets of services an application may use

ASSUME ServicesAssumption ==
  /\ WaitList = {"event", "pool", "pop", "push", "done"}
  /\ Mortal = {} /\ Started = Thread
  /\ \A l \in Lives :
       l \subseteq {"event", "pool", "queue", "completion", "sleep", "usart"}

svars == <<tvars, wvars, evars, pvars, qvars, flag, lastWake, uvars>>

ServicesPC ==
  PC \cup EventPC \cup PoolPC \cup QueuePC \cup CompletionPC \cup PeriodicPC

-----------------------------------------------------------------------------
\* The delays of thread.c, for an application that only sleeps; the rest of
\* the thread functions are in module Threads.
Sleep(t) ==
  \/ "sleep" \in live /\ SleepBlock(t)
  \/ SleepMark(t) \/ SleepSchedule(t) \/ SleepReturn(t)

\* Each step belongs to one service and leaves the others alone.
KernelNext ==
  /\ Interrupt \/ \E t \in Thread : CallSchedule(t) \/ Sleep(t)
  /\ UNCHANGED <<wvars, evars, pvars, qvars, flag, lastWake, uvars>>

ServiceNext ==
  /\ \/ EventNext /\ UNCHANGED <<pvars, qvars, flag, lastWake, uvars>>
     \/ PoolNext /\ UNCHANGED <<evars, qvars, flag, lastWake, uvars>>
     \/ QueueNext /\ UNCHANGED <<evars, pvars, flag, lastWake, uvars>>
     \/ CompletionNext /\ UNCHANGED <<evars, pvars, qvars, lastWake, uvars>>
     \/ PeriodicNext /\ UNCHANGED <<evars, pvars, qvars, flag, uvars>>
     \/ UsartNext /\ UNCHANGED <<evars, pvars, qvars, flag, lastWake>>
  /\ UNCHANGED <<target, stale>>

ServicesInit ==
  /\ Init
  /\ live \in Lives
  /\ left = [t \in Thread |-> 0]
  /\ EventInit /\ PoolInit /\ QueueInit /\ CompletionInit /\ PeriodicInit
  /\ UsartInit

ServicesNext == KernelNext \/ ServiceNext

\* The SysTick interrupt keeps coming and returning, and a thread that has the
\* processor again and again gets on with the function it is in: every step
\* at a point inside a function moves its counter.
TickGoesOn == isr' \in {"none", "tick"}
GetsOn(t) ==
  Executes(t) /\ pc[t] # "run" /\ \E c \in ServicesPC : Goto(t, c)

ServicesSpec ==
  /\ ServicesInit /\ [][ServicesNext]_svars
  /\ WF_isr(TickGoesOn) /\ \A t \in Thread \ {Idle} : SF_pc(GetsOn(t))
-----------------------------------------------------------------------------
(* Properties *)

\* The state of the kernel and of every service has its type.
ServicesTypeOK ==
  /\ k \in KernelState
  /\ isr \in {"none", "tick"} \cup UartIsr
  /\ pc \in [Thread -> ServicesPC]
  /\ target \in [Thread -> Thread] /\ stale = {}
  /\ live \in SUBSET UNION Lives
  /\ left \in [Thread -> {Forever} \cup 0 .. TickHalf - 1]
  /\ lastWake \in [Periodics -> Tick]
  /\ flag \in BOOLEAN
  /\ EventTypeOK /\ PoolTypeOK /\ QueueTypeOK /\ UsartTypeOK

Foremost(t) == \A u \in Thread \ {t} : InitPrio[t] < InitPrio[u]

\* A thread ahead of all others comes back from a blocking call whose timer
\* runs, of rt_thread_sleep, rt_thread_delay_until, rt_event_recv and
\* rt_completion_wait, whether or not what it waits for ever happens. (The
\* calls of memory pools and data queues may start their wait again.)
TimedCallReturns ==
  \A t \in {u \in Thread : Foremost(u)} :
    (/\ pc[t] \in {"sleep_mark", "until_sched", "recv_sched", "wait_sched"}
     /\ pc[t] = "sleep_mark" \/ Contains(k.timers, t))
      ~> pc[t] = "run"

=============================================================================
