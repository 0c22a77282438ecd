------------------------------- MODULE Semaphore -------------------------------
(***************************************************************************)
(* The semaphore of ipc.c, used by threads and by interrupt handlers, on   *)
(* top of the kernel core.                                                 *)
(*                                                                         *)
(* A thread at "run" may call any function. The other program counters are *)
(* points inside a function where interrupts are enabled.                  *)
(***************************************************************************)
EXTENDS Ipc

CONSTANTS
  SemFlag,     \* RT_IPC_FLAG_FIFO or RT_IPC_FLAG_PRIO
  MaxValue,    \* RT_SEM_VALUE_MAX, 65535 in the code
  InitValues,  \* the values rt_sem_init may be given
  Timeouts,    \* the timeouts rt_sem_take is called with
  Resets,      \* the values rt_sem_control(RESET) may be given
  Detaches,    \* BOOLEAN: the semaphore may be detached
  NewPrio,     \* the priorities rt_thread_control may set
  InitPrio     \* the initial priorities of the threads

ASSUME SemaphoreAssumption ==
  /\ WaitList = {"sem"}
  /\ SemFlag \in Flag
  /\ MaxValue \in Nat
  /\ InitValues \subseteq 0 .. MaxValue
  /\ Resets \subseteq 0 .. MaxValue
  /\ Timeouts \subseteq {Forever, NoWait} \cup 1 .. TickHalf - 1
  /\ Detaches \in BOOLEAN
  /\ NewPrio \subseteq Prio
  /\ InitPrio \in [Thread -> Prio] /\ InitPrio[Idle] = PrioMax - 1

VARIABLES
  value,    \* sem->value
  inUse,    \* the semaphore is initialised and its detach has not begun
  pc        \* where each thread is

svars == <<k, isr, value, inUse, pc>>

PC == {"run", "took", "not_taken", "take_sched", "take_return",
       "post_sched", "detach_test", "detach_wake"}

At(t, c) == Executes(t) /\ pc[t] = c

Goto(t, c) == pc' = [pc EXCEPT ![t] = c]

Waiters == k.wait["sem"]

-----------------------------------------------------------------------------
(* rt_sem_take. The idle thread does not block. *)

TakeNow(t) ==
  /\ At(t, "run") /\ inUse
  /\ value > 0
  /\ value' = value - 1
  /\ Goto(t, "took")
  /\ UNCHANGED <<k, isr, inUse>>

TakeRefused(t) ==
  /\ At(t, "run") /\ inUse
  /\ value = 0 /\ NoWait \in Timeouts
  /\ Goto(t, "not_taken")
  /\ UNCHANGED <<k, isr, value, inUse>>

TakeWait(t) ==
  /\ At(t, "run") /\ inUse
  /\ value = 0 /\ t # Idle
  /\ \E timeout \in Timeouts \ {NoWait} :
       k' = Block(k, "sem", t, SemFlag, timeout)
  /\ Goto(t, "take_sched")
  /\ UNCHANGED <<isr, value, inUse>>

TakeSchedule(t) ==
  /\ At(t, "take_sched")
  /\ k' = Schedule(k)
  /\ Goto(t, "take_return")
  /\ UNCHANGED <<isr, value, inUse>>

\* RT_EOK at "took", -RT_ETIMEOUT at "not_taken", else thread->error.
TakeReturn(t) ==
  /\ \E c \in {"took", "not_taken", "take_return"} : At(t, c)
  /\ Goto(t, "run")
  /\ UNCHANGED <<k, isr, value, inUse>>

-----------------------------------------------------------------------------
(* rt_sem_release: the unit goes to the first waiter, else it is counted.  *)

\* mutants: the unit is handed over and counted; it is counted past the limit
HandAndCount ==
  /\ Waiters # <<>>
  /\ k' = IpcListResume(k, "sem")
  /\ value' = IF value < MaxValue THEN value + 1 ELSE value
CountPastLimit ==
  /\ Waiters = <<>>
  /\ value' = value + 1
  /\ UNCHANGED k

Hand ==
  /\ Waiters # <<>>
  /\ k' = IpcListResume(k, "sem")
  /\ UNCHANGED value

\* Beyond the limit the release fails with -RT_EFULL.
Count ==
  /\ Waiters = <<>>
  /\ value' = IF value < MaxValue THEN value + 1 ELSE value
  /\ UNCHANGED k

Release(t) ==
  /\ At(t, "run") /\ inUse
  /\ \/ Hand /\ Goto(t, "post_sched")
     \/ Count /\ UNCHANGED pc
  /\ UNCHANGED <<isr, inUse>>

\* The same, called by an interrupt handler, which no other one interrupts.
IsrRelease ==
  /\ isr = "none" /\ inUse
  /\ \/ /\ Waiters # <<>>
        /\ k' = Schedule(IpcListResume(k, "sem"))
        /\ UNCHANGED value
     \/ Count
  /\ UNCHANGED <<isr, inUse, pc>>

-----------------------------------------------------------------------------
(* rt_sem_control(RESET) *)

Reset(t) ==
  /\ At(t, "run") /\ inUse
  /\ k' = IpcListResumeAll(k, "sem")
  /\ value' \in Resets
  /\ Goto(t, "post_sched")
  /\ UNCHANGED <<isr, inUse>>

-----------------------------------------------------------------------------
(* rt_sem_detach and rt_sem_delete: the list is tested with interrupts     *)
(* enabled, the first waiter woken with interrupts disabled, again and     *)
(* again. From its beginning nobody else calls a function on the object.   *)

DetachStart(t) ==
  /\ At(t, "run") /\ inUse
  /\ Detaches
  /\ inUse' = FALSE
  /\ Goto(t, "detach_test")
  /\ UNCHANGED <<k, isr, value>>

DetachTest(t) ==
  /\ At(t, "detach_test")
  /\ Goto(t, IF Waiters = <<>> THEN "run" ELSE "detach_wake")
  /\ UNCHANGED <<k, isr, value, inUse>>

\* Were the list empty now, the code would take the list head for a thread;
\* the model does not follow it there.
DetachWake(t) ==
  /\ At(t, "detach_wake")
  /\ Waiters # <<>>
  /\ k' = Wake(k, "sem", "ERROR")
  /\ Goto(t, "detach_test")
  /\ UNCHANGED <<isr, value, inUse>>

-----------------------------------------------------------------------------
CallSchedule(t) ==
  /\ At(t, "post_sched")
  /\ k' = Schedule(k)
  /\ Goto(t, "run")
  /\ UNCHANGED <<isr, value, inUse>>

\* rt_thread_control: a waiter keeps its place in the queue.
ChangePriority(t, u) ==
  /\ At(t, "run")
  /\ u # Idle
  /\ \E p \in NewPrio : k' = SetPriority(k, u, p)
  /\ Goto(t, "post_sched")
  /\ UNCHANGED <<isr, value, inUse>>

Interrupt == TickStep /\ UNCHANGED <<value, inUse, pc>>

ThreadStep(t) ==
  \/ TakeNow(t) \/ TakeRefused(t) \/ TakeWait(t) \/ TakeSchedule(t)
  \/ TakeReturn(t) \/ Release(t) \/ Reset(t) \/ CallSchedule(t)
  \/ DetachStart(t) \/ DetachTest(t) \/ DetachWake(t)
  \/ \E u \in Thread : ChangePriority(t, u)

Init ==
  /\ \E cur \in Thread :
       /\ \A t \in Thread : InitPrio[cur] <= InitPrio[t]
       /\ k = KernelStart(Thread, cur, InitPrio)
  /\ isr = "none"
  /\ value \in InitValues
  /\ inUse = TRUE
  /\ pc = [t \in Thread |-> "run"]

Next == Interrupt \/ IsrRelease \/ \E t \in Thread : ThreadStep(t)

Spec == Init /\ [][Next]_svars

\* As in Threads: SysTick keeps coming and returning, and a thread that has
\* the processor again and again gets on with the function it is in.
TickGoesOn == isr' \in {"none", "tick"}
GetsOn(t) == Executes(t) /\ pc[t] # "run" /\ \E c \in PC : Goto(t, c)

FairSpec == Spec /\ WF_isr(TickGoesOn) /\ \A t \in Thread : SF_pc(GetsOn(t))
-----------------------------------------------------------------------------
(* Properties *)

\* The kernel record, the value and the program counters have their types.
TypeOK ==
  /\ k \in KernelState
  /\ isr \in {"none", "tick"}
  /\ value \in 0 .. MaxValue
  /\ inUse \in BOOLEAN
  /\ pc \in [Thread -> PC]

\* Nobody waits for a semaphore that has a unit to give, whoever released it
\* and however releases, timeouts and resets interleave.
NoWaitWhileFree == value > 0 => Waiters = <<>>

\* A thread on the wait list is inside rt_sem_take and suspended, and a
\* thread timer runs only for a thread that still waits: no late timeout can
\* hit a thread that has been given its unit.
TimersOnlyForWaiters ==
  /\ \A t \in Thread : Contains(k.timers, t) => Contains(Waiters, t)
  /\ \A t \in Thread : Contains(Waiters, t) =>
        /\ k.stat[t] = "SUSPEND"
        /\ pc[t] \in {"take_sched", "take_return"}
        /\ k.error[t] = "EINTR"

\* What the caller of rt_sem_take sees (CountingSemaphore).
CallOf(t) ==
  IF Contains(Waiters, t) THEN "waiting"
  ELSE IF \/ pc[t] = "took"
          \/ pc[t] \in {"take_sched", "take_return"} /\ k.error[t] = "EOK"
       THEN "granted"
  ELSE IF \/ pc[t] = "not_taken"
          \/ /\ pc[t] \in {"take_sched", "take_return"}
             /\ k.error[t] \in {"ETIMEOUT", "ERROR"}
       THEN "refused"
  ELSE "none"

Abstract == INSTANCE CountingSemaphore
              WITH free <- value, call <- [t \in Thread |-> CallOf(t)]

\* The semaphore implements the counting semaphore: a unit goes to exactly
\* one caller or is counted, and a caller that timed out has none, at every
\* interleaving of takes, releases, timeouts, resets and a detach; and no
\* caller comes back with -RT_EINTR, without anybody having had to do with it.
IsCountingSemaphore == Abstract!Spec

Foremost(t) == \A u \in Thread \ {t} : k.prio[t] < k.prio[u]

\* The take of a thread ahead of all others returns once its timer runs, with
\* or without a release.
TakeReturns ==
  \A t \in Thread :
     (Foremost(t) /\ pc[t] = "take_sched" /\ Contains(k.timers, t))
        ~> pc[t] = "run"

=============================================================================
