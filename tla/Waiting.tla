-------------------------------- MODULE Waiting --------------------------------
(***************************************************************************)
(* What the services that block threads have in common: events, memory     *)
(* pools, data queues and completions. Each is a module of its own on top  *)
(* of this one and of the thread functions; module Services composes them. *)
(*                                                                         *)
(* A thread at "run" may call any service that is live, except the idle    *)
(* thread, which has no hooks in this firmware. The other program counters *)
(* are points inside a call where interrupts are enabled.                  *)
(***************************************************************************)
EXTENDS Threads, Ipc

CONSTANTS
  Timeouts,     \* the timeouts blocking calls are given
  Retried       \* those each thread gives to calls that may wait again

ASSUME WaitingAssumption ==
  /\ Timeouts \subseteq {Forever, NoWait} \cup 1 .. TickHalf - 1
  /\ Retried \in [Thread -> SUBSET Timeouts]

VARIABLES
  live,     \* the services that are initialised and not being detached
  left      \* what is left of the timeout of the call a thread is in

wvars == <<live, left>>

Calls(t, service) == At(t, "run") /\ t # Idle /\ service \in live

\* Handlers other than SysTick are one step, outside of the SysTick handler: one
\* that preempts it does there what it would do just before or just after.
IsrCalls(service) == isr = "none" /\ service \in live

-----------------------------------------------------------------------------
\* How the calls outside of ipc.c wait: the error is reset, so that whoever
\* wakes the thread need not set it; at the end of the list or at its front.
Suspended(s, t) == SuspendThread([s EXCEPT !.error[t] = "EOK"], t)

Armed(s, t, timeout) == IF timeout > 0 THEN TimerStart(s, t, timeout) ELSE s

AwaitLast(s, w, t, timeout) ==
  Armed(WaitInsert(Suspended(s, t), w, t, "FIFO"), t, timeout)

AwaitFirst(s, w, t, timeout) ==
  Armed([Suspended(s, t) EXCEPT !.wait[w] = <<t>> \o @], t, timeout)

\* The first waiter is resumed, if there is one.
ResumeFirst(s, w) ==
  IF s.wait[w] = <<>> THEN s ELSE ResumeThread(s, Head(s.wait[w]))

\* rt_schedule in the middle of a call.
ScheduleIn(t, here, there) ==
  /\ At(t, here)
  /\ k' = Schedule(k)
  /\ Goto(t, there)
  /\ UNCHANGED isr

\* A call returns. Every call that reads thread->error sets it first: between
\* calls it is dead, and the model forgets it.
Back(t) == k' = [k EXCEPT !.error[t] = "EOK"] /\ Goto(t, "run")

-----------------------------------------------------------------------------
(* Turning every waiter away: the list is tested with interrupts enabled,  *)
(* its first thread woken with interrupts disabled, again and again. Were  *)
(* the list empty at the second step, the code would take the list head    *)
(* for a thread; the model does not follow it there.                       *)

DrainTest(t, w, test, wake, done) ==
  /\ At(t, test)
  /\ Goto(t, IF k.wait[w] = <<>> THEN done ELSE wake)
  /\ UNCHANGED <<k, isr>>

DrainWake(t, w, test, wake) ==
  /\ At(t, wake)
  /\ k.wait[w] # <<>>
  /\ k' = Wake(k, w, "ERROR")
  /\ Goto(t, test)
  /\ UNCHANGED isr

-----------------------------------------------------------------------------
\* A thread in a waiting call at one of the given points is still on the
\* list, or has been woken without an error and is on its way back.
Waits(t, w) == Contains(k.wait[w], t)

OnItsWay(t, w, points) == pc[t] \in points /\ ~Waits(t, w) /\ k.error[t] = "EOK"

Failed(t) == k.error[t] \in {"ETIMEOUT", "ERROR"}
=============================================================================
