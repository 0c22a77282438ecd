------------------------------- MODULE Completion -------------------------------
(***************************************************************************)
(* The completion of drivers/ipc/completion.c: threads and handlers signal *)
(* it, one thread waits for it ("only one thread can suspend on complete").*)
(***************************************************************************)
EXTENDS Waiting

CONSTANT Waiter       \* the thread that waits

ASSUME CompletionAssumption == Waiter \in Thread \ {Idle}

VARIABLE flag         \* completion->flag is RT_COMPLETED

CompletionPC == {"wait_granted", "wait_refused", "wait_sched", "wait_return",
                 "done_set"}

-----------------------------------------------------------------------------
(* rt_completion_wait *)

WaitNow(t) ==
  /\ Calls(t, "completion") /\ t = Waiter
  /\ flag
  /\ flag' = FALSE
  /\ Goto(t, "wait_granted")
  /\ UNCHANGED <<k, isr, wvars>>

WaitRefused(t) ==
  /\ Calls(t, "completion") /\ t = Waiter
  /\ ~flag /\ NoWait \in Timeouts
  /\ Goto(t, "wait_refused")
  /\ UNCHANGED <<k, isr, wvars, flag>>

WaitBlock(t) ==
  /\ Calls(t, "completion") /\ t = Waiter
  /\ ~flag
  /\ \E timeout \in Timeouts \ {NoWait} :
       k' = AwaitLast(k, "done", t, timeout)
  /\ Goto(t, "wait_sched")
  /\ UNCHANGED <<isr, wvars, flag>>

WaitSchedule(t) ==
  ScheduleIn(t, "wait_sched", "wait_return") /\ UNCHANGED <<wvars, flag>>

\* mutant: the flag is not cleared
KeepFlag(t) == flag

\* Whatever the outcome, the flag is cleared.
FlagAfterWait(t) == FALSE

WaitReturn(t) ==
  /\ \/ \E c \in {"wait_granted", "wait_refused"} : At(t, c) /\ UNCHANGED flag
     \/ At(t, "wait_return") /\ flag' = FlagAfterWait(t)
  /\ Back(t)
  /\ UNCHANGED <<isr, wvars>>

-----------------------------------------------------------------------------
(* rt_completion_done: the flag is tested before interrupts are disabled.  *)

DoneTest(t) ==
  /\ Calls(t, "completion")
  /\ ~flag
  /\ Goto(t, "done_set")
  /\ UNCHANGED <<k, isr, wvars, flag>>

DoneSet(t) ==
  /\ At(t, "done_set")
  /\ flag' = TRUE
  /\ k' = ResumeFirst(k, "done")
  /\ Goto(t, IF k' = k THEN "run" ELSE "sched")
  /\ UNCHANGED <<isr, wvars>>

IsrDone ==
  /\ IsrCalls("completion")
  /\ ~flag
  /\ flag' = TRUE
  /\ k' = IF k.wait["done"] = <<>> THEN k ELSE Schedule(ResumeFirst(k, "done"))
  /\ UNCHANGED <<isr, pc, wvars>>

-----------------------------------------------------------------------------
CompletionStep(t) ==
  \/ WaitNow(t) \/ WaitRefused(t) \/ WaitBlock(t) \/ WaitSchedule(t)
  \/ WaitReturn(t) \/ DoneTest(t) \/ DoneSet(t)

CompletionNext == IsrDone \/ \E t \in Thread : CompletionStep(t)

\* rt_completion_init
CompletionInit == flag = FALSE
-----------------------------------------------------------------------------
(* Properties *)

\* Woken by a signal, and the flag not yet cleared on the way out.
TakesSignal ==
  /\ pc[Waiter] \in {"wait_sched", "wait_return"}
  /\ ~Waits(Waiter, "done") /\ k.error[Waiter] = "EOK"

\* A signal is there for the next wait.
Given == flag /\ ~TakesSignal

\* Where the waiter's rt_completion_wait is.
WaitCall ==
  IF pc[Waiter] = "wait_granted" \/ TakesSignal THEN "granted"
  ELSE IF pc[Waiter] = "wait_refused" THEN "refused"
  ELSE IF pc[Waiter] \notin {"wait_sched", "wait_return"} THEN "none"
  ELSE IF Waits(Waiter, "done") THEN "waiting" ELSE "refused"

Completed == INSTANCE Signal WITH given <- Given, call <- WaitCall

\* The completion implements the signal: no wait succeeds without one given
\* since the last, none goes on waiting past one, however the test before the
\* lock, the timeout and the clearing on the way out interleave.
IsCompletion == Completed!Spec

=============================================================================
