--------------------------- MODULE CountingSemaphore ---------------------------
(***************************************************************************)
(* What a semaphore promises its callers, without lists, timers or         *)
(* scheduler: a unit is free or has been handed to one caller, nobody      *)
(* waits while a unit is free, and a caller that is refused gets none.     *)
(***************************************************************************)
EXTENDS Integers

CONSTANTS
  Thread,     \* the callers
  MaxValue    \* RT_SEM_VALUE_MAX

VARIABLES
  free,       \* the units nobody has
  call        \* where each caller's rt_sem_take is

Call == {"none", "waiting", "granted", "refused"}

TypeOK == free \in 0 .. MaxValue /\ call \in [Thread -> Call]

Waiting == {t \in Thread : call[t] = "waiting"}

Become(t, c) == call' = [call EXCEPT ![t] = c]

Init == free \in 0 .. MaxValue /\ call = [t \in Thread |-> "none"]

Take(t) == call[t] = "none" /\ free > 0 /\ free' = free - 1 /\ Become(t, "granted")

Wait(t) == call[t] = "none" /\ free = 0 /\ Become(t, "waiting") /\ UNCHANGED free

Refuse(t) == /\ call[t] = "waiting" \/ (call[t] = "none" /\ free = 0)
             /\ Become(t, "refused")
             /\ UNCHANGED free

Return(t) == /\ call[t] \in {"granted", "refused"}
             /\ Become(t, "none")
             /\ UNCHANGED free

\* A released unit goes to one waiter, or is free if there is none.
Hand(t) == call[t] = "waiting" /\ Become(t, "granted") /\ UNCHANGED free

Put == Waiting = {} /\ free < MaxValue /\ free' = free + 1 /\ UNCHANGED call

\* A reset sets the number of free units and turns every waiter away.
Reset ==
  /\ free' \in 0 .. MaxValue
  /\ call' = [t \in Thread |-> IF t \in Waiting THEN "refused" ELSE call[t]]

Next ==
  \/ Put \/ Reset
  \/ \E t \in Thread : Take(t) \/ Wait(t) \/ Refuse(t) \/ Return(t) \/ Hand(t)

Spec == Init /\ [][Next]_<<free, call>>

=============================================================================
