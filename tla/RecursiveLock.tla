----------------------------- MODULE RecursiveLock -----------------------------
(***************************************************************************)
(* What a mutex promises its callers, without lists, priorities or timers: *)
(* one owner, who alone takes it again and releases it; a release hands it *)
(* to a caller that waits, if there is one; a caller refused is no owner.  *)
(***************************************************************************)
EXTENDS Integers

CONSTANTS
  Thread,     \* the callers
  None,       \* no thread
  HoldMax     \* RT_MUTEX_HOLD_MAX

VARIABLES
  owner,      \* the thread that has the lock, or None
  depth,      \* how often the owner has taken it
  call        \* where each caller's rt_mutex_take is

lvars == <<owner, depth, call>>

Become(t, c) == call' = [call EXCEPT ![t] = c]

Waiting == {t \in Thread : call[t] = "waiting"}

Init == owner = None /\ depth = 0 /\ call = [t \in Thread |-> "none"]

Take(t) == /\ call[t] = "none" /\ owner = None
           /\ owner' = t /\ depth' = 1
           /\ UNCHANGED call

Again(t) == /\ call[t] = "none" /\ owner = t
            /\ depth < HoldMax /\ depth' = depth + 1
            /\ UNCHANGED <<owner, call>>

Wait(t) == /\ call[t] = "none" /\ owner \notin {None, t}
           /\ Become(t, "waiting")
           /\ UNCHANGED <<owner, depth>>

Refuse(t) == /\ call[t] = "waiting"
             /\ Become(t, "refused")
             /\ UNCHANGED <<owner, depth>>

Return(t) == /\ \/ call[t] = "refused"
                \/ call[t] = "granted" /\ owner = t
             /\ Become(t, "none")
             /\ UNCHANGED <<owner, depth>>

Release(t) ==
  /\ call[t] = "none" /\ owner = t
  /\ \/ depth > 1 /\ depth' = depth - 1 /\ UNCHANGED <<owner, call>>
     \/ /\ depth = 1 /\ Waiting = {}
        /\ depth' = 0 /\ owner' = None /\ UNCHANGED call
     \/ /\ depth = 1 /\ UNCHANGED depth
        /\ owner' \in Waiting /\ Become(owner', "granted")

\* The mutex is detached: every waiter is turned away.
TurnAway ==
  /\ call' = [t \in Thread |-> IF t \in Waiting THEN "refused" ELSE call[t]]
  /\ UNCHANGED <<owner, depth>>

Next ==
  \/ TurnAway
  \/ \E t \in Thread : Take(t) \/ Again(t) \/ Wait(t) \/ Refuse(t)
                       \/ Return(t) \/ Release(t)

Spec == Init /\ [][Next]_lvars

=============================================================================
