------------------------------- MODULE Allocator -------------------------------
(***************************************************************************)
(* What a pool of blocks promises its callers: a block belongs to one of   *)
(* them at a time, and nobody is refused or made to wait with a block free.*)
(***************************************************************************)
EXTENDS Integers

CONSTANTS
  Thread,     \* the callers
  Unit        \* the blocks

VARIABLES
  used,       \* the blocks that are handed out
  call        \* where each caller's rt_mp_alloc is

None == [at |-> "none"]
Waiting == [at |-> "waiting"]
Refused == [at |-> "refused"]
Has(b) == [at |-> "granted", block |-> b]

Become(t, c) == call' = [call EXCEPT ![t] = c]

Init == used = {} /\ call = [t \in Thread |-> None]

Alloc(t) ==
  /\ call[t] \in {None, Waiting}
  /\ \E b \in Unit \ used : used' = used \cup {b} /\ Become(t, Has(b))

Wait(t) ==
  /\ call[t] = None /\ used = Unit
  /\ Become(t, Waiting)
  /\ UNCHANGED used

\* A timeout or a detach may turn a waiter away at any time.
Refuse(t) ==
  /\ call[t] = Waiting \/ (call[t] = None /\ used = Unit)
  /\ Become(t, Refused)
  /\ UNCHANGED used

Return(t) ==
  /\ call[t].at \in {"granted", "refused"}
  /\ Become(t, None)
  /\ UNCHANGED used

\* An interrupt handler allocates without a call of its own to wait in.
IsrAlloc ==
  /\ \E b \in Unit \ used : used' = used \cup {b}
  /\ UNCHANGED call

\* Freeing a block refuses nobody.
Free ==
  /\ \E b \in used : used' = used \ {b}
  /\ UNCHANGED call

\* A detach turns waiters away, one after the other.
Next ==
  \/ IsrAlloc \/ Free
  \/ \E t \in Thread : Alloc(t) \/ Wait(t) \/ Refuse(t) \/ Return(t)

Spec == Init /\ [][Next]_<<used, call>>

=============================================================================
