------------------------------ MODULE BoundedQueue ------------------------------
(***************************************************************************)
(* What a data queue promises its callers: each item that is pushed is     *)
(* popped once, in the order of the pushes, unless a reset drops it; and   *)
(* only a full queue holds up a push, only an empty one a pop.             *)
(***************************************************************************)
EXTENDS Integers, Sequences

CONSTANTS
  Thread,     \* the callers
  Item,       \* what is queued
  Size        \* how many of them the queue holds

VARIABLES
  queue,      \* the items, the oldest first
  call        \* each caller's request and what came of it

None == [at |-> "none"]
Refused == [at |-> "refused"]
Popping == [at |-> "popping"]
Pushing(x) == [at |-> "pushing", item |-> x]
Pushed(x) == [at |-> "pushed", item |-> x]
Popped(x) == [at |-> "popped", item |-> x]

Full == Len(queue) = Size

Become(t, c) == call' = [call EXCEPT ![t] = c]

Init == queue = <<>> /\ call = [t \in Thread |-> None]

Add(x) == ~Full /\ queue' = Append(queue, x)

Remove == queue # <<>> /\ queue' = Tail(queue)

Push(t) ==
  \E x \in Item : call[t] \in {None, Pushing(x)} /\ Add(x) /\ Become(t, Pushed(x))

Pop(t) == call[t] \in {None, Popping} /\ Remove /\ Become(t, Popped(Head(queue)))

Wait(t) ==
  /\ call[t] = None
  /\ \/ Full /\ \E x \in Item : Become(t, Pushing(x))
     \/ queue = <<>> /\ Become(t, Popping)
  /\ UNCHANGED queue

Refuse(t) ==
  /\ \/ call[t].at \in {"pushing", "popping"}
     \/ call[t] = None /\ (Full \/ queue = <<>>)
  /\ Become(t, Refused)
  /\ UNCHANGED queue

Return(t) ==
  /\ call[t].at \in {"pushed", "popped", "refused"}
  /\ Become(t, None)
  /\ UNCHANGED queue

\* An interrupt handler pushes or pops at once or not at all.
Isr == (Remove \/ \E x \in Item : Add(x)) /\ UNCHANGED call

Reset == queue' = <<>> /\ UNCHANGED call

Next ==
  \/ Isr \/ Reset
  \/ \E t \in Thread : Push(t) \/ Pop(t) \/ Wait(t) \/ Refuse(t) \/ Return(t)

Spec == Init /\ [][Next]_<<queue, call>>

=============================================================================
