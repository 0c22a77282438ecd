------------------------------ MODULE EventGroup ------------------------------
(***************************************************************************)
(* What an event set promises its callers, without lists, timers or        *)
(* scheduler: nobody waits for flags that are there, what a receiver that  *)
(* clears has got nobody else gets, and no flag is lost on the way.        *)
(***************************************************************************)
EXTENDS Integers

CONSTANTS
  Thread,     \* the callers
  Bit         \* the flags

VARIABLES
  flags,      \* the flags that are set
  call        \* where each caller's rt_event_recv is, and its request

Request == [set : (SUBSET Bit) \ {{}}, and : BOOLEAN, clear : BOOLEAN]

None == [at |-> "none"]
Refused == [at |-> "refused"]
Wants(r) == [at |-> "waiting", request |-> r]
Has(got) == [at |-> "granted", got |-> got]

Become(t, c) == call' = [call EXCEPT ![t] = c]

Waiting == {t \in Thread : call[t].at = "waiting"}

Holds(r, f) == IF r.and THEN r.set \subseteq f ELSE r.set \cap f # {}

Init == flags = {} /\ call = [t \in Thread |-> None]

Recv(t) ==
  /\ call[t] = None
  /\ \E r \in Request :
       /\ Holds(r, flags)
       /\ Become(t, Has(r.set \cap flags))
       /\ flags' = IF r.clear THEN flags \ r.set ELSE flags

Wait(t) ==
  /\ call[t] = None
  /\ \E r \in Request : ~Holds(r, flags) /\ Become(t, Wants(r))
  /\ UNCHANGED flags

Refuse(t) ==
  /\ \/ call[t].at = "waiting"
     \/ call[t] = None /\ \E r \in Request : ~Holds(r, flags)
  /\ Become(t, Refused)
  /\ UNCHANGED flags

Return(t) ==
  /\ call[t].at \in {"granted", "refused"}
  /\ Become(t, None)
  /\ UNCHANGED flags

\* Flags arrive. Some waiters get what they asked for, those that clear each
\* their own; the flags nobody has cleared remain, and satisfy no one left.
Send ==
  \E sent \in SUBSET Bit :
    LET all    == flags \cup sent
        given  == {t \in Waiting : call'[t].at = "granted"}
        clears == {t \in given : call[t].request.clear}
        got(t) == call'[t].got
    IN  /\ \A t \in given : /\ got(t) \subseteq all \cap call[t].request.set
                            /\ Holds(call[t].request, got(t))
        /\ \A t, u \in clears : t # u => got(t) \cap got(u) = {}
        /\ flags' = all \ UNION {got(t) : t \in clears}
        /\ \A t \in Waiting \ given : ~Holds(call[t].request, flags')
        /\ call' = [t \in Thread |-> IF t \in given THEN Has(got(t)) ELSE call[t]]

\* A reset drops the flags and turns every waiter away.
Reset ==
  /\ flags' = {}
  /\ call' = [t \in Thread |-> IF t \in Waiting THEN Refused ELSE call[t]]

Next ==
  \/ Send \/ Reset
  \/ \E t \in Thread : Recv(t) \/ Wait(t) \/ Refuse(t) \/ Return(t)

Spec == Init /\ [][Next]_<<flags, call>>

=============================================================================
