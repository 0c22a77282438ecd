--------------------------------- MODULE Signal ---------------------------------
(***************************************************************************)
(* What a completion promises the one thread that waits for it: a wait     *)
(* that succeeds uses up a signal given since, and a signal finds a thread *)
(* that waits. Signals that nobody has waited for yet count as one.        *)
(***************************************************************************)

VARIABLES
  given,      \* a signal is there for the next wait
  call        \* where the thread's rt_completion_wait is

Init == given = FALSE /\ call = "none"

Wait ==
  /\ call = "none"
  /\ \/ given /\ call' = "granted"
     \/ ~given /\ call' \in {"waiting", "refused"}
  /\ given' = FALSE

Give ==
  IF call = "waiting" THEN call' = "granted" /\ UNCHANGED given
                      ELSE given' = TRUE /\ UNCHANGED call

Refuse == call = "waiting" /\ call' = "refused" /\ UNCHANGED given

\* A wait that comes back with a timeout may take a late signal with it.
Return ==
  /\ \/ call = "granted" /\ UNCHANGED given
     \/ call = "refused" /\ given' \in {given, FALSE}
  /\ call' = "none"

Next == Wait \/ Give \/ Refuse \/ Return

Spec == Init /\ [][Next]_<<given, call>>

=============================================================================
