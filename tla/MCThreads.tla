----------------------------- MODULE MCThreads ------------------------------
(* Instances of Threads for TLC. *)
EXTENDS Threads
CONSTANTS idle, a, b, c

Three == {idle, a, b}
Four == {idle, a, b, c}
OneMortal == {b}
Peers == [t \in Thread |-> IF t = idle THEN PrioMax - 1 ELSE 0]
NoThread == {}
NoWaitList == {}
Slices == [t \in Thread |-> IF t = b THEN 2 ELSE 1]
Prios == [t \in Thread |->
            IF t = idle THEN PrioMax - 1 ELSE IF t = a THEN 0 ELSE 1]
=============================================================================
