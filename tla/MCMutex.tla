------------------------------- MODULE MCMutex -------------------------------
(* Instances of Mutex for TLC. *)
EXTENDS Mutex
CONSTANTS idle, a, b, m1, m2, m3

Three == {idle, a, b}
AllMutexes == {m1, m2, m3}
Both == {m2, m3}
One == {m1}
OneOrBoth == {One, Both}
JustBoth == {Both}
NoThread == {}
NoMutex == {}
JustB == {b}
AandB == {a, b}
Slices == [t \in Thread |-> 1]
Prios == [t \in Thread |->
            IF t = idle THEN PrioMax - 1 ELSE IF t = b THEN 0 ELSE 1]
OneOrForever == {1, Forever}
All == {NoWait, 1, Forever}
=============================================================================
