------------------------------ MODULE MCSemaphore ------------------------------
(* Instances of Semaphore for TLC. *)
EXTENDS Semaphore
CONSTANTS idle, a, b

Three == {idle, a, b}
OneList == {"sem"}
Slices == [t \in Thread |-> IF t = b THEN 2 ELSE 1]
Prios == [t \in Thread |->
            IF t = idle THEN PrioMax - 1 ELSE IF t = a THEN 0 ELSE 1]
Values == {0, MaxValue}
NowOneOrForever == {NoWait, 1, Forever}
=============================================================================
