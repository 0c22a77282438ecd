------------------------------- MODULE MCServices -------------------------------
(* Instances of Services for TLC. *)
EXTENDS Services
CONSTANTS idle, a, b

Three == {idle, a, b}
Lists == {"event", "pool", "pop", "push", "done"}
NoThread == {}
OneThread == {a}
Slices == [t \in Thread |-> 1]
Prios == [t \in Thread |->
            IF t = idle THEN PrioMax - 1 ELSE IF t = a THEN 0 ELSE 1]
LowerIsTimed == [t \in Thread |-> IF t = a THEN {NoWait, Forever} ELSE {1}]
NowOneOrForever == {NoWait, 1, Forever}

TwoBits == {0, 1}
AllAndAny ==
  {[set |-> TwoBits, and |-> TRUE, clear |-> TRUE],
   [set |-> TwoBits, and |-> FALSE, clear |-> TRUE],
   [set |-> {0}, and |-> FALSE, clear |-> FALSE]}
OneOrBoth == {{0}, {1}, TwoBits}

OneEach == {{s} : s \in {"event", "pool", "queue", "completion", "sleep", "usart"}}
JustUsart == {{"usart"}}
=============================================================================
