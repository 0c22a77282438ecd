--------------------------------- MODULE Alarms ---------------------------------
(***************************************************************************)
(* What the timers promise their users, without a list and without a tick  *)
(* counter: each alarm that is set counts down and goes off after exactly  *)
(* the ticks it was set to, before the next tick; a periodic one is set    *)
(* again when its function has returned, unless this function stopped or   *)
(* set it; one that is stopped does not go off.                            *)
(***************************************************************************)
EXTENDS Integers

CONSTANTS Timer, None, Times

VARIABLES
  left,       \* the ticks each alarm has left, or Off
  time,       \* the ticks it is set to when it is started
  periodic,   \* it is set again when it has gone off
  running,    \* the alarm whose function runs, or None
  again       \* this alarm may be set again

avars == <<left, time, periodic, running, again>>

Off == -1

Init ==
  /\ left = [t \in Timer |-> Off]
  /\ time \in [Timer -> Times] /\ periodic \in [Timer -> BOOLEAN]
  /\ running = None /\ again = FALSE

\* No tick passes while an alarm is due or its function runs.
Tick ==
  /\ running = None /\ \A t \in Timer : left[t] # 0
  /\ left' = [t \in Timer |-> IF left[t] = Off THEN Off ELSE left[t] - 1]
  /\ UNCHANGED <<time, periodic, running, again>>

GoOff(t) ==
  /\ running = None /\ left[t] = 0
  /\ left' = [left EXCEPT ![t] = Off]
  /\ running' = t /\ again' = periodic[t]
  /\ UNCHANGED <<time, periodic>>

Finish ==
  /\ running # None
  /\ left' = IF again /\ periodic[running]
             THEN [left EXCEPT ![running] = time[running]] ELSE left
  /\ running' = None /\ again' = FALSE
  /\ UNCHANGED <<time, periodic>>

Forget(t) == again' = (again /\ t # running)

Start(t) == /\ left' = [left EXCEPT ![t] = time[t]] /\ Forget(t)
            /\ UNCHANGED <<time, periodic, running>>

Stop(t) == /\ left' = [left EXCEPT ![t] = Off] /\ Forget(t)
           /\ UNCHANGED <<time, periodic, running>>

\* The settings count from the next start on.
Adjust(t) ==
  /\ \E d \in Times, p \in BOOLEAN :
       time' = [time EXCEPT ![t] = d] /\ periodic' = [periodic EXCEPT ![t] = p]
  /\ UNCHANGED <<left, running, again>>

Next == \/ Tick \/ Finish
        \/ \E t \in Timer : GoOff(t) \/ Start(t) \/ Stop(t) \/ Adjust(t)

Spec == Init /\ [][Next]_avars

=============================================================================
