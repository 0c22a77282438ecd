--------------------------------- MODULE Timers ---------------------------------
(***************************************************************************)
(* The timer API of timer.c: threads start, stop and adjust timers, and    *)
(* rt_timer_check, in the tick handler, calls the functions of those that  *)
(* have expired, which may do the same to any timer, their own included.   *)
(***************************************************************************)
EXTENDS TimerList

CONSTANTS
  Timer,         \* the timers
  None,          \* no timer
  Times,         \* the init_tick a timer may have
  OwnOneShot     \* BOOLEAN: a timer function may make its own timer one-shot

\* rt_timer_init asserts that the time is below RT_TICK_MAX / 2. A periodic
\* timer of time 0 would keep rt_timer_check from ever returning.
ASSUME TimersAssumption ==
  /\ None \notin Timer
  /\ Times \subseteq 1 .. TickHalf - 1
  /\ OwnOneShot \in BOOLEAN

VARIABLES
  l,          \* the list and the tick counter, see TimerList
  time,       \* timer->init_tick
  periodic,   \* RT_TIMER_FLAG_PERIODIC
  active,     \* RT_TIMER_FLAG_ACTIVATED
  live,       \* the timers that are initialised
  at,         \* "thread", or where the handler is: "check", "function"
  called,     \* the timer whose function runs
  held        \* it is still in the local list of rt_timer_check

timvars == <<l, time, periodic, active, live, at, called, held>>

\* Threads and timer functions call the API, with interrupts disabled.
MayCall(t) == at \in {"thread", "function"} /\ t \in live

\* _timer_remove: out of the list, or out of the local list of the handler.
TimerRemove(t) ==
  /\ l' = TimerStop(l, t)
  /\ held' = (held /\ t # called)

TimerInit(t) ==
  /\ at # "check" /\ t \notin live
  /\ live' = live \cup {t}
  /\ \E d \in Times, p \in BOOLEAN :
       time' = [time EXCEPT ![t] = d] /\ periodic' = [periodic EXCEPT ![t] = p]
  /\ active' = [active EXCEPT ![t] = FALSE]
  /\ UNCHANGED <<l, at, called, held>>

StartTimer(t) ==
  /\ MayCall(t)
  /\ l' = TimerStart(l, t, time[t])
  /\ held' = (held /\ t # called)
  /\ active' = [active EXCEPT ![t] = TRUE]
  /\ UNCHANGED <<time, periodic, live, at, called>>

\* A timer that is not activated stays where it is (-RT_ERROR).
StopTimer(t) ==
  /\ MayCall(t)
  /\ active[t]
  /\ TimerRemove(t)
  /\ active' = [active EXCEPT ![t] = FALSE]
  /\ UNCHANGED <<time, periodic, live, at, called>>

\* mutant: the timer is left in the list
DetachLinked(t) ==
  /\ MayCall(t)
  /\ live' = live \ {t}
  /\ active' = [active EXCEPT ![t] = FALSE]
  /\ UNCHANGED <<l, held, time, periodic, at, called>>

Detach(t) ==
  /\ MayCall(t)
  /\ TimerRemove(t)
  /\ active' = [active EXCEPT ![t] = FALSE]
  /\ live' = live \ {t}
  /\ UNCHANGED <<time, periodic, at, called>>

SetTime(t) ==
  /\ MayCall(t)
  /\ \E d \in Times : time' = [time EXCEPT ![t] = d]
  /\ UNCHANGED <<l, periodic, active, live, at, called, held>>

SetPeriodic(t, p) ==
  /\ MayCall(t)
  /\ p \/ OwnOneShot \/ t # called
  /\ periodic' = [periodic EXCEPT ![t] = p]
  /\ UNCHANGED <<l, time, active, live, at, called, held>>

-----------------------------------------------------------------------------
(* rt_tick_increase and rt_timer_check. Interrupts stay disabled until all *)
(* expired timers have been served.                                        *)

TickIncrease ==
  /\ at = "thread"
  /\ at' = "check"
  /\ l' = [l EXCEPT !.tick = NextTick(l)]
  /\ UNCHANGED <<time, periodic, active, live, called, held>>

Expire ==
  /\ at = "check"
  /\ TimerExpired(l)
  /\ LET t == Head(l.timers) IN
       /\ l' = TimerStop(l, t)
       /\ active' = [active EXCEPT ![t] = periodic[t]]
       /\ called' = t
  /\ held' = TRUE
  /\ at' = "function"
  /\ UNCHANGED <<time, periodic, live>>

\* mutant: whether the function has stopped or started the timer is not asked
FunctionReturnRestarts ==
  /\ at = "function"
  /\ IF periodic[called]
     THEN /\ l' = TimerStart(l, called, time[called])
          /\ active' = [active EXCEPT ![called] = TRUE]
     ELSE UNCHANGED <<l, active>>
  /\ at' = "check" /\ called' = None /\ held' = FALSE
  /\ UNCHANGED <<time, periodic, live>>

\* "Check whether the timer object is detached or started again"
FunctionReturn ==
  /\ at = "function"
  /\ l' = IF held /\ periodic[called] /\ active[called]
          THEN TimerStart(l, called, time[called]) ELSE l
  /\ at' = "check" /\ called' = None /\ held' = FALSE
  /\ UNCHANGED <<time, periodic, active, live>>

CheckEnd ==
  /\ at = "check"
  /\ ~TimerExpired(l)
  /\ at' = "thread"
  /\ UNCHANGED <<l, time, periodic, active, live, called, held>>

-----------------------------------------------------------------------------
Init ==
  /\ l = [tick |-> 0, timers |-> <<>>, timeout |-> [t \in Timer |-> 0]]
  /\ time \in [Timer -> Times] /\ periodic \in [Timer -> BOOLEAN]
  /\ active = [t \in Timer |-> FALSE]
  /\ live = {}
  /\ at = "thread" /\ called = None /\ held = FALSE

Next ==
  \/ TickIncrease \/ Expire \/ FunctionReturn \/ CheckEnd
  \/ \E t \in Timer : \/ TimerInit(t) \/ StartTimer(t) \/ StopTimer(t)
                      \/ Detach(t) \/ SetTime(t)
                      \/ \E p \in BOOLEAN : SetPeriodic(t, p)

Spec == Init /\ [][Next]_timvars
-----------------------------------------------------------------------------
(* Properties *)

Linked(t) == Contains(l.timers, t)

\* The list, the settings and the place of the handler have their types.
TypeOK ==
  /\ l \in [tick : Tick, timers : Seq(Timer), timeout : [Timer -> Tick]]
  /\ time \in [Timer -> Times] /\ periodic \in [Timer -> BOOLEAN]
  /\ active \in [Timer -> BOOLEAN] /\ live \subseteq Timer
  /\ at \in {"thread", "check", "function"}
  /\ called \in Timer \cup {None} /\ held \in BOOLEAN

\* The list is in the order of expiry around the wraparound of the counter,
\* holds no timer twice, and in a thread's eyes none that is overdue.
InOrderOfExpiry ==
  LET left(i) == TicksFrom(l.tick, l.timeout[l.timers[i]]) IN
  /\ IsInjective(l.timers)
  /\ \A i, j \in DOMAIN l.timers : i < j => left(i) <= left(j)
  /\ \A i \in DOMAIN l.timers :
        left(i) \in (IF at = "thread" THEN 1 ELSE 0) .. TickHalf - 1

\* "timer is start and run" (RT_TIMER_CTRL_GET_STATE): the flag a user reads
\* says running for the timers of the list and the periodic timer whose
\* function runs, for no other, and never for one that was detached.
ActiveIsLinked ==
  \A t \in Timer :
    /\ Linked(t) => active[t]
    /\ active[t] => /\ t \in live
                    /\ Linked(t) \/ (t = called /\ held /\ periodic[t])

Countdown ==
  INSTANCE Alarms
    WITH left    <- [t \in Timer |-> IF Linked(t) THEN TicksFrom(l.tick, l.timeout[t])
                                                  ELSE -1],
         running <- called,
         again   <- held /\ active[called]

\* The timers implement alarms that count down: every timer goes off exactly
\* init_tick ticks after its start, wherever the counter wraps, whatever
\* other timers, the threads and the timer functions do meanwhile.
IsCountdown == Countdown!Spec

=============================================================================
