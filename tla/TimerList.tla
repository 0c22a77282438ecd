------------------------------- MODULE TimerList -------------------------------
(***************************************************************************)
(* The list of running hard timers of timer.c, in the order of expiry, and *)
(* the tick counter it is measured against. A state s is a record with at  *)
(* least the fields tick (rt_tick), timers (_timer_list) and timeout (the  *)
(* timeout_tick of each linked timer). RT_TIMER_SKIP_LIST_LEVEL is 1.      *)
(***************************************************************************)
EXTENDS Integers, Sequences, SequencesExt

CONSTANT TickMod    \* rt_tick counts modulo TickMod (2^32 in the code)

ASSUME TickAssumption == TickMod \in Nat /\ TickMod > 2

Tick == 0 .. TickMod - 1
TickHalf == (TickMod - 1) \div 2          \* RT_TICK_MAX / 2

NextTickUnwrapped(s) == s.tick + 1                  \* mutant: no wraparound

NextTick(s) == (s.tick + 1) % TickMod

TicksFrom(a, b) == (b - a) % TickMod       \* unsigned b - a

TimerStop(s, t) ==
  [s EXCEPT !.timers = RemoveFirst(s.timers, t), !.timeout[t] = 0]

\* mutant: timeouts are compared without regard to the wraparound
TimerStartUnwrapped(s, t, ticks) ==
  LET list    == RemoveFirst(s.timers, t)
      at      == (s.tick + ticks) % TickMod
      later(x) == s.timeout[x] > at
      found   == SelectInSeq(list, later)
      pos     == IF found = 0 THEN Len(list) + 1 ELSE found
  IN  [s EXCEPT !.timers = InsertAt(list, pos, t), !.timeout[t] = at]

\* In front of the first timer that expires strictly later.
TimerStart(s, t, ticks) ==
  LET list    == RemoveFirst(s.timers, t)
      at      == (s.tick + ticks) % TickMod
      later(x) == TicksFrom(at, s.timeout[x]) \in 1 .. TickHalf - 1
      found   == SelectInSeq(list, later)
      pos     == IF found = 0 THEN Len(list) + 1 ELSE found
  IN  [s EXCEPT !.timers = InsertAt(list, pos, t), !.timeout[t] = at]

TimerExpired(s) ==
  /\ s.timers # <<>>
  /\ TicksFrom(s.timeout[Head(s.timers)], s.tick) < TickHalf

=============================================================================
