----------------------------- MODULE Timers_proofs -----------------------------
(***************************************************************************)
(* The timer list stays in the order of expiry and implements the alarms   *)
(* that count down, for any timers, times and width of the tick counter.   *)
(***************************************************************************)
EXTENDS Timers, Sequences_proofs

ListState == [tick : Tick, timers : Seq(Timer), timeout : [Timer -> Tick]]

\* No timer is linked twice, they are in the order of expiry, and each has
\* at least `first' ticks left and fewer than half a turn of the counter.
ListSound(s, first) ==
  /\ s \in ListState
  /\ IsInjective(s.timers)
  /\ ByExpiry(s.timers, s.tick, s.timeout, TickMod, first, TickHalf)

\* The ticks each timer of a list has left; -1 for one that is not linked.
LeftOf(s) == [t \in Timer |-> IF Contains(s.timers, t)
                              THEN TicksFrom(s.tick, s.timeout[t]) ELSE -1]

\* A function runs exactly while the handler is in it; what is in the list or
\* in the local list of rt_timer_check is initialised, and activated if linked.
ControlOK ==
  /\ called = None <=> at # "function"
  /\ held => called \in live
  /\ \A t \in Timer : Linked(t) => t \in live /\ active[t]

IInv ==
  /\ TypeOK
  /\ ListSound(l, IF at = "thread" THEN 1 ELSE 0)
  /\ ControlOK

-----------------------------------------------------------------------------
(* The operators of TimerList *)

\* RT_TICK_MAX / 2 as the proofs use it.
LEMMA TickHalfFacts ==
  /\ TickMod \in Nat /\ TickMod > 2
  /\ TickHalf \in Nat /\ 2 * TickHalf < TickMod /\ TickHalf > 0
BY TickAssumption DEF TickHalf

\* What a list in order says of each timer in it.
LEMMA LeftFacts ==
  ASSUME NEW first \in {0, 1}, NEW s, ListSound(s, first), NEW t \in Timer,
         Contains(s.timers, t)
  PROVE  /\ LeftOf(s)[t] = (s.timeout[t] - s.tick) % TickMod
         /\ LeftOf(s)[t] \in first .. TickHalf - 1
<1>1. PICK i \in 1 .. Len(s.timers) : s.timers[i] = t
  BY DEF Contains
<1>2. (s.timeout[s.timers[i]] - s.tick) % TickMod \in first .. TickHalf - 1
  BY DEF ListSound, ByExpiry
<1> QED BY <1>1, <1>2 DEF LeftOf, TicksFrom

\* Stopping a timer takes it off and leaves the others their time.
LEMMA StopFacts ==
  ASSUME NEW first \in {0, 1}, NEW s, ListSound(s, first), NEW t \in Timer
  PROVE  /\ ListSound(TimerStop(s, t), first)
         /\ \A x : Contains(TimerStop(s, t).timers, x) <=> Contains(s.timers, x) /\ x # t
         /\ LeftOf(TimerStop(s, t)) = [LeftOf(s) EXCEPT ![t] = -1]
<1> DEFINE r == TimerStop(s, t)
<1>0. /\ s.timers \in Seq(Timer) /\ IsInjective(s.timers)
      /\ s.tick \in Tick /\ s.timeout \in [Timer -> Tick] /\ s \in ListState
  BY DEF ListSound, ListState
<1>1. /\ r.timers = RemoveFirst(s.timers, t)
      /\ r.timeout = [s.timeout EXCEPT ![t] = 0]
      /\ r.tick = s.tick
  BY <1>0 DEF ListState, TimerStop
<1>5. r \in ListState
  <2>1. 0 \in Tick
    BY TickHalfFacts DEF Tick
  <2>2. RemoveFirst(s.timers, t) \in Seq(Timer)
    BY <1>0, RemoveFirstFacts
  <2> QED BY <1>0, <2>1, <2>2 DEF ListState, TimerStop
<1> HIDE DEF r
<1>2. /\ r.timers \in Seq(Timer) /\ IsInjective(r.timers)
      /\ \A x : Contains(r.timers, x) <=> Contains(s.timers, x) /\ x # t
  BY <1>0, <1>1, RemoveFirstFacts
<1>3. \A x \in Timer : x # t => r.timeout[x] = s.timeout[x]
  BY <1>0, <1>1
<1>4. ByExpiry(r.timers, r.tick, r.timeout, TickMod, first, TickHalf)
  <2>1. ByExpiry(s.timers, s.tick, s.timeout, TickMod, first, TickHalf)
    BY DEF ListSound
  <2>2. first \in Int /\ TickHalf \in Int
    BY TickHalfFacts
  <2> QED BY <1>0, <1>1, <1>3, <2>1, <2>2, ExpiryRemove
<1>6. LeftOf(r) = [LeftOf(s) EXCEPT ![t] = -1]
  BY <1>1, <1>2, <1>3 DEF LeftOf
<1> QED BY <1>2, <1>4, <1>5, <1>6 DEF ListSound, r

\* Starting a timer gives it d ticks and leaves the others theirs.
LEMMA StartFacts ==
  ASSUME NEW first \in {0, 1}, NEW s, ListSound(s, first), NEW t \in Timer,
         NEW d \in 1 .. TickHalf - 1
  PROVE  /\ ListSound(TimerStart(s, t, d), first)
         /\ \A x : Contains(TimerStart(s, t, d).timers, x) <=> Contains(s.timers, x) \/ x = t
         /\ LeftOf(TimerStart(s, t, d)) = [LeftOf(s) EXCEPT ![t] = d]
<1> DEFINE list == RemoveFirst(s.timers, t)
           at_ == (s.tick + d) % TickMod
           I == {i \in 1 .. Len(list) :
                   (s.timeout[list[i]] - at_) % TickMod \in 1 .. TickHalf - 1}
           found == IF I # {} THEN Min(I) ELSE 0
           pos == IF found = 0 THEN Len(list) + 1 ELSE found
           place == IF I = {} THEN Len(list) + 1 ELSE Min(I)
           r == TimerStart(s, t, d)
<1>0. /\ s.timers \in Seq(Timer) /\ s.tick \in 0 .. TickMod - 1
      /\ s.timeout \in [Timer -> 0 .. TickMod - 1] /\ s \in ListState
      /\ IsInjective(s.timers)
  BY DEF ListSound, ListState, Tick
<1>1. /\ list \in Seq(Timer) /\ IsInjective(list)
      /\ \A x : Contains(list, x) <=> Contains(s.timers, x) /\ x # t
  BY <1>0, RemoveFirstFacts
<1>2. /\ r.timers = InsertAt(list, pos, t)
      /\ r.timeout = [s.timeout EXCEPT ![t] = at_]
      /\ r.tick = s.tick
      /\ r = [s EXCEPT !.timers = InsertAt(list, pos, t), !.timeout[t] = at_]
  BY <1>0 DEF ListState, TimerStart, SelectInSeq, TicksFrom
<1>3. pos = place /\ pos \in 1 .. Len(list) + 1
  <2>1. I \subseteq Nat /\ 0 \notin I /\ I \subseteq 1 .. Len(list) /\ Len(list) \in Nat
    BY <1>1
  <2>2. I # {} => Min(I) \in I
    <3> HIDE DEF I
    <3> QED BY <2>1, MinOfNat
  <2>3. CASE I = {}
    <3> HIDE DEF I, list
    <3> QED BY <2>1, <2>3
  <2>4. CASE I # {}
    <3> DEFINE m == Min(I)
    <3> HIDE DEF I, list
    <3>1. m \in 1 .. Len(list) /\ m # 0 /\ Len(list) \in Nat
      BY <2>1, <2>2, <2>4
    <3>2. pos = m /\ place = m
      BY <2>4, <3>1
    <3> QED BY <3>1, <3>2
  <2> QED BY <2>3, <2>4
<1> HIDE DEF r, list, pos, place
<1>4. /\ r.timers \in Seq(Timer) /\ IsInjective(r.timers)
      /\ \A x : Contains(r.timers, x) <=> Contains(s.timers, x) \/ x = t
  <2>1. /\ InsertAt(list, pos, t) \in Seq(Timer) /\ IsInjective(InsertAt(list, pos, t))
        /\ \A x : Contains(InsertAt(list, pos, t), x) <=> Contains(list, x) \/ x = t
    BY <1>1, <1>3, InsertAtKeepsOne
  <2> QED BY <1>1, <1>2, <2>1
<1>5. at_ \in 0 .. TickMod - 1 /\ (at_ - s.tick) % TickMod = d
  <2>1. d \in 0 .. TickMod - 1 /\ TickMod \in Nat /\ TickMod > 0
    BY TickHalfFacts
  <2> QED BY <1>0, <2>1, AheadFacts
<1>6. /\ r.timeout[t] = at_ /\ \A x \in Timer : x # t => r.timeout[x] = s.timeout[x]
      /\ r.timeout \in [Timer -> 0 .. TickMod - 1]
  BY <1>0, <1>2, <1>5
<1>7. ByExpiry(r.timers, r.tick, r.timeout, TickMod, first, TickHalf)
  <2>0. ByExpiry(s.timers, s.tick, s.timeout, TickMod, first, TickHalf)
    BY DEF ListSound
  <2>1. ByExpiry(list, s.tick, s.timeout, TickMod, first, TickHalf)
    BY <1>0, <2>0, TickHalfFacts, ExpiryRemove DEF list
  <2>2. /\ TickMod \in Nat /\ TickMod > 0 /\ TickHalf \in Nat
        /\ 2 * TickHalf < TickMod /\ first \in Nat /\ d \in first .. TickHalf - 1
    BY TickHalfFacts
  <2>4. pos = PlaceOf(list, r.timeout[t], s.timeout, TickMod, TickHalf)
    BY <1>3, <1>6 DEF PlaceOf, place
  <2> HIDE DEF at_
  <2> DEFINE new == r.timeout
             old == s.timeout
             tick == s.tick
  <2>5. /\ tick \in 0 .. TickMod - 1 /\ old \in [Timer -> 0 .. TickMod - 1]
        /\ list \in Seq(Timer) /\ IsInjective(list) /\ ~Contains(list, t)
        /\ ByExpiry(list, tick, old, TickMod, first, TickHalf)
        /\ new \in [Timer -> 0 .. TickMod - 1]
        /\ (new[t] - tick) % TickMod \in first .. TickHalf - 1
        /\ \A x \in Timer : x # t => new[x] = old[x]
        /\ pos = PlaceOf(list, new[t], old, TickMod, TickHalf)
    BY <1>0, <1>1, <1>5, <1>6, <2>1, <2>2, <2>4
  <2> HIDE DEF new, old, tick
  <2>6. ByExpiry(InsertAt(list, pos, t), tick, new, TickMod, first, TickHalf)
    BY <2>2, <2>5, ExpiryInsert
  <2> QED BY <1>2, <2>6 DEF new, tick
<1> HIDE DEF at_
<1>8. r \in ListState
  BY <1>0, <1>2, <1>4, <1>5 DEF ListState, Tick
<1>9. LeftOf(r) = [LeftOf(s) EXCEPT ![t] = d]
  <2>1. LeftOf(r)[t] = d
    <3>1. LeftOf(r)[t] = (r.timeout[t] - r.tick) % TickMod
      BY <1>4 DEF LeftOf, TicksFrom
    <3>2. r.timeout[t] = at_ /\ r.tick = s.tick
      BY <1>2, <1>6
    <3> QED BY <1>5, <3>1, <3>2
  <2>2. ASSUME NEW x \in Timer, x # t PROVE LeftOf(r)[x] = LeftOf(s)[x]
    <3>1. r.timeout[x] = s.timeout[x] /\ r.tick = s.tick
      BY <1>2, <1>6, <2>2
    <3> QED BY <1>4, <2>2, <3>1 DEF LeftOf
  <2>3. LeftOf(r) = [x \in Timer |-> LeftOf(r)[x]]
    BY DEF LeftOf
  <2>4. DOMAIN LeftOf(s) = Timer
    BY DEF LeftOf
  <2> QED BY <2>1, <2>2, <2>3, <2>4
<1> QED BY <1>4, <1>7, <1>8, <1>9 DEF ListSound, r

\* A tick takes one off the time of each timer.
LEMMA TickFacts ==
  ASSUME NEW s, ListSound(s, 1), NEW r, r = [s EXCEPT !.tick = NextTick(s)]
  PROVE  /\ ListSound(r, 0)
         /\ r.timers = s.timers
         /\ \A t \in Timer : LeftOf(s)[t] # 0
         /\ LeftOf(r) = [t \in Timer |-> IF LeftOf(s)[t] = -1 THEN -1 ELSE LeftOf(s)[t] - 1]
<1>0. /\ s.timers \in Seq(Timer) /\ s.tick \in 0 .. TickMod - 1
      /\ s.timeout \in [Timer -> 0 .. TickMod - 1] /\ s \in ListState
      /\ IsInjective(s.timers)
      /\ ByExpiry(s.timers, s.tick, s.timeout, TickMod, 1, TickHalf)
  BY DEF ListSound, ListState, Tick
<1>1. /\ r.timers = s.timers /\ r.timeout = s.timeout
      /\ r.tick = (s.tick + 1) % TickMod
      /\ r = [tick |-> r.tick, timers |-> r.timers, timeout |-> r.timeout]
  BY <1>0 DEF ListState, NextTick
<1>2. TickMod \in Nat /\ TickMod > 1 /\ TickHalf \in Nat
  BY TickHalfFacts
<1>3. ByExpiry(s.timers, (s.tick + 1) % TickMod, s.timeout, TickMod, 0, TickHalf)
  BY <1>0, <1>2, ExpiryTick
<1>4. (s.tick + 1) % TickMod \in 0 .. TickMod - 1
  BY <1>0, <1>2
<1>5. ListSound(r, 0)
  BY <1>0, <1>1, <1>3, <1>4 DEF ListSound, ListState, Tick
<1>6. ASSUME NEW t \in Timer
      PROVE  /\ LeftOf(s)[t] # 0
             /\ LeftOf(r)[t] = IF LeftOf(s)[t] = -1 THEN -1 ELSE LeftOf(s)[t] - 1
  <2>1. CASE ~Contains(s.timers, t)
    BY <1>1, <2>1 DEF LeftOf
  <2>2. CASE Contains(s.timers, t)
    <3> DEFINE b == s.timeout[t]
               tick == s.tick
    <3>1. /\ LeftOf(s)[t] = (b - tick) % TickMod /\ LeftOf(s)[t] \in 1 .. TickHalf - 1
      BY <2>2, LeftFacts
    <3>2. b \in 0 .. TickMod - 1 /\ tick \in 0 .. TickMod - 1
      BY <1>0
    <3>3. LeftOf(r)[t] = (b - ((tick + 1) % TickMod)) % TickMod
      BY <1>1, <2>2 DEF LeftOf, TicksFrom
    <3> HIDE DEF b, tick
    <3>4. (b - ((tick + 1) % TickMod)) % TickMod = ((b - tick) % TickMod) - 1
      BY <1>2, <3>1, <3>2, NearerFacts
    <3> QED BY <3>1, <3>3, <3>4, TickHalfFacts
  <2> QED BY <2>1, <2>2
<1>7. LeftOf(r) = [t \in Timer |-> LeftOf(r)[t]]
  BY DEF LeftOf
<1> QED BY <1>1, <1>5, <1>6, <1>7

\* The test of rt_timer_check finds exactly the timers that are due.
LEMMA ExpiredFacts ==
  ASSUME NEW s, ListSound(s, 0)
  PROVE  /\ TimerExpired(s) => /\ Head(s.timers) \in Timer
                               /\ Contains(s.timers, Head(s.timers))
                               /\ LeftOf(s)[Head(s.timers)] = 0
         /\ ~TimerExpired(s) => ListSound(s, 1)
<1>0. /\ s.timers \in Seq(Timer) /\ s.tick \in 0 .. TickMod - 1
      /\ s.timeout \in [Timer -> 0 .. TickMod - 1]
      /\ ByExpiry(s.timers, s.tick, s.timeout, TickMod, 0, TickHalf)
  BY DEF ListSound, ListState, Tick
<1>1. ASSUME s.timers # <<>>
      PROVE  /\ Head(s.timers) \in Timer
             /\ Contains(s.timers, Head(s.timers))
             /\ LeftOf(s)[Head(s.timers)] = (s.timeout[Head(s.timers)] - s.tick) % TickMod
             /\ TicksFrom(s.timeout[Head(s.timers)], s.tick) < TickHalf
                  <=> (s.timeout[Head(s.timers)] - s.tick) % TickMod = 0
  <2> DEFINE t == Head(s.timers)
             b == s.timeout[t]
             tick == s.tick
  <2>1. t \in Timer /\ Contains(s.timers, t)
    BY <1>0, <1>1, HeadFacts
  <2> HIDE DEF t
  <2>2. LeftOf(s)[t] = (b - tick) % TickMod /\ LeftOf(s)[t] \in 0 .. TickHalf - 1
    BY <2>1, LeftFacts
  <2>3. b \in 0 .. TickMod - 1 /\ tick \in 0 .. TickMod - 1
    BY <1>0, <2>1
  <2> HIDE DEF b, tick
  <2>4. /\ (b - tick) % TickMod = IF b < tick THEN b - tick + TickMod ELSE b - tick
        /\ (tick - b) % TickMod = IF tick < b THEN tick - b + TickMod ELSE tick - b
    BY <2>3, TickHalfFacts, WrapFacts
  <2>5. (tick - b) % TickMod < TickHalf <=> (b - tick) % TickMod = 0
    BY <2>2, <2>3, <2>4, TickHalfFacts
  <2> QED BY <2>1, <2>2, <2>5 DEF t, b, tick, TicksFrom
<1>2. TimerExpired(s) => /\ Head(s.timers) \in Timer
                         /\ Contains(s.timers, Head(s.timers))
                         /\ LeftOf(s)[Head(s.timers)] = 0
  BY <1>1 DEF TimerExpired
<1>3. ASSUME ~TimerExpired(s) PROVE ListSound(s, 1)
  <2>1. s.timers # <<>> => (s.timeout[Head(s.timers)] - s.tick) % TickMod # 0
    BY <1>1, <1>3 DEF TimerExpired
  <2>2. ByExpiry(s.timers, s.tick, s.timeout, TickMod, 1, TickHalf)
    BY <1>0, <2>1, TickHalfFacts, ExpiryNotDue
  <2> QED BY <2>2 DEF ListSound
<1> QED BY <1>2, <1>3

-----------------------------------------------------------------------------
(* Every step keeps the invariant and is one of the alarms' *)

\* The function that runs may have its timer started again.
Again == held /\ active[called]

Implements ==
  Countdown!Next \/ UNCHANGED <<LeftOf(l), time, periodic, called, Again>>

\* What the invariant says while the API is called, or when the handler runs.
LEMMA IInvFacts ==
  ASSUME IInv
  PROVE  /\ l \in ListState /\ None \notin Timer
         /\ time \in [Timer -> Times] /\ Times \subseteq 1 .. TickHalf - 1
         /\ periodic \in [Timer -> BOOLEAN] /\ active \in [Timer -> BOOLEAN]
         /\ live \subseteq Timer /\ held \in BOOLEAN
         /\ at \in {"thread", "check", "function"}
         /\ called = None <=> at # "function"
         /\ called \in Timer \cup {None}
         /\ held => called \in live /\ called \in Timer
BY TimersAssumption DEF IInv, TypeOK, ControlOK, ListState

\* rt_tick_increase.
LEMMA TickIncreaseStep ==
  ASSUME IInv, TickIncrease
  PROVE  IInv' /\ Implements
<1>1. /\ at = "thread" /\ at' = "check" /\ l' = [l EXCEPT !.tick = NextTick(l)]
      /\ time' = time /\ periodic' = periodic /\ active' = active
      /\ live' = live /\ called' = called /\ held' = held
  BY DEF TickIncrease
<1>2. ListSound(l, 1) /\ called = None /\ held = FALSE
  BY <1>1, IInvFacts DEF IInv
<1>3. /\ ListSound(l', 0) /\ l'.timers = l.timers
      /\ \A t \in Timer : LeftOf(l)[t] # 0
      /\ LeftOf(l') = [t \in Timer |-> IF LeftOf(l)[t] = -1 THEN -1 ELSE LeftOf(l)[t] - 1]
  BY <1>1, <1>2, TickFacts
<1>4. l' \in ListState
  BY <1>3 DEF ListSound
<1>5. TypeOK'
  BY <1>1, <1>4, IInvFacts DEF TypeOK, ListState
<1>6. ControlOK'
  BY <1>1, <1>3 DEF IInv, ControlOK, Linked
<1>7. IInv'
  BY <1>1, <1>3, <1>5, <1>6 DEF IInv
<1>8. Countdown!Tick
  BY <1>1, <1>2, <1>3 DEF Countdown!Tick, Countdown!Off, LeftOf, Linked
<1> QED BY <1>7, <1>8 DEF Implements, Countdown!Next

\* rt_timer_check calls the function of the first timer that has expired.
LEMMA ExpireStep ==
  ASSUME IInv, Expire
  PROVE  IInv' /\ Implements
<1> DEFINE t == Head(l.timers)
<1>1. /\ at = "check" /\ at' = "function" /\ TimerExpired(l)
      /\ l' = TimerStop(l, t)
      /\ active' = [active EXCEPT ![t] = periodic[t]]
      /\ called' = t /\ held' = TRUE
      /\ time' = time /\ periodic' = periodic /\ live' = live
  BY DEF Expire
<1>2. ListSound(l, 0) /\ called = None
  BY <1>1, IInvFacts DEF IInv
<1>3. t \in Timer /\ Linked(t) /\ LeftOf(l)[t] = 0
  BY <1>1, <1>2, ExpiredFacts DEF Linked
<1> HIDE DEF t
<1>4. /\ ListSound(l', 0)
      /\ \A x : Contains(l'.timers, x) <=> Contains(l.timers, x) /\ x # t
      /\ LeftOf(l') = [LeftOf(l) EXCEPT ![t] = -1]
  BY <1>1, <1>2, <1>3, StopFacts
<1>5. l' \in ListState
  BY <1>4 DEF ListSound
<1>6. active' \in [Timer -> BOOLEAN]
  BY <1>1, <1>3, IInvFacts
<1>7. TypeOK'
  BY <1>1, <1>3, <1>5, <1>6, IInvFacts DEF TypeOK, ListState
<1>8. ControlOK'
  BY <1>1, <1>3, <1>4, IInvFacts DEF IInv, ControlOK, Linked
<1>9. IInv'
  BY <1>1, <1>4, <1>7, <1>8 DEF IInv
<1>10. (held /\ active[called])' = periodic[t]
  BY <1>1, <1>3, IInvFacts
<1>11. Countdown!GoOff(t)
  BY <1>1, <1>2, <1>3, <1>4, <1>10
     DEF Countdown!GoOff, Countdown!Off, LeftOf, Linked
<1> QED BY <1>3, <1>9, <1>11 DEF Implements, Countdown!Next

\* The function has returned; a periodic timer it left alone is started again.
LEMMA FunctionReturnStep ==
  ASSUME IInv, FunctionReturn
  PROVE  IInv' /\ Implements
<1> DEFINE restart == held /\ periodic[called] /\ active[called]
<1>1. /\ at = "function" /\ at' = "check" /\ called' = None /\ held' = FALSE
      /\ l' = IF restart THEN TimerStart(l, called, time[called]) ELSE l
      /\ time' = time /\ periodic' = periodic /\ active' = active /\ live' = live
  BY DEF FunctionReturn
<1>2. ListSound(l, 0) /\ called \in Timer /\ called # None
  BY <1>1, IInvFacts DEF IInv
<1>3. time[called] \in 1 .. TickHalf - 1
  BY <1>2, IInvFacts
<1>4. /\ ListSound(l', 0)
      /\ \A x : Contains(l'.timers, x) <=> Contains(l.timers, x) \/ (restart /\ x = called)
      /\ LeftOf(l') = IF restart THEN [LeftOf(l) EXCEPT ![called] = time[called]]
                                 ELSE LeftOf(l)
  <2>1. CASE restart
    BY <1>1, <1>2, <1>3, <2>1, StartFacts
  <2>2. CASE ~restart
    BY <1>1, <1>2, <2>2
  <2> QED BY <2>1, <2>2
<1>5. l' \in ListState
  BY <1>4 DEF ListSound
<1>6. TypeOK'
  BY <1>1, <1>5, IInvFacts DEF TypeOK, ListState
<1>7. ControlOK'
  BY <1>1, <1>4, IInvFacts DEF IInv, ControlOK, Linked
<1>8. IInv'
  BY <1>1, <1>4, <1>6, <1>7 DEF IInv
<1>9. (held /\ active[called])' = FALSE
  BY <1>1
<1>10. Countdown!Finish
  BY <1>1, <1>2, <1>4, <1>9 DEF Countdown!Finish, LeftOf, Linked
<1> QED BY <1>8, <1>10 DEF Implements, Countdown!Next

\* No timer is due any more: the handler returns, and no user sees it.
LEMMA CheckEndStep ==
  ASSUME IInv, CheckEnd
  PROVE  IInv' /\ Implements
<1>1. /\ at = "check" /\ at' = "thread" /\ ~TimerExpired(l)
      /\ l' = l /\ time' = time /\ periodic' = periodic /\ active' = active
      /\ live' = live /\ called' = called /\ held' = held
  BY DEF CheckEnd
<1>2. ListSound(l, 1)
  <2>1. ListSound(l, 0)
    BY <1>1 DEF IInv
  <2> QED BY <1>1, <2>1, ExpiredFacts
<1>3. TypeOK' /\ ControlOK'
  BY <1>1 DEF IInv, TypeOK, ControlOK, Linked
<1>4. IInv'
  BY <1>1, <1>2, <1>3 DEF IInv
<1> QED BY <1>1, <1>4 DEF Implements, Again

-----------------------------------------------------------------------------
(* The timer API *)

\* rt_timer_init, rt_timer_control: the list is left alone.
LEMMA AdjustStep ==
  ASSUME IInv, NEW t \in Timer,
         TimerInit(t) \/ SetTime(t) \/ \E p \in BOOLEAN : SetPeriodic(t, p)
  PROVE  IInv' /\ Implements
<1>1. PICK d \in Times, p \in BOOLEAN :
        /\ time' = [time EXCEPT ![t] = d] /\ periodic' = [periodic EXCEPT ![t] = p]
        /\ l' = l /\ at' = at /\ called' = called /\ held' = held
        /\ \/ t \notin live /\ live' = live \cup {t} /\ active' = [active EXCEPT ![t] = FALSE]
           \/ live' = live /\ active' = active
  <2>1. CASE TimerInit(t)
    BY <2>1 DEF TimerInit
  <2>2. CASE SetTime(t)
    <3>1. periodic[t] \in BOOLEAN /\ periodic = [periodic EXCEPT ![t] = periodic[t]]
      BY IInvFacts
    <3> QED BY <2>2, <3>1 DEF SetTime
  <2>3. CASE \E p \in BOOLEAN : SetPeriodic(t, p)
    <3>1. time[t] \in Times /\ time = [time EXCEPT ![t] = time[t]]
      BY IInvFacts
    <3> QED BY <2>3, <3>1 DEF SetPeriodic
  <2> QED BY <2>1, <2>2, <2>3
<1>2. /\ time' \in [Timer -> Times] /\ periodic' \in [Timer -> BOOLEAN]
      /\ active' \in [Timer -> BOOLEAN] /\ live' \subseteq Timer
      /\ \A x \in live : x \in live' /\ active'[x] = active[x]
  BY <1>1, IInvFacts
<1>3. TypeOK' /\ ControlOK'
  BY <1>1, <1>2 DEF IInv, TypeOK, ControlOK, Linked
<1>4. IInv'
  BY <1>1, <1>3 DEF IInv
<1>5. (held /\ active[called])' = (held /\ active[called])
  BY <1>1, <1>2, IInvFacts
<1>6. LeftOf(l') = LeftOf(l)
  BY <1>1
<1>7. Countdown!Adjust(t)
  BY <1>1, <1>5, <1>6 DEF Countdown!Adjust, LeftOf, Linked
<1> QED BY <1>4, <1>7 DEF Implements, Countdown!Next

\* rt_timer_start.
LEMMA StartStep ==
  ASSUME IInv, NEW t \in Timer, StartTimer(t)
  PROVE  IInv' /\ Implements
<1>1. /\ t \in live
      /\ l' = TimerStart(l, t, time[t])
      /\ active' = [active EXCEPT ![t] = TRUE]
      /\ held' = (held /\ t # called)
      /\ time' = time /\ periodic' = periodic /\ live' = live
      /\ at' = at /\ called' = called
  BY DEF StartTimer, MayCall
<1> DEFINE first == IF at = "thread" THEN 1 ELSE 0
<1>2. first \in {0, 1} /\ ListSound(l, first)
  BY DEF IInv
<1> HIDE DEF first
<1>3. time[t] \in 1 .. TickHalf - 1
  BY IInvFacts
<1>4. /\ ListSound(l', first)
      /\ \A x : Contains(l'.timers, x) <=> Contains(l.timers, x) \/ x = t
      /\ LeftOf(l') = [LeftOf(l) EXCEPT ![t] = time[t]]
  BY <1>1, <1>2, <1>3, StartFacts
<1>5. l' \in ListState
  BY <1>4 DEF ListSound
<1>6. active' \in [Timer -> BOOLEAN] /\ held' \in BOOLEAN
  BY <1>1, IInvFacts
<1>7. TypeOK'
  BY <1>1, <1>5, <1>6, IInvFacts DEF TypeOK, ListState
<1>8. ControlOK'
  BY <1>1, <1>4, IInvFacts DEF IInv, ControlOK, Linked
<1>9. IInv'
  BY <1>1, <1>4, <1>7, <1>8 DEF IInv, first
<1>10. (held /\ active[called])' = (held /\ active[called] /\ t # called)
  BY <1>1, IInvFacts
<1>11. Countdown!Start(t)
  BY <1>1, <1>4, <1>10 DEF Countdown!Start, Countdown!Forget, LeftOf, Linked
<1> QED BY <1>9, <1>11 DEF Implements, Countdown!Next

\* rt_timer_stop, rt_timer_detach.
LEMMA StopStep ==
  ASSUME IInv, NEW t \in Timer, StopTimer(t) \/ Detach(t)
  PROVE  IInv' /\ Implements
<1>1. /\ l' = TimerStop(l, t)
      /\ active' = [active EXCEPT ![t] = FALSE]
      /\ held' = (held /\ t # called)
      /\ time' = time /\ periodic' = periodic
      /\ live' = live \/ live' = live \ {t}
      /\ at' = at /\ called' = called
  BY DEF StopTimer, Detach, TimerRemove
<1> DEFINE first == IF at = "thread" THEN 1 ELSE 0
<1>2. first \in {0, 1} /\ ListSound(l, first)
  BY DEF IInv
<1> HIDE DEF first
<1>4. /\ ListSound(l', first)
      /\ \A x : Contains(l'.timers, x) <=> Contains(l.timers, x) /\ x # t
      /\ LeftOf(l') = [LeftOf(l) EXCEPT ![t] = -1]
  BY <1>1, <1>2, StopFacts
<1>5. l' \in ListState
  BY <1>4 DEF ListSound
<1>6. /\ active' \in [Timer -> BOOLEAN] /\ held' \in BOOLEAN /\ live' \subseteq Timer
      /\ \A x \in live : x # t => x \in live' /\ active'[x] = active[x]
  BY <1>1, IInvFacts
<1>7. TypeOK'
  BY <1>1, <1>5, <1>6, IInvFacts DEF TypeOK, ListState
<1>8. ControlOK'
  BY <1>1, <1>4, <1>6, IInvFacts DEF IInv, ControlOK, Linked
<1>9. IInv'
  BY <1>1, <1>4, <1>7, <1>8 DEF IInv, first
<1>10. (held /\ active[called])' = (held /\ active[called] /\ t # called)
  BY <1>1, IInvFacts
<1>11. Countdown!Stop(t)
  BY <1>1, <1>4, <1>10
     DEF Countdown!Stop, Countdown!Forget, Countdown!Off, LeftOf, Linked
<1> QED BY <1>9, <1>11 DEF Implements, Countdown!Next

-----------------------------------------------------------------------------
(* The theorems *)

\* No timer is initialised yet.
LEMMA InitIInv ==
  ASSUME Init
  PROVE  IInv /\ Countdown!Init
<1>1. /\ l = [tick |-> 0, timers |-> <<>>, timeout |-> [t \in Timer |-> 0]]
      /\ time \in [Timer -> Times] /\ periodic \in [Timer -> BOOLEAN]
      /\ active = [t \in Timer |-> FALSE] /\ live = {}
      /\ at = "thread" /\ called = None /\ held = FALSE
  BY DEF Init
<1>2. 0 \in Tick
  BY TickHalfFacts DEF Tick
<1>3. /\ l \in ListState /\ l.timers = <<>>
      /\ \A t : ~Contains(l.timers, t)
      /\ IsInjective(l.timers)
  BY <1>1, <1>2, EmptyFacts DEF ListState
<1>4. ByExpiry(l.timers, l.tick, l.timeout, TickMod, 1, TickHalf)
  BY <1>3 DEF ByExpiry
<1>5. TypeOK /\ ControlOK
  BY <1>1, <1>3 DEF TypeOK, ControlOK, ListState, Linked
<1>6. Countdown!Init
  BY <1>1, <1>3 DEF Countdown!Init, Countdown!Off, Linked
<1> QED BY <1>1, <1>3, <1>4, <1>5, <1>6 DEF IInv, ListSound

\* Every step keeps the invariant and is one of the alarms', or unseen.
LEMMA NextStep ==
  ASSUME IInv, [Next]_timvars
  PROVE  IInv' /\ Implements
<1>1. CASE TickIncrease \/ Expire \/ FunctionReturn \/ CheckEnd
  BY <1>1, TickIncreaseStep, ExpireStep, FunctionReturnStep, CheckEndStep
<1>2. ASSUME NEW t \in Timer,
             \/ TimerInit(t) \/ StartTimer(t) \/ StopTimer(t) \/ Detach(t)
             \/ SetTime(t) \/ \E p \in BOOLEAN : SetPeriodic(t, p)
      PROVE  IInv' /\ Implements
  BY <1>2, AdjustStep, StartStep, StopStep
<1>3. CASE UNCHANGED timvars
  BY <1>3 DEF timvars, IInv, TypeOK, ControlOK, Linked, Implements, Again
<1> QED BY <1>1, <1>2, <1>3 DEF Next

\* The inductive invariant: the list is in order and without duplicates, each
\* linked timer has less than half a turn of the counter left, and none is
\* due in a thread's eyes; the handler knows whose function runs.
THEOREM Invariance == Spec => []IInv
<1>1. Init => IInv
  BY InitIInv
<1>2. IInv /\ [Next]_timvars => IInv'
  BY NextStep
<1> QED BY <1>1, <1>2, PTL DEF Spec

\* The list, the settings and the place of the handler keep their types.
THEOREM TypeCorrect == Spec => []TypeOK
<1>1. IInv => TypeOK
  BY DEF IInv
<1> QED BY <1>1, Invariance, PTL

\* The list is in the order of expiry at every moment, wherever the counter
\* wraps and whatever is started, stopped or detached by threads and by the
\* functions of timers, and no thread runs while a timer is due.
THEOREM InOrder == Spec => []InOrderOfExpiry
<1>1. ASSUME IInv PROVE InOrderOfExpiry
  <2> DEFINE first == IF at = "thread" THEN 1 ELSE 0
             left(i) == TicksFrom(l.tick, l.timeout[l.timers[i]])
  <2>1. /\ IsInjective(l.timers) /\ l.timers \in Seq(Timer)
        /\ ByExpiry(l.timers, l.tick, l.timeout, TickMod, first, TickHalf)
    BY <1>1 DEF IInv, ListSound, ListState
  <2>2. DOMAIN l.timers = 1 .. Len(l.timers)
    BY <2>1
  <2> HIDE DEF first
  <2>3. ASSUME NEW i \in 1 .. Len(l.timers)
        PROVE  /\ left(i) \in first .. TickHalf - 1
               /\ \A j \in 1 .. i : left(j) <= left(i)
    BY <2>1, <2>3 DEF ByExpiry, TicksFrom
  <2>4. \A i, j \in 1 .. Len(l.timers) : i < j => left(i) <= left(j)
    BY <2>1, <2>3
  <2> QED BY <2>1, <2>2, <2>3, <2>4 DEF InOrderOfExpiry, first
<1> QED BY <1>1, Invariance, PTL

\* The flag of a timer says that it runs exactly if it is in the list or if it
\* is the periodic timer whose function runs and that is to be started again.
\* This needs functions that do not make their own timer one-shot.
THEOREM FlagTellsRunning == OwnOneShot = FALSE => (Spec => []ActiveIsLinked)
<1> SUFFICES ASSUME OwnOneShot = FALSE PROVE Spec => []ActiveIsLinked
  OBVIOUS
<1>1. Init => ActiveIsLinked
  <2>1. ASSUME Init PROVE l.timers = <<>> /\ \A t \in Timer : ~active[t]
    BY <2>1 DEF Init
  <2> QED BY <2>1, EmptyFacts DEF ActiveIsLinked, Linked
<1>2. ASSUME IInv, IInv', ActiveIsLinked, [Next]_timvars
      PROVE  ActiveIsLinked'
  <2> SUFFICES ASSUME NEW u \in Timer, active'[u]
               PROVE  /\ u \in live'
                      /\ \/ Contains(l'.timers, u)
                         \/ u = called' /\ held' /\ periodic'[u]
    BY <1>2 DEF ActiveIsLinked, IInv, ControlOK, Linked
  <2>1. active[u] => /\ u \in live
                     /\ Contains(l.timers, u) \/ (u = called /\ held /\ periodic[u])
    BY <1>2 DEF ActiveIsLinked, Linked
  <2>2. CASE TickIncrease \/ CheckEnd \/ UNCHANGED timvars
    <3>1. l'.timers = l.timers
      BY <1>2, <2>2, IInvFacts DEF TickIncrease, CheckEnd, timvars, ListState
    <3> QED BY <2>1, <2>2, <3>1 DEF TickIncrease, CheckEnd, timvars
  <2>3. CASE Expire
    <3> DEFINE t == Head(l.timers)
    <3>1. ListSound(l, 0) /\ called = None
      BY <1>2, <2>3, IInvFacts DEF IInv, Expire
    <3>2. t \in Timer /\ Linked(t)
      BY <2>3, <3>1, ExpiredFacts DEF Expire, Linked
    <3>3. /\ l' = TimerStop(l, t) /\ active' = [active EXCEPT ![t] = periodic[t]]
          /\ called' = t /\ held' = TRUE /\ periodic' = periodic /\ live' = live
      BY <2>3 DEF Expire
    <3> HIDE DEF t
    <3>4. \A x : Contains(l'.timers, x) <=> Contains(l.timers, x) /\ x # t
      BY <3>1, <3>2, <3>3, StopFacts
    <3> QED BY <1>2, <2>1, <3>1, <3>2, <3>3, <3>4, IInvFacts DEF IInv, ControlOK
  <2>4. CASE FunctionReturn
    <3>1. ListSound(l, 0) /\ called \in Timer
      BY <1>2, <2>4, IInvFacts DEF IInv, FunctionReturn
    <3>2. time[called] \in 1 .. TickHalf - 1
      BY <1>2, <3>1, IInvFacts
    <3>3. /\ l' = IF held /\ periodic[called] /\ active[called]
                  THEN TimerStart(l, called, time[called]) ELSE l
          /\ active' = active /\ live' = live
      BY <2>4 DEF FunctionReturn
    <3>4. \A x : Contains(l'.timers, x)
            <=> \/ Contains(l.timers, x)
                \/ held /\ periodic[called] /\ active[called] /\ x = called
      BY <3>1, <3>2, <3>3, StartFacts
    <3> QED BY <2>1, <3>3, <3>4
  <2>5. ASSUME NEW t \in Timer, TimerInit(t) \/ SetTime(t)
        PROVE  /\ u \in live'
               /\ Contains(l'.timers, u) \/ (u = called' /\ held' /\ periodic'[u])
    BY <1>2, <2>1, <2>5, IInvFacts DEF TimerInit, SetTime
  <2>6. ASSUME NEW t \in Timer, NEW p \in BOOLEAN, SetPeriodic(t, p)
        PROVE  /\ u \in live'
               /\ Contains(l'.timers, u) \/ (u = called' /\ held' /\ periodic'[u])
    BY <1>2, <2>1, <2>6, IInvFacts DEF SetPeriodic
  <2> DEFINE first == IF at = "thread" THEN 1 ELSE 0
  <2>7. first \in {0, 1} /\ ListSound(l, first)
    BY <1>2 DEF IInv
  <2> HIDE DEF first
  <2>8. ASSUME NEW t \in Timer, StartTimer(t)
        PROVE  /\ u \in live'
               /\ Contains(l'.timers, u) \/ (u = called' /\ held' /\ periodic'[u])
    <3>1. time[t] \in 1 .. TickHalf - 1
      BY <1>2, IInvFacts
    <3>2. \A x : Contains(l'.timers, x) <=> Contains(l.timers, x) \/ x = t
      BY <2>7, <2>8, <3>1, StartFacts DEF StartTimer
    <3> QED BY <1>2, <2>1, <2>8, <3>2, IInvFacts DEF StartTimer, MayCall
  <2>9. ASSUME NEW t \in Timer, StopTimer(t) \/ Detach(t)
        PROVE  /\ u \in live'
               /\ Contains(l'.timers, u) \/ (u = called' /\ held' /\ periodic'[u])
    <3>1. \A x : Contains(l'.timers, x) <=> Contains(l.timers, x) /\ x # t
      BY <2>7, <2>9, StopFacts DEF StopTimer, Detach, TimerRemove
    <3> QED BY <1>2, <2>1, <2>9, <3>1, IInvFacts DEF StopTimer, Detach, TimerRemove
  <2> QED BY <1>2, <2>2, <2>3, <2>4, <2>5, <2>6, <2>8, <2>9 DEF Next
<1> QED BY <1>1, <1>2, Invariance, PTL DEF Spec

\* The timers of timer.c implement the alarms that count down: each goes off
\* exactly when its ticks have passed, on any list and around any wraparound.
THEOREM Refinement == Spec => IsCountdown
<1>1. Init => Countdown!Init
  BY InitIInv
<1>2. IInv /\ [Next]_timvars =>
        [Countdown!Next]_<<LeftOf(l), time, periodic, called, Again>>
  BY NextStep DEF Implements
<1> QED BY <1>1, <1>2, Invariance, PTL
        DEF Spec, IsCountdown, Countdown!Spec, Countdown!avars, LeftOf, Linked, Again

=============================================================================
