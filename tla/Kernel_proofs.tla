--------------------------- MODULE Kernel_proofs ---------------------------
(***************************************************************************)
(* What the kernel operators and the wait list functions of ipc.c do and   *)
(* preserve, for any number of threads, priorities and suspend lists.      *)
(*                                                                         *)
(* Sound(s, T) says that the lists of the kernel record s hold exactly the *)
(* threads whose state says so, the threads of T excepted: they are off    *)
(* every list, on their way from one to another.                           *)
(***************************************************************************)
EXTENDS Ipc, Sequences_proofs

ListsSound(s) ==
  /\ \A p \in Prio : /\ IsInjective(s.ready[p])
                     /\ p \in s.group <=> s.ready[p] # <<>>
  /\ \A w \in WaitList : IsInjective(s.wait[w])
  /\ IsInjective(s.defunct)
  /\ IsInjective(s.timers)

ReadySound(s, T) ==
  \A t \in Thread, p \in Prio :
     Contains(s.ready[p], t) <=> s.stat[t] = "READY" /\ s.prio[t] = p /\ t \notin T

WaitSound(s, T) ==
  /\ \A t \in Thread, w \in WaitList :
        Contains(s.wait[w], t) => s.stat[t] = "SUSPEND" /\ t \notin T
  /\ \A t \in Thread, v, w \in WaitList :
        Contains(s.wait[v], t) /\ Contains(s.wait[w], t) => v = w

DefunctSound(s, T) ==
  \A t \in Thread : Contains(s.defunct, t) <=> s.stat[t] = "CLOSE" /\ t \notin T

TimersSound(s, T) ==
  \A t \in Thread :
     Contains(s.timers, t) => s.stat[t] = "SUSPEND" /\ t \notin T

Sound(s, T) ==
  /\ s \in KernelState
  /\ ListsSound(s)
  /\ ReadySound(s, T)
  /\ WaitSound(s, T)
  /\ DefunctSound(s, T)
  /\ TimersSound(s, T)

\* Only the fields that hold lists, states or priorities matter.
LEMMA SoundFrame ==
  ASSUME NEW s, NEW T, Sound(s, T), NEW r \in KernelState,
         r.ready = s.ready, r.group = s.group, r.wait = s.wait,
         r.defunct = s.defunct, r.stat = s.stat, r.prio = s.prio,
         r.timers = s.timers
  PROVE  Sound(r, T)
BY DEF Sound, ListsSound, ReadySound, WaitSound, DefunctSound, TimersSound

\* The exempted threads may be in any state that needs no list.
LEMMA SoundShrink ==
  ASSUME NEW s, NEW T, NEW U, Sound(s, T), U \subseteq T,
         \A t \in Thread : t \in T /\ t \notin U => s.stat[t] \notin {"READY", "CLOSE"}
  PROVE  Sound(s, U)
BY DEF Sound, ListsSound, ReadySound, WaitSound, DefunctSound, TimersSound

\* A thread that is running, free or not yet started may be exempted: it is
\* on no list (threads between two steps of an API function).
LEMMA SoundGrow ==
  ASSUME NEW s, NEW T, NEW t, Sound(s, T),
         s.stat[t] \in {"RUNNING", "FREE", "INIT"}
  PROVE  Sound(s, T \cup {t})
BY DEF Sound, ListsSound, ReadySound, WaitSound, DefunctSound, TimersSound

\* The state of an exempted thread changes freely.
LEMMA SoundStat ==
  ASSUME NEW s, NEW T, NEW t \in Thread, NEW v \in Stat, Sound(s, T),
         t \in T
  PROVE  Sound([s EXCEPT !.stat[t] = v], T)
<1> DEFINE r == [s EXCEPT !.stat[t] = v]
<1>1. /\ r \in KernelState
      /\ r.ready = s.ready /\ r.group = s.group /\ r.wait = s.wait
      /\ r.defunct = s.defunct /\ r.prio = s.prio /\ r.timers = s.timers
      /\ r.stat[t] = v
      /\ \A u \in Thread : u # t => r.stat[u] = s.stat[u]
  BY DEF Sound, KernelState
<1> HIDE DEF r
<1>2. Sound(r, T)
  BY <1>1 DEF Sound, ListsSound, ReadySound, WaitSound, DefunctSound, TimersSound
<1> QED BY <1>2 DEF r

\* So does the priority of a thread that is not ready or is exempted.
LEMMA SoundPrio ==
  ASSUME NEW s, NEW T, NEW t \in Thread, NEW p \in Prio, Sound(s, T),
         t \in T \/ s.stat[t] # "READY"
  PROVE  Sound([s EXCEPT !.prio[t] = p], T)
<1> DEFINE r == [s EXCEPT !.prio[t] = p]
<1>1. /\ r \in KernelState
      /\ r.ready = s.ready /\ r.group = s.group /\ r.wait = s.wait
      /\ r.defunct = s.defunct /\ r.stat = s.stat /\ r.timers = s.timers
      /\ \A u \in Thread : u # t => r.prio[u] = s.prio[u]
  BY DEF Sound, KernelState
<1> HIDE DEF r
<1>2. Sound(r, T)
  BY <1>1 DEF Sound, ListsSound, ReadySound, WaitSound, DefunctSound, TimersSound
<1> QED BY <1>2 DEF r

\* Unlinking a thread that is not ready takes it out of the one list it is in.
LEMMA ListRemoveSound ==
  ASSUME NEW s, NEW T, NEW t \in Thread, Sound(s, T),
         s.stat[t] # "READY" \/ t \in T, ~Contains(s.timers, t)
  PROVE  /\ Sound(ListRemove(s, t), T \cup {t})
         /\ \A p \in Prio : ListRemove(s, t).ready[p] = s.ready[p]
<1> DEFINE r == ListRemove(s, t)
<1>0. /\ s \in KernelState
      /\ \A p \in Prio : s.ready[p] \in Seq(Thread)
      /\ \A w \in WaitList : s.wait[w] \in Seq(Thread)
      /\ s.defunct \in Seq(Thread)
  BY DEF Sound, KernelState
<1>1. \A p \in Prio : RemoveFirst(s.ready[p], t) = s.ready[p]
  BY <1>0, RemoveFirstFacts DEF Sound, ReadySound, ListsSound
<1>2. \A w \in WaitList :
         /\ RemoveFirst(s.wait[w], t) \in Seq(Thread)
         /\ IsInjective(RemoveFirst(s.wait[w], t))
         /\ \A x : Contains(RemoveFirst(s.wait[w], t), x)
                     <=> Contains(s.wait[w], x) /\ x # t
  BY <1>0, RemoveFirstFacts DEF Sound, ListsSound
<1>3. /\ RemoveFirst(s.defunct, t) \in Seq(Thread)
      /\ IsInjective(RemoveFirst(s.defunct, t))
      /\ \A x : Contains(RemoveFirst(s.defunct, t), x)
                  <=> Contains(s.defunct, x) /\ x # t
  BY <1>0, RemoveFirstFacts, SMTT(30) DEF Sound, ListsSound
<1>4. /\ r \in KernelState
      /\ r.ready = s.ready
      /\ r.wait = [w \in WaitList |-> RemoveFirst(s.wait[w], t)]
      /\ r.defunct = RemoveFirst(s.defunct, t)
      /\ r.group = s.group /\ r.prio = s.prio /\ r.timers = s.timers
      /\ r.stat = s.stat
  BY <1>0, <1>1, <1>2, <1>3, Zenon DEF KernelState, ListRemove
<1> HIDE DEF r
<1>5. ListsSound(r)
  BY <1>2, <1>3, <1>4 DEF Sound, ListsSound
<1>6. ReadySound(r, T \cup {t}) /\ TimersSound(r, T \cup {t})
  BY <1>4 DEF Sound, ReadySound, TimersSound
<1>7. WaitSound(r, T \cup {t})
  <2>1. \A x \in Thread, w \in WaitList :
           Contains(r.wait[w], x) <=> Contains(s.wait[w], x) /\ x # t
    BY <1>2, <1>4
  <2>2. WaitSound(s, T) /\ r.stat = s.stat
    BY <1>4 DEF Sound
  <2> QED BY <2>1, <2>2 DEF WaitSound
<1>8. DefunctSound(r, T \cup {t})
  BY <1>3, <1>4 DEF Sound, DefunctSound
<1> QED BY <1>4, <1>5, <1>6, <1>7, <1>8 DEF Sound, r

\* rt_schedule_remove_thread takes a thread out of any list.
LEMMA RemoveThreadSound ==
  ASSUME NEW s, NEW T, NEW t \in Thread, Sound(s, T), ~Contains(s.timers, t)
  PROVE  Sound(RemoveThread(s, t), T \cup {t})
<1> DEFINE r == RemoveThread(s, t)
           R(p) == RemoveFirst(s.ready[p], t)
<1>0. /\ s \in KernelState
      /\ \A p \in Prio : s.ready[p] \in Seq(Thread)
      /\ \A w \in WaitList : s.wait[w] \in Seq(Thread)
      /\ s.defunct \in Seq(Thread)
      /\ s.prio[t] \in Prio
  BY DEF Sound, KernelState
<1>1. \A p \in Prio :
         /\ R(p) \in Seq(Thread)
         /\ IsInjective(R(p))
         /\ \A x : Contains(R(p), x) <=> Contains(s.ready[p], x) /\ x # t
         /\ p # s.prio[t] => R(p) = s.ready[p]
  BY <1>0, RemoveFirstFacts DEF Sound, ReadySound, ListsSound
<1>2. \A w \in WaitList :
         /\ RemoveFirst(s.wait[w], t) \in Seq(Thread)
         /\ IsInjective(RemoveFirst(s.wait[w], t))
         /\ \A x : Contains(RemoveFirst(s.wait[w], t), x)
                     <=> Contains(s.wait[w], x) /\ x # t
  BY <1>0, RemoveFirstFacts DEF Sound, ListsSound
<1>3. /\ RemoveFirst(s.defunct, t) \in Seq(Thread)
      /\ IsInjective(RemoveFirst(s.defunct, t))
      /\ \A x : Contains(RemoveFirst(s.defunct, t), x)
                  <=> Contains(s.defunct, x) /\ x # t
  BY <1>0, RemoveFirstFacts, SMTT(30) DEF Sound, ListsSound
<1>4. /\ r \in KernelState
      /\ \A p \in Prio : r.ready[p] = R(p)
      /\ \A w \in WaitList : r.wait[w] = RemoveFirst(s.wait[w], t)
      /\ r.defunct = RemoveFirst(s.defunct, t)
      /\ r.prio = s.prio /\ r.timers = s.timers /\ r.stat = s.stat
      /\ r.group = IF R(s.prio[t]) = <<>> THEN s.group \ {s.prio[t]} ELSE s.group
  BY <1>0, <1>1, <1>2, <1>3, Zenon DEF KernelState, ListRemove, RemoveThread
<1> HIDE DEF r, R
<1>5. \A p \in Prio : p \in r.group <=> r.ready[p] # <<>>
  <2> TAKE p \in Prio
  <2>1. CASE p # s.prio[t]
    BY <2>1, <1>1, <1>4 DEF Sound, ListsSound
  <2>2. CASE p = s.prio[t] /\ R(p) = <<>>
    BY <2>2, <1>4
  <2>3. CASE p = s.prio[t] /\ R(p) # <<>>
    <3>1. s.ready[p] # <<>>
      BY <2>3, <1>0, <1>1, HeadFacts
    <3> QED BY <3>1, <2>3, <1>4 DEF Sound, ListsSound
  <2> QED BY <2>1, <2>2, <2>3
<1>6. ListsSound(r)
  BY <1>1, <1>2, <1>3, <1>4, <1>5 DEF Sound, ListsSound
<1>7. ReadySound(r, T \cup {t}) /\ TimersSound(r, T \cup {t})
  BY <1>1, <1>4 DEF Sound, ReadySound, TimersSound
<1>8. WaitSound(r, T \cup {t})
  <2>1. \A x \in Thread, w \in WaitList :
           Contains(r.wait[w], x) <=> Contains(s.wait[w], x) /\ x # t
    BY <1>2, <1>4
  <2>2. WaitSound(s, T) /\ r.stat = s.stat
    BY <1>4 DEF Sound
  <2> QED BY <2>1, <2>2 DEF WaitSound
<1>9. DefunctSound(r, T \cup {t})
  BY <1>3, <1>4 DEF Sound, DefunctSound
<1> QED BY <1>4, <1>6, <1>7, <1>8, <1>9 DEF Sound, r

\* The fields that no list operation changes.
SameThreads(r, s) ==
  /\ r.cur = s.cur /\ r.nest = s.nest /\ r.prio = s.prio /\ r.stat = s.stat

\* The lists of the IPC objects and what their waiters are told.
SameWaits(r, s) == r.wait = s.wait /\ r.error = s.error

\* The tick counter and the timeouts measured against it.
SameClock(r, s) == r.tick = s.tick /\ r.timeout = s.timeout

\* t has been taken off the lists of the IPC objects.
OffWaits(r, s, t) ==
  \A w \in WaitList, x \in Thread :
     Contains(r.wait[w], x) <=> Contains(s.wait[w], x) /\ x # t

\* rt_list_remove and rt_schedule_remove_thread change lists and bitmap only.
LEMMA UnlinkFacts ==
  ASSUME NEW s, NEW T, NEW t \in Thread, Sound(s, T)
  PROVE  /\ SameThreads(ListRemove(s, t), s)
         /\ SameThreads(RemoveThread(s, t), s)
         /\ ListRemove(s, t).timers = s.timers
         /\ RemoveThread(s, t).timers = s.timers
         /\ SameClock(ListRemove(s, t), s)
         /\ SameClock(RemoveThread(s, t), s)
         /\ ListRemove(s, t).error = s.error
         /\ RemoveThread(s, t).error = s.error
BY DEF Sound, KernelState, ListRemove, RemoveThread, SameThreads, SameClock

\* They take a waiter off its list and leave the lists alone when t is none.
LEMMA UnlinkWaits ==
  ASSUME NEW s, NEW T, NEW t \in Thread, Sound(s, T)
  PROVE  /\ OffWaits(ListRemove(s, t), s, t)
         /\ RemoveThread(s, t).wait = ListRemove(s, t).wait
         /\ s.stat[t] # "SUSPEND" => ListRemove(s, t).wait = s.wait
<1> DEFINE r == ListRemove(s, t)
<1>0. /\ s \in KernelState
      /\ \A w \in WaitList : s.wait[w] \in Seq(Thread)
      /\ s.wait = [w \in WaitList |-> s.wait[w]]
  BY DEF Sound, KernelState
<1>1. /\ r.wait = [w \in WaitList |-> RemoveFirst(s.wait[w], t)]
      /\ RemoveThread(s, t).wait = r.wait
  BY <1>0 DEF KernelState, ListRemove, RemoveThread
<1>2. \A w \in WaitList :
         /\ \A x : Contains(RemoveFirst(s.wait[w], t), x)
                     <=> Contains(s.wait[w], x) /\ x # t
         /\ ~Contains(s.wait[w], t) => RemoveFirst(s.wait[w], t) = s.wait[w]
  BY <1>0, RemoveFirstFacts DEF Sound, ListsSound
<1> HIDE DEF r
<1>3. OffWaits(r, s, t)
  BY <1>1, <1>2 DEF OffWaits
<1>4. ASSUME s.stat[t] # "SUSPEND" PROVE r.wait = s.wait
  <2>1. \A w \in WaitList : ~Contains(s.wait[w], t)
    BY <1>4 DEF Sound, WaitSound
  <2> QED BY <1>0, <1>1, <1>2, <2>1
<1> QED BY <1>1, <1>3, <1>4 DEF r

\* rt_schedule_insert_thread puts an exempted thread back on the lists.
LEMMA InsertThreadSound ==
  ASSUME NEW s, NEW T, NEW t \in Thread, Sound(s, T), t \in T
  PROVE  LET r == InsertThread(s, t)
         IN  /\ Sound(r, T \ {t})
             /\ r.cur = s.cur /\ r.nest = s.nest /\ r.prio = s.prio
             /\ r.timers = s.timers
             /\ r.stat[t] = IF t = s.cur THEN "RUNNING" ELSE "READY"
             /\ \A u \in Thread : u # t => r.stat[u] = s.stat[u]
             /\ t # s.cur => r.group # {}
             /\ SameWaits(r, s) /\ SameClock(r, s)
<1> DEFINE r == InsertThread(s, t)
           p == s.prio[t]
           q == IF s.yield[t] THEN Append(s.ready[p], t) ELSE <<t>> \o s.ready[p]
<1>0. /\ s \in KernelState
      /\ p \in Prio
      /\ \A x \in Prio : s.ready[x] \in Seq(Thread)
  BY DEF Sound, KernelState
<1>1. CASE t = s.cur
  <2>1. /\ r \in KernelState
        /\ r.ready = s.ready /\ r.group = s.group /\ r.wait = s.wait
        /\ r.defunct = s.defunct /\ r.timers = s.timers /\ r.prio = s.prio
        /\ r.cur = s.cur /\ r.nest = s.nest
        /\ r.stat[t] = "RUNNING"
        /\ \A u \in Thread : u # t => r.stat[u] = s.stat[u]
        /\ SameWaits(r, s) /\ SameClock(r, s)
    BY <1>0, <1>1 DEF KernelState, InsertThread, Stat, SameWaits, SameClock
  <2> HIDE DEF r
  <2>2. Sound(r, T \ {t})
    BY <2>1 DEF Sound, ListsSound, ReadySound, WaitSound, DefunctSound, TimersSound
  <2> QED BY <1>1, <2>1, <2>2 DEF r
<1>2. CASE t # s.cur
  <2>1. IsInjective(s.ready[p]) /\ ~Contains(s.ready[p], t)
    BY <1>0 DEF Sound, ListsSound, ReadySound
  <2>2. /\ q \in Seq(Thread) /\ q # <<>> /\ IsInjective(q)
        /\ \A x : Contains(q, x) <=> Contains(s.ready[p], x) \/ x = t
    BY <1>0, <2>1, AppendKeepsOne, ConsKeepsOne
  <2>3. /\ r = [s EXCEPT !.stat[t] = "READY", !.ready[p] = q,
                         !.group = s.group \cup {p}]
    BY <1>2 DEF InsertThread
  <2> HIDE DEF p, q, r
  <2>0. /\ [s.ready EXCEPT ![p] = q] \in [Prio -> Seq(Thread)]
        /\ [s.stat EXCEPT ![t] = "READY"] \in [Thread -> Stat]
        /\ s.group \cup {p} \in SUBSET Prio
    BY <1>0, <2>2 DEF KernelState, Stat
  <2>4. /\ r \in KernelState
        /\ r.ready[p] = q
        /\ \A x \in Prio : x # p => r.ready[x] = s.ready[x]
        /\ r.group = s.group \cup {p} /\ r.wait = s.wait
        /\ r.defunct = s.defunct /\ r.timers = s.timers /\ r.prio = s.prio
        /\ r.cur = s.cur /\ r.nest = s.nest
        /\ r.stat[t] = "READY"
        /\ \A u \in Thread : u # t => r.stat[u] = s.stat[u]
        /\ SameWaits(r, s) /\ SameClock(r, s)
    BY <1>0, <2>0, <2>3 DEF KernelState, SameWaits, SameClock
  <2>5. ListsSound(r)
    BY <1>0, <2>2, <2>4 DEF Sound, ListsSound
  <2>6. ReadySound(r, T \ {t})
    BY <1>0, <2>2, <2>4 DEF Sound, ReadySound, p
  <2>7. WaitSound(r, T \ {t}) /\ DefunctSound(r, T \ {t})
    BY <2>4 DEF Sound, WaitSound, DefunctSound
  <2>8. TimersSound(r, T \ {t})
    BY <2>4 DEF Sound, TimersSound
  <2>9. r.group # {}
    BY <2>4
  <2> QED BY <1>2, <2>4, <2>5, <2>6, <2>7, <2>8, <2>9 DEF Sound, r
<1> QED BY <1>1, <1>2

\* rt_timer_stop
LEMMA TimerStopSound ==
  ASSUME NEW s, NEW T, NEW t \in Thread, Sound(s, T)
  PROVE  LET r == TimerStop(s, t)
         IN  /\ Sound(r, T)
             /\ SameThreads(r, s)
             /\ r.group = s.group
             /\ SameWaits(r, s) /\ r.tick = s.tick
             /\ \A x : Contains(r.timers, x) <=> Contains(s.timers, x) /\ x # t
<1> DEFINE r == TimerStop(s, t)
<1> HIDE DEF r
<1>0. /\ s \in KernelState /\ s.timers \in Seq(Thread) /\ 0 \in Tick
  <2>1. 0 \in Tick
    BY KernelAssumption, TickAssumption DEF Tick
  <2> QED BY <2>1 DEF Sound, KernelState
<1>1. /\ RemoveFirst(s.timers, t) \in Seq(Thread)
      /\ IsInjective(RemoveFirst(s.timers, t))
      /\ \A x : Contains(RemoveFirst(s.timers, t), x)
                  <=> Contains(s.timers, x) /\ x # t
  BY <1>0, RemoveFirstFacts DEF Sound, ListsSound
<1>2. /\ r \in KernelState
      /\ r.timers = RemoveFirst(s.timers, t)
      /\ r.ready = s.ready /\ r.group = s.group /\ r.wait = s.wait
      /\ r.defunct = s.defunct /\ SameThreads(r, s)
      /\ SameWaits(r, s) /\ r.tick = s.tick
  BY <1>0, <1>1 DEF KernelState, TimerStop, SameThreads, SameWaits, r
<1>3. Sound(r, T)
  BY <1>1, <1>2 DEF Sound, ListsSound, ReadySound, WaitSound, DefunctSound,
                    TimersSound, SameThreads
<1> QED BY <1>1, <1>2, <1>3 DEF r

\* rt_timer_start, for a thread that is suspended
LEMMA TimerStartSound ==
  ASSUME NEW s, NEW T, NEW t \in Thread, NEW d \in Int, Sound(s, T),
         s.stat[t] = "SUSPEND", t \notin T
  PROVE  LET r == TimerStart(s, t, d)
         IN  /\ Sound(r, T) /\ SameThreads(r, s)
             /\ SameWaits(r, s) /\ r.tick = s.tick
             /\ \A x : Contains(r.timers, x) <=> Contains(s.timers, x) \/ x = t
<1> DEFINE list == RemoveFirst(s.timers, t)
           at == (s.tick + d) % TickMod
           Later(x) == TicksFrom(at, s.timeout[x]) \in 1 .. TickHalf - 1
           I == {i \in 1 .. Len(list) : Later(list[i])}
           found == IF I # {} THEN Min(I) ELSE 0
           pos == IF found = 0 THEN Len(list) + 1 ELSE found
           r == TimerStart(s, t, d)
<1>0. /\ s \in KernelState /\ s.timers \in Seq(Thread) /\ s.tick \in Int
      /\ TickMod \in Nat /\ TickMod > 0
  <2>1. s \in KernelState /\ s.timers \in Seq(Thread) /\ s.tick \in Tick
    BY DEF Sound, KernelState
  <2>2. TickMod \in Nat /\ TickMod > 0 /\ Tick \subseteq Int
    BY TickAssumption DEF Tick
  <2> QED BY <2>1, <2>2
<1>1. at \in Tick
  BY <1>0 DEF Tick
<1>2. /\ list \in Seq(Thread) /\ IsInjective(list)
      /\ \A x : Contains(list, x) <=> Contains(s.timers, x) /\ x # t
  BY <1>0, RemoveFirstFacts DEF Sound, ListsSound
<1>3. r = [s EXCEPT !.timers = InsertAt(list, pos, t), !.timeout[t] = at]
  BY DEF TimerStart, SelectInSeq
<1> HIDE DEF at, list, Later, r
<1>4. pos \in 1 .. Len(list) + 1
  <2>1. I \subseteq Nat /\ Len(list) \in Nat /\ I \subseteq 1 .. Len(list)
    BY <1>2
  <2>2. I # {} => Min(I) \in I
    BY <2>1, MinOfNat
  <2> QED BY <2>1, <2>2
<1> DEFINE new == InsertAt(list, pos, t)
<1>5. /\ new \in Seq(Thread) /\ IsInjective(new)
      /\ \A x : Contains(new, x) <=> Contains(list, x) \/ x = t
  <2> HIDE DEF pos
  <2> QED BY <1>2, <1>4, InsertAtKeepsOne
<1> HIDE DEF pos, new
<1>6. /\ r \in KernelState
      /\ r.timers = new
      /\ r.ready = s.ready /\ r.group = s.group /\ r.wait = s.wait
      /\ r.defunct = s.defunct /\ SameThreads(r, s)
      /\ SameWaits(r, s) /\ r.tick = s.tick
  BY <1>0, <1>1, <1>3, <1>5 DEF KernelState, SameThreads, SameWaits, new
<1>7. Sound(r, T)
  BY <1>2, <1>5, <1>6 DEF Sound, ListsSound, ReadySound, WaitSound, DefunctSound,
                          TimersSound, SameThreads
<1> QED BY <1>2, <1>5, <1>6, <1>7 DEF r

-----------------------------------------------------------------------------
(* rt_schedule *)

\* Only the current thread is marked as running, and it is the one rt_schedule
\* can take off the processor.
CurrentSound(s, T) ==
  /\ \A t \in Thread : s.stat[t] = "RUNNING" => t = s.cur
  /\ s.stat[s.cur] # "READY"
  /\ s.cur \notin T

\* The bitmap search of rt_schedule finds the lowest number set, and the head
\* of that queue is a ready thread.
LEMMA HighestPrioFacts ==
  ASSUME NEW s, NEW T, Sound(s, T), s.group # {}
  PROVE  /\ HighestPrio(s) \in s.group
         /\ HighestPrio(s) \in Prio
         /\ \A p \in s.group : HighestPrio(s) <= p
         /\ LET to == Head(s.ready[HighestPrio(s)])
            IN  to \in Thread /\ s.stat[to] = "READY" /\ to \notin T
<1>1. s.group \subseteq Prio /\ s.group \subseteq Nat
  BY KernelAssumption, TickAssumption DEF Sound, KernelState, Prio
<1>2. HighestPrio(s) \in s.group /\ \A p \in s.group : HighestPrio(s) <= p
  BY <1>1, MinOfNat DEF HighestPrio
<1> DEFINE h == HighestPrio(s)
<1> HIDE DEF h
<1>3. h \in Prio /\ s.ready[h] \in Seq(Thread) /\ s.ready[h] # <<>>
  BY <1>1, <1>2 DEF Sound, KernelState, ListsSound, h
<1>4. Head(s.ready[h]) \in Thread /\ Contains(s.ready[h], Head(s.ready[h]))
  BY <1>3, HeadFacts
<1>5. s.stat[Head(s.ready[h])] = "READY" /\ Head(s.ready[h]) \notin T
  BY <1>3, <1>4 DEF Sound, ReadySound
<1> QED BY <1>2, <1>3, <1>4, <1>5 DEF h

\* Marking a ready or running thread as the running one.
LEMMA SetRunningSound ==
  ASSUME NEW s, NEW T, NEW t \in Thread, Sound(s, T), t \notin T,
         s.stat[t] \in {"READY", "RUNNING"}
  PROVE  LET r == SetRunning(s, t)
         IN  /\ Sound(r, T)
             /\ r.cur = s.cur /\ r.nest = s.nest /\ r.prio = s.prio
             /\ r.timers = s.timers
             /\ r.stat[t] = "RUNNING"
             /\ \A u \in Thread : u # t => r.stat[u] = s.stat[u]
             /\ SameWaits(r, s) /\ SameClock(r, s)
<1> DEFINE q == RemoveThread(s, t)
           r == [q EXCEPT !.stat[t] = "RUNNING"]
<1>0. s \in KernelState
  BY DEF Sound
<1>1. ~Contains(s.timers, t)
  BY DEF Sound, TimersSound
<1>2. Sound(q, T \cup {t})
  BY <1>1, RemoveThreadSound
<1>3. /\ SameThreads(q, s) /\ q.timers = s.timers
      /\ SameWaits(q, s) /\ SameClock(q, s)
  BY UnlinkFacts, UnlinkWaits DEF SameWaits
<1> HIDE DEF q
<1>4. Sound(r, T \cup {t})
  BY <1>2, SoundStat DEF Stat
<1>5. /\ r.cur = s.cur /\ r.nest = s.nest /\ r.prio = s.prio
      /\ r.timers = s.timers
      /\ r.stat[t] = "RUNNING"
      /\ \A u \in Thread : u # t => r.stat[u] = s.stat[u]
      /\ SameWaits(r, s) /\ SameClock(r, s)
  BY <1>2, <1>3 DEF SameThreads, SameWaits, SameClock, Sound, KernelState
<1> HIDE DEF r
<1>6. Sound(r, T)
  BY <1>4, <1>5, SoundShrink
<1> QED BY <1>5, <1>6 DEF r, q, SetRunning

\* Clearing the yield mark in rt_schedule changes no list.
LEMMA ClearYieldSound ==
  ASSUME NEW s, NEW T, Sound(s, T)
  PROVE  LET r == ClearYield(s)
         IN  /\ Sound(r, T) /\ SameThreads(r, s)
             /\ r.group = s.group /\ r.ready = s.ready /\ r.timers = s.timers
             /\ SameWaits(r, s) /\ SameClock(r, s)
<1> DEFINE r == ClearYield(s)
<1>1. /\ r \in KernelState /\ SameThreads(r, s)
      /\ r.ready = s.ready /\ r.group = s.group /\ r.wait = s.wait
      /\ r.defunct = s.defunct /\ r.timers = s.timers
      /\ SameWaits(r, s) /\ SameClock(r, s)
  BY DEF Sound, KernelState, ClearYield, SameThreads, SameWaits, SameClock
<1> HIDE DEF r
<1>2. Sound(r, T)
  BY <1>1, SoundFrame DEF SameThreads
<1> QED BY <1>1, <1>2 DEF r

\* r is s with the processor given to the ready thread to.
Switched(r, s, to) ==
  /\ r.cur = to /\ r.nest = s.nest /\ r.prio = s.prio
  /\ r.timers = s.timers
  /\ r.stat[to] = "RUNNING"
  /\ r.stat[s.cur] = IF s.stat[s.cur] = "RUNNING" THEN "READY" ELSE s.stat[s.cur]
  /\ \A u \in Thread \ {to, s.cur} : r.stat[u] = s.stat[u]
  /\ SameWaits(r, s) /\ SameClock(r, s)

\* Switching to a ready thread.
LEMMA SwitchToSound ==
  ASSUME NEW s, NEW T, NEW to \in Thread, Sound(s, T), CurrentSound(s, T),
         s.stat[to] = "READY", to \notin T
  PROVE  Sound(SwitchTo(s, to), T) /\ Switched(SwitchTo(s, to), s, to)
<1> DEFINE from == s.cur
           sw == [s EXCEPT !.cur = to]
           q == IF s.stat[from] = "RUNNING" THEN InsertThread(sw, from) ELSE sw
           r == SetRunning(q, to)
<1>0. from \in Thread /\ from # to /\ from \notin T
  BY DEF Sound, KernelState, CurrentSound
<1>1. /\ Sound(sw, T) /\ sw.cur = to /\ sw.nest = s.nest /\ sw.prio = s.prio
      /\ sw.stat = s.stat /\ sw.timers = s.timers
      /\ SameWaits(sw, s) /\ SameClock(sw, s)
  <2>1. /\ sw \in KernelState /\ sw.cur = to /\ sw.nest = s.nest
        /\ sw.ready = s.ready /\ sw.group = s.group /\ sw.wait = s.wait
        /\ sw.defunct = s.defunct /\ sw.timers = s.timers
        /\ sw.stat = s.stat /\ sw.prio = s.prio
        /\ SameWaits(sw, s) /\ SameClock(sw, s)
    BY DEF Sound, KernelState, SameWaits, SameClock
  <2> QED BY <2>1, SoundFrame
<1> HIDE DEF sw
<1>2. /\ Sound(q, T)
      /\ q.cur = to /\ q.nest = s.nest /\ q.prio = s.prio /\ q.timers = s.timers
      /\ q.stat[from] = IF s.stat[from] = "RUNNING" THEN "READY" ELSE s.stat[from]
      /\ \A u \in Thread : u # from => q.stat[u] = s.stat[u]
      /\ SameWaits(q, s) /\ SameClock(q, s)
  <2>1. CASE s.stat[from] = "RUNNING"
    <3>1. Sound(sw, T \cup {from})
      BY <1>0, <1>1, <2>1, SoundGrow
    <3> DEFINE i == InsertThread(sw, from)
    <3>2. /\ Sound(i, (T \cup {from}) \ {from})
          /\ i.cur = sw.cur /\ i.nest = sw.nest /\ i.prio = sw.prio
          /\ i.timers = sw.timers
          /\ i.stat[from] = IF from = sw.cur THEN "RUNNING" ELSE "READY"
          /\ \A u \in Thread : u # from => i.stat[u] = sw.stat[u]
          /\ from # sw.cur => i.group # {}
          /\ SameWaits(i, sw) /\ SameClock(i, sw)
      <4>1. from \in Thread /\ from \in T \cup {from}
        BY <1>0
      <4> QED BY <3>1, <4>1, InsertThreadSound
    <3>3. (T \cup {from}) \ {from} = T
      BY <1>0
    <3>4. q = i /\ from # sw.cur
      BY <1>0, <1>1, <2>1
    <3> HIDE DEF i, q
    <3> QED BY <1>1, <2>1, <3>2, <3>3, <3>4 DEF SameWaits, SameClock
  <2>2. CASE s.stat[from] # "RUNNING"
    BY <1>0, <1>1, <2>2
  <2> QED BY <2>1, <2>2
<1> HIDE DEF q, from
<1>3. q.stat[to] = "READY"
  BY <1>0, <1>2
<1>4. /\ Sound(r, T)
      /\ r.cur = q.cur /\ r.nest = q.nest /\ r.prio = q.prio
      /\ r.timers = q.timers
      /\ r.stat[to] = "RUNNING"
      /\ \A u \in Thread : u # to => r.stat[u] = q.stat[u]
      /\ SameWaits(r, q) /\ SameClock(r, q)
  BY <1>2, <1>3, SetRunningSound, ZenonT(30)
<1>5. r = SwitchTo(s, to)
  BY DEF SwitchTo, q, sw, from
<1> HIDE DEF r
<1>6. /\ r.stat[from] = IF s.stat[from] = "RUNNING" THEN "READY" ELSE s.stat[from]
      /\ \A u \in Thread \ {to, from} : r.stat[u] = s.stat[u]
      /\ SameWaits(r, s) /\ SameClock(r, s)
  BY <1>0, <1>2, <1>4 DEF SameWaits, SameClock
<1> QED BY <1>2, <1>4, <1>5, <1>6 DEF from, Switched

\* What rt_schedule leaves alone, and when somebody runs afterwards.
AfterSchedule(r, s, T) ==
  /\ r.nest = s.nest /\ r.prio = s.prio /\ r.timers = s.timers
  /\ \A t \in Thread :
       IF s.stat[t] \in {"READY", "RUNNING"}
       THEN r.stat[t] \in {"READY", "RUNNING"} ELSE r.stat[t] = s.stat[t]
  /\ \A t \in T : t \in Thread => r.stat[t] = s.stat[t]
  /\ \/ r.cur = s.cur
     \/ /\ r.cur \in Thread /\ s.stat[r.cur] = "READY" /\ r.cur \notin T
        /\ r.stat[r.cur] = "RUNNING"
  /\ \/ s.stat[s.cur] = "RUNNING"
     \/ s.nest = 0 /\ s.group # {}
     => r.stat[r.cur] = "RUNNING"
  /\ SameWaits(r, s) /\ SameClock(r, s)

\* rt_schedule keeps the lists sound and leaves a thread that can run.
LEMMA ScheduleSound ==
  ASSUME NEW s, NEW T, Sound(s, T), CurrentSound(s, T)
  PROVE  LET r == Schedule(s)
         IN  Sound(r, T) /\ CurrentSound(r, T) /\ AfterSchedule(r, s, T)
<1>0. s \in KernelState /\ s.cur \in Thread
  BY DEF Sound, KernelState
<1>1. CASE s.nest # 0 \/ s.group = {}
  <2>1. Schedule(s) = s
    BY <1>1 DEF Schedule
  <2> QED BY <1>0, <1>1, <2>1, Zenon DEF AfterSchedule, SameWaits, SameClock
<1>2. CASE s.nest = 0 /\ s.group # {}
  <2> DEFINE y == ClearYield(s)
  <2>1. /\ Sound(y, T) /\ SameThreads(y, s)
        /\ y.group = s.group /\ y.ready = s.ready /\ y.timers = s.timers
        /\ SameWaits(y, s) /\ SameClock(y, s)
    BY ClearYieldSound
  <2> HIDE DEF y
  <2>2. CASE KeepsRunning(s)
    <3> DEFINE r == SetRunning(y, s.cur)
    <3>1. s.stat[s.cur] = "RUNNING"
      BY <2>2 DEF KeepsRunning
    <3>2. /\ Sound(r, T)
          /\ r.cur = y.cur /\ r.nest = y.nest /\ r.prio = y.prio
          /\ r.timers = y.timers
          /\ r.stat[s.cur] = "RUNNING"
          /\ \A u \in Thread : u # s.cur => r.stat[u] = y.stat[u]
          /\ SameWaits(r, y) /\ SameClock(r, y)
      BY <1>0, <2>1, <3>1, SetRunningSound DEF SameThreads, CurrentSound
    <3>3. r = Schedule(s)
      BY <1>2, <2>2 DEF Schedule, y
    <3> HIDE DEF r
    <3>4. CurrentSound(r, T)
      BY <1>0, <2>1, <3>1, <3>2 DEF CurrentSound, SameThreads
    <3>5. AfterSchedule(r, s, T)
      BY <1>0, <2>1, <3>1, <3>2 DEF AfterSchedule, SameThreads, SameWaits, SameClock
    <3> QED BY <3>2, <3>3, <3>4, <3>5
  <2>3. CASE ~KeepsRunning(s)
    <3> DEFINE to == Head(s.ready[HighestPrio(s)])
               r == SwitchTo(y, to)
    <3>1. to \in Thread /\ s.stat[to] = "READY" /\ to \notin T
      BY <1>2, HighestPrioFacts
    <3>2. HighestPrio(y) = HighestPrio(s)
      BY <2>1 DEF HighestPrio
    <3>3. r = Schedule(s)
      BY <1>2, <2>1, <2>3, <3>2 DEF Schedule, y
    <3> HIDE DEF to
    <3>4. CurrentSound(y, T) /\ y.stat[to] = "READY"
      BY <2>1, <3>1 DEF CurrentSound, SameThreads
    <3>5. /\ Sound(r, T)
          /\ r.cur = to /\ r.nest = y.nest /\ r.prio = y.prio
          /\ r.timers = y.timers
          /\ r.stat[to] = "RUNNING"
          /\ r.stat[y.cur] = IF y.stat[y.cur] = "RUNNING" THEN "READY"
                                                          ELSE y.stat[y.cur]
          /\ \A u \in Thread \ {to, y.cur} : r.stat[u] = y.stat[u]
          /\ SameWaits(r, y) /\ SameClock(r, y)
      <4>1. Sound(y, T)
        BY <2>1
      <4>2. Sound(r, T) /\ Switched(r, y, to)
        BY <4>1, <3>1, <3>4, SwitchToSound
      <4> HIDE DEF r
      <4> QED BY <4>2 DEF Switched
    <3> HIDE DEF r
    <3>6. y.cur = s.cur /\ y.stat = s.stat /\ y.nest = s.nest /\ y.prio = s.prio
      BY <2>1 DEF SameThreads
    <3>7. CurrentSound(r, T)
      BY <1>0, <3>1, <3>5, <3>6 DEF CurrentSound
    <3>8. AfterSchedule(r, s, T)
      <4>1. \A t \in Thread :
              IF s.stat[t] \in {"READY", "RUNNING"}
              THEN r.stat[t] \in {"READY", "RUNNING"} ELSE r.stat[t] = s.stat[t]
        BY <1>0, <3>1, <3>5, <3>6 DEF CurrentSound
      <4>2. \A t \in T : t \in Thread => r.stat[t] = s.stat[t]
        BY <1>0, <3>1, <3>5, <3>6 DEF CurrentSound
      <4>3. SameWaits(r, s) /\ SameClock(r, s)
        BY <2>1, <3>5 DEF SameWaits, SameClock
      <4> QED BY <2>1, <3>1, <3>5, <3>6, <4>1, <4>2, <4>3 DEF AfterSchedule
    <3> QED BY <3>3, <3>5, <3>7, <3>8
  <2> QED BY <2>2, <2>3
<1>3. s.nest \in Nat
  BY <1>0 DEF KernelState
<1> QED BY <1>1, <1>2

\* The current thread is not behind a ready one.
Ahead(s) == \A p \in s.group : s.prio[s.cur] <= p

\* Taking a thread out sets no bit of the bitmap.
LEMMA RemoveGroup ==
  ASSUME NEW s \in KernelState, NEW t \in Thread
  PROVE  SetRunning(s, t).group \subseteq s.group
<1>1. RemoveThread(s, t).group \subseteq s.group
  BY DEF KernelState, RemoveThread, ListRemove
<1>2. SetRunning(s, t).group = RemoveThread(s, t).group
  BY DEF KernelState, SetRunning, RemoveThread, ListRemove
<1> QED BY <1>1, <1>2

\* A switch sets the bit of the thread that loses the processor, if it goes on.
LEMMA SwitchGroup ==
  ASSUME NEW s, NEW T, NEW to \in Thread, Sound(s, T), CurrentSound(s, T),
         to # s.cur
  PROVE  SwitchTo(s, to).group
           \subseteq s.group \cup (IF s.stat[s.cur] = "RUNNING"
                                   THEN {s.prio[s.cur]} ELSE {})
<1> DEFINE from == s.cur
           sw == [s EXCEPT !.cur = to]
           i == InsertThread(sw, from)
<1>1. /\ sw \in KernelState /\ sw.group = s.group /\ sw.prio = s.prio
      /\ sw.cur = to /\ from \in Thread /\ from \notin T
      /\ sw.ready = s.ready /\ sw.wait = s.wait /\ sw.defunct = s.defunct
      /\ sw.timers = s.timers /\ sw.stat = s.stat
  BY DEF Sound, KernelState, CurrentSound
<1>2. Sound(sw, T)
  BY <1>1, SoundFrame
<1> HIDE DEF sw
<1>3. CASE s.stat[from] = "RUNNING"
  <2>1. Sound(sw, T \cup {from})
    BY <1>1, <1>2, <1>3, SoundGrow
  <2>2. i \in KernelState
    BY <1>1, <2>1, InsertThreadSound DEF Sound
  <2>3. i.group = s.group \cup {s.prio[from]}
    BY <1>1 DEF InsertThread, KernelState
  <2>4. SwitchTo(s, to) = SetRunning(i, to)
    BY <1>3 DEF SwitchTo, sw
  <2> HIDE DEF i
  <2>5. SetRunning(i, to).group \subseteq i.group
    BY <2>2, RemoveGroup
  <2> QED BY <1>3, <2>3, <2>4, <2>5
<1>4. CASE s.stat[from] # "RUNNING"
  <2>1. SwitchTo(s, to) = SetRunning(sw, to)
    BY <1>4 DEF SwitchTo, sw
  <2>2. SetRunning(sw, to).group \subseteq sw.group
    BY <1>1, RemoveGroup
  <2> QED BY <1>1, <2>1, <2>2
<1> QED BY <1>3, <1>4

\* After rt_schedule with the scheduler unlocked the current thread is not
\* behind a ready one.
LEMMA ScheduleAhead ==
  ASSUME NEW s, NEW T, Sound(s, T), CurrentSound(s, T), s.nest = 0
  PROVE  Ahead(Schedule(s))
<1>0. /\ s \in KernelState /\ s.cur \in Thread
      /\ s.group \subseteq Prio /\ s.prio[s.cur] \in Prio
      /\ Prio \subseteq Nat
  <2>1. Prio \subseteq Nat
    BY KernelAssumption DEF Prio
  <2> QED BY <2>1 DEF Sound, KernelState
<1>1. CASE s.group = {}
  BY <1>1 DEF Schedule, Ahead
<1>2. CASE s.group # {}
  <2> DEFINE y == ClearYield(s)
             h == HighestPrio(s)
             to == Head(s.ready[h])
  <2>1. /\ Sound(y, T) /\ SameThreads(y, s)
        /\ y.group = s.group /\ y.ready = s.ready /\ y.timers = s.timers
        /\ SameWaits(y, s) /\ SameClock(y, s)
    BY ClearYieldSound
  <2>2. y \in KernelState /\ HighestPrio(y) = h
    BY <2>1 DEF Sound, HighestPrio
  <2>3. /\ h \in s.group /\ h \in Prio
        /\ \A p \in s.group : h <= p
        /\ to \in Thread /\ s.stat[to] = "READY" /\ to \notin T
    BY <1>2, HighestPrioFacts
  <2>4. s.prio[to] = h
    <3>1. s.ready[h] \in Seq(Thread) /\ s.ready[h] # <<>>
      BY <1>0, <2>3 DEF Sound, KernelState, ListsSound
    <3>2. Contains(s.ready[h], to)
      BY <3>1, HeadFacts
    <3> QED BY <2>3, <3>2 DEF Sound, ReadySound
  <2>5. /\ s.prio[s.cur] \in Nat /\ h \in Nat /\ h = HighestPrio(s)
        /\ \A p \in s.group : p \in Nat
    BY <1>0, <2>3
  <2> HIDE DEF y, h, to
  <2>6. CASE KeepsRunning(s)
    <3> DEFINE r == SetRunning(y, s.cur)
    <3>1. r.group \subseteq s.group
      BY <1>0, <2>1, <2>2, RemoveGroup
    <3>2. Schedule(s) = r
      BY <1>2, <2>6 DEF Schedule, y
    <3>3. r.cur = s.cur /\ r.prio = s.prio
      BY <2>1, <2>2 DEF KernelState, SetRunning, RemoveThread, ListRemove, SameThreads
    <3>4. s.prio[s.cur] <= h
      BY <2>5, <2>6 DEF KeepsRunning
    <3> HIDE DEF r
    <3> QED BY <2>3, <2>5, <3>1, <3>2, <3>3, <3>4 DEF Ahead
  <2>7. CASE ~KeepsRunning(s)
    <3> DEFINE r == SwitchTo(y, to)
    <3>1. Schedule(s) = r
      BY <1>2, <2>1, <2>2, <2>7 DEF Schedule, y, to, h
    <3>2. CurrentSound(y, T) /\ y.stat[to] = "READY" /\ to # y.cur /\ y.prio = s.prio
      BY <2>1, <2>3 DEF CurrentSound, SameThreads
    <3>3. Sound(r, T) /\ Switched(r, y, to)
      BY <2>1, <2>3, <3>2, SwitchToSound
    <3>4. r.group \subseteq s.group \cup (IF s.stat[s.cur] = "RUNNING"
                                          THEN {s.prio[s.cur]} ELSE {})
      BY <2>1, <2>3, <3>2, SwitchGroup DEF SameThreads
    <3> HIDE DEF r
    <3>5. r.prio[r.cur] = h
      BY <2>4, <3>2, <3>3 DEF Switched
    <3>6. s.stat[s.cur] = "RUNNING" => h <= s.prio[s.cur]
      BY <2>5, <2>7 DEF KeepsRunning
    <3> QED BY <2>3, <2>5, <3>1, <3>4, <3>5, <3>6 DEF Ahead
  <2> QED BY <2>6, <2>7
<1> QED BY <1>1, <1>2

-----------------------------------------------------------------------------
(* Suspend, resume, time out, tick *)

\* The state of t, and of no other thread, becomes v.
OnlyStat(r, s, t, v) ==
  /\ r.cur = s.cur /\ r.nest = s.nest /\ r.prio = s.prio
  /\ r.stat[t] = v
  /\ \A u \in Thread : u # t => r.stat[u] = s.stat[u]

\* rt_thread_suspend takes a ready or running thread off every list and stops
\* its timer.
LEMMA SuspendThreadSound ==
  ASSUME NEW s, NEW T, NEW t \in Thread, Sound(s, T), t \notin T,
         s.stat[t] \in {"READY", "RUNNING"}
  PROVE  LET r == SuspendThread(s, t)
         IN  /\ Sound(r, T) /\ OnlyStat(r, s, t, "SUSPEND")
             /\ SameWaits(r, s) /\ r.tick = s.tick
             /\ \A x : Contains(r.timers, x) <=> Contains(s.timers, x)
<1> DEFINE q == RemoveThread(s, t)
           m == [q EXCEPT !.stat[t] = "SUSPEND"]
           r == TimerStop(m, t)
<1>1. ~Contains(s.timers, t)
  BY DEF Sound, TimersSound
<1>2. /\ Sound(q, T \cup {t}) /\ SameThreads(q, s) /\ q.timers = s.timers
      /\ SameWaits(q, s) /\ SameClock(q, s)
  BY <1>1, RemoveThreadSound, UnlinkFacts, UnlinkWaits DEF SameWaits
<1> HIDE DEF q
<1>3. /\ Sound(m, T \cup {t}) /\ OnlyStat(m, q, t, "SUSPEND")
      /\ m.timers = q.timers /\ SameWaits(m, q) /\ SameClock(m, q)
  <2>1. Sound(m, T \cup {t})
    BY <1>2, SoundStat DEF Stat
  <2> QED BY <1>2, <2>1 DEF Sound, KernelState, OnlyStat, SameWaits, SameClock
<1> HIDE DEF m
<1>4. Sound(m, T)
  BY <1>3, SoundShrink DEF OnlyStat
<1>5. /\ Sound(r, T) /\ SameThreads(r, m)
      /\ SameWaits(r, m) /\ r.tick = m.tick
      /\ \A x : Contains(r.timers, x) <=> Contains(m.timers, x) /\ x # t
  BY <1>4, TimerStopSound
<1>6. r = SuspendThread(s, t)
  BY DEF SuspendThread, m, q
<1> HIDE DEF r
<1> QED BY <1>1, <1>2, <1>3, <1>5, <1>6
        DEF SameThreads, OnlyStat, SameWaits, SameClock

\* The way back onto the lists of a suspended thread whose timer is off.
LEMMA RelinkSound ==
  ASSUME NEW s, NEW T, NEW t \in Thread, Sound(s, T), t \notin T,
         s.stat[t] = "SUSPEND", ~Contains(s.timers, t)
  PROVE  LET r == InsertThread(ListRemove(s, t), t)
         IN  /\ Sound(r, T)
             /\ OnlyStat(r, s, t, IF t = s.cur THEN "RUNNING" ELSE "READY")
             /\ r.timers = s.timers
             /\ t # s.cur => r.group # {}
             /\ OffWaits(r, s, t) /\ r.error = s.error /\ SameClock(r, s)
<1> DEFINE q == ListRemove(s, t)
           r == InsertThread(q, t)
           U == T \cup {t}
<1>1. Sound(q, U) /\ t \in U
  BY ListRemoveSound
<1>2. /\ SameThreads(q, s) /\ q.timers = s.timers
      /\ OffWaits(q, s, t) /\ q.error = s.error /\ SameClock(q, s)
  BY UnlinkFacts, UnlinkWaits
<1> HIDE DEF q, U
<1>3. /\ Sound(r, U \ {t})
      /\ r.cur = q.cur /\ r.nest = q.nest /\ r.prio = q.prio
      /\ r.timers = q.timers
      /\ r.stat[t] = IF t = q.cur THEN "RUNNING" ELSE "READY"
      /\ \A u \in Thread : u # t => r.stat[u] = q.stat[u]
      /\ t # q.cur => r.group # {}
      /\ SameWaits(r, q) /\ SameClock(r, q)
  BY <1>1, InsertThreadSound
<1> HIDE DEF r
<1>4. U \ {t} = T
  BY DEF U
<1>5. Sound(r, T)
  BY <1>3, <1>4
<1>6. OnlyStat(r, s, t, IF t = s.cur THEN "RUNNING" ELSE "READY")
  BY <1>2, <1>3 DEF SameThreads, OnlyStat
<1>7. OffWaits(r, s, t) /\ r.error = s.error /\ SameClock(r, s)
  BY <1>2, <1>3 DEF OffWaits, SameWaits, SameClock
<1> QED BY <1>2, <1>3, <1>5, <1>6, <1>7 DEF r, q, SameThreads

\* rt_thread_resume, run without interruption, makes a suspended thread ready
\* and stops its timer.
LEMMA ResumeThreadSound ==
  ASSUME NEW s, NEW T, NEW t \in Thread, Sound(s, T), t \notin T,
         s.stat[t] = "SUSPEND"
  PROVE  LET r == ResumeThread(s, t)
         IN  /\ Sound(r, T)
             /\ OnlyStat(r, s, t, IF t = s.cur THEN "RUNNING" ELSE "READY")
             /\ \A x : Contains(r.timers, x) <=> Contains(s.timers, x) /\ x # t
             /\ t # s.cur => r.group # {}
             /\ OffWaits(r, s, t) /\ r.error = s.error /\ r.tick = s.tick
<1> DEFINE q == TimerStop(s, t)
           r == InsertThread(ListRemove(q, t), t)
<1>1. /\ Sound(q, T) /\ SameThreads(q, s)
      /\ SameWaits(q, s) /\ q.tick = s.tick
      /\ \A x : Contains(q.timers, x) <=> Contains(s.timers, x) /\ x # t
  BY TimerStopSound
<1>2. TimerStop(ListRemove(s, t), t) = ListRemove(q, t)
  <2>1. s \in KernelState
    BY DEF Sound
  <2> USE <2>1 DEF KernelState
  <2> DEFINE a == TimerStop(ListRemove(s, t), t)
             b == ListRemove(q, t)
  <2>2. /\ a.ready = b.ready /\ a.wait = b.wait /\ a.defunct = b.defunct
        /\ a.timers = b.timers /\ a.timeout = b.timeout
    BY DEF TimerStop, ListRemove
  <2> QED BY <2>2 DEF TimerStop, ListRemove
<1>3. ResumeThread(s, t) = r
  BY <1>2 DEF ResumeThread
<1> HIDE DEF q
<1>4. q.stat[t] = "SUSPEND" /\ ~Contains(q.timers, t) /\ q.cur = s.cur
  BY <1>1 DEF SameThreads
<1>5. /\ Sound(r, T)
      /\ OnlyStat(r, q, t, IF t = q.cur THEN "RUNNING" ELSE "READY")
      /\ r.timers = q.timers
      /\ t # q.cur => r.group # {}
      /\ OffWaits(r, q, t) /\ r.error = q.error /\ SameClock(r, q)
  BY <1>1, <1>4, RelinkSound
<1> HIDE DEF r
<1>6. OffWaits(r, s, t) /\ r.error = s.error /\ r.tick = s.tick
  BY <1>1, <1>5 DEF OffWaits, SameWaits, SameClock
<1> QED BY <1>1, <1>3, <1>4, <1>5, <1>6 DEF SameThreads, OnlyStat

\* The threads of W are off the wait lists and told so; nobody else is.
TimedOut(r, s, W) ==
  /\ \A w \in WaitList, x \in Thread :
        Contains(r.wait[w], x) <=> Contains(s.wait[w], x) /\ x \notin W
  /\ \A x \in Thread : r.error[x] = IF x \in W THEN "ETIMEOUT" ELSE s.error[x]

\* A step that lets time go on: it may schedule and may wake the threads of W,
\* but leaves the threads of T and the other blocked ones alone.
Progress(r, s, T, W) ==
  /\ r.nest = s.nest /\ r.prio = s.prio
  /\ \A x \in Thread : Contains(r.timers, x) => Contains(s.timers, x)
  /\ \A t \in Thread :
       IF s.stat[t] \in {"READY", "RUNNING"} \/ t \in W
       THEN r.stat[t] \in {"READY", "RUNNING"} ELSE r.stat[t] = s.stat[t]
  /\ \A t \in T : t \in Thread => r.stat[t] = s.stat[t]
  /\ \/ r.cur = s.cur
     \/ /\ r.cur \in Thread /\ r.cur \notin T
        /\ s.stat[r.cur] = "READY" \/ r.cur \in W
        /\ r.stat[r.cur] = "RUNNING"
  /\ s.stat[s.cur] = "RUNNING" => r.stat[r.cur] = "RUNNING"
  /\ TimedOut(r, s, W)

\* The timeout handler of a thread timer makes the suspended thread ready and
\* reschedules.
LEMMA ThreadTimeoutSound ==
  ASSUME NEW s, NEW T, NEW t \in Thread, Sound(s, T), CurrentSound(s, T),
         t \notin T, s.stat[t] = "SUSPEND", ~Contains(s.timers, t)
  PROVE  LET r == ThreadTimeout(s, t)
         IN  /\ Sound(r, T) /\ CurrentSound(r, T) /\ Progress(r, s, T, {t})
             /\ r.timers = s.timers /\ SameClock(r, s)
             /\ s.nest = 0 => Ahead(r)
<1> DEFINE e == [s EXCEPT !.error[t] = "ETIMEOUT"]
           q == InsertThread(ListRemove(e, t), t)
           r == Schedule(q)
<1>0. s \in KernelState /\ s.cur \in Thread
  BY DEF Sound, KernelState
<1>1. /\ Sound(e, T) /\ SameThreads(e, s) /\ e.timers = s.timers
      /\ e.wait = s.wait /\ SameClock(e, s)
      /\ \A x \in Thread : e.error[x] = IF x = t THEN "ETIMEOUT" ELSE s.error[x]
  <2>1. /\ e \in KernelState /\ SameThreads(e, s)
        /\ e.ready = s.ready /\ e.group = s.group /\ e.wait = s.wait
        /\ e.defunct = s.defunct /\ e.timers = s.timers /\ SameClock(e, s)
        /\ \A x \in Thread : e.error[x] = IF x = t THEN "ETIMEOUT" ELSE s.error[x]
    BY <1>0 DEF KernelState, SameThreads, Error, SameClock
  <2> HIDE DEF e
  <2> QED BY <2>1, SoundFrame DEF SameThreads
<1> HIDE DEF e
<1>2. e.stat[t] = "SUSPEND" /\ ~Contains(e.timers, t)
  BY <1>1 DEF SameThreads
<1>3. /\ Sound(q, T)
      /\ OnlyStat(q, e, t, IF t = e.cur THEN "RUNNING" ELSE "READY")
      /\ q.timers = e.timers
      /\ OffWaits(q, e, t) /\ q.error = e.error /\ SameClock(q, e)
  BY <1>1, <1>2, RelinkSound
<1> HIDE DEF q
<1>4. /\ q.cur = s.cur /\ q.nest = s.nest /\ q.prio = s.prio
      /\ q.timers = s.timers
      /\ q.stat[t] = IF t = s.cur THEN "RUNNING" ELSE "READY"
      /\ \A u \in Thread : u # t => q.stat[u] = s.stat[u]
  BY <1>1, <1>3 DEF SameThreads, OnlyStat
<1>5. CurrentSound(q, T)
  BY <1>0, <1>4 DEF CurrentSound
<1>6. Sound(r, T) /\ CurrentSound(r, T) /\ AfterSchedule(r, q, T)
  BY <1>3, <1>5, ScheduleSound
<1>7. s.nest = 0 => Ahead(r)
  BY <1>3, <1>4, <1>5, ScheduleAhead
<1>8. r = ThreadTimeout(s, t)
  BY DEF ThreadTimeout, q, e
<1> HIDE DEF r
<1>9. Progress(r, s, T, {t})
  <2>1. \A u \in Thread :
          IF s.stat[u] \in {"READY", "RUNNING"} \/ u \in {t}
          THEN r.stat[u] \in {"READY", "RUNNING"} ELSE r.stat[u] = s.stat[u]
    BY <1>4, <1>6 DEF AfterSchedule
  <2>2. \A u \in T : u \in Thread => r.stat[u] = s.stat[u]
    BY <1>4, <1>6 DEF AfterSchedule
  <2>3. \/ r.cur = s.cur
        \/ /\ r.cur \in Thread /\ r.cur \notin T
           /\ s.stat[r.cur] = "READY" \/ r.cur \in {t}
           /\ r.stat[r.cur] = "RUNNING"
    BY <1>4, <1>6 DEF AfterSchedule
  <2>4. s.stat[s.cur] = "RUNNING" => r.stat[r.cur] = "RUNNING"
    BY <1>0, <1>4, <1>6 DEF AfterSchedule
  <2>5. TimedOut(r, s, {t})
    BY <1>1, <1>3, <1>6 DEF TimedOut, OffWaits, AfterSchedule, SameWaits
  <2> QED BY <1>4, <1>6, <2>1, <2>2, <2>3, <2>4, <2>5 DEF Progress, AfterSchedule
<1>10. r.timers = s.timers /\ SameClock(r, s)
  BY <1>1, <1>3, <1>6 DEF AfterSchedule, SameClock
<1> QED BY <1>6, <1>8, <1>9, <1>7, <1>10

\* rt_tick_increase, up to its check of the timers, keeps the lists sound.
LEMMA TickIncreaseSound ==
  ASSUME NEW s, NEW T, Sound(s, T), CurrentSound(s, T)
  PROVE  LET r == TickIncrease(s)
         IN  /\ Sound(r, T) /\ CurrentSound(r, T) /\ Progress(r, s, T, {})
             /\ r.timers = s.timers /\ r.timeout = s.timeout
             /\ r.tick = NextTick(s)
             /\ s.nest = 0 /\ (s.slice[s.cur] = 1 \/ Ahead(s)) => Ahead(r)
<1>0. s \in KernelState /\ s.cur \in Thread /\ s.slice[s.cur] \in Nat \ {0}
  BY DEF Sound, KernelState
<1>1. NextTick(s) \in Tick
  <2>1. s.tick \in Int /\ TickMod \in Nat /\ TickMod > 0
    BY <1>0, KernelAssumption, TickAssumption DEF KernelState, Tick
  <2> QED BY <2>1 DEF NextTick, Tick
<1> DEFINE n == [s EXCEPT !.tick = NextTick(s)]
           q == [n EXCEPT !.slice[n.cur] = InitTick[n.cur],
                          !.yield[n.cur] = TRUE]
           d == [n EXCEPT !.slice[n.cur] = @ - 1]
           Same(x) == /\ x \in KernelState /\ SameThreads(x, s)
                      /\ x.ready = s.ready /\ x.group = s.group
                      /\ x.wait = s.wait /\ x.defunct = s.defunct
                      /\ x.timers = s.timers /\ x.error = s.error
                      /\ x.timeout = s.timeout /\ x.tick = NextTick(s)
<1>2. ASSUME NEW x, Same(x) PROVE Sound(x, T) /\ CurrentSound(x, T)
  BY <1>2, SoundFrame DEF SameThreads, CurrentSound
<1>3. Same(n) /\ n.slice = s.slice
  BY <1>0, <1>1 DEF KernelState, SameThreads
<1> HIDE DEF n
<1>4. n.cur = s.cur
  BY <1>3 DEF SameThreads
<1>5. CASE s.slice[s.cur] = 1
  <2>1. Same(q)
    BY <1>0, <1>3, <1>4, KernelAssumption, TickAssumption DEF KernelState, SameThreads
  <2> DEFINE r == Schedule(q)
  <2>2. r = TickIncrease(s)
    BY <1>5 DEF TickIncrease, SliceEnd, n
  <2> HIDE DEF q
  <2>3. Sound(r, T) /\ CurrentSound(r, T) /\ AfterSchedule(r, q, T)
    BY <1>2, <2>1, ScheduleSound
  <2>4. s.nest = 0 => Ahead(r)
    BY <1>2, <2>1, ScheduleAhead DEF SameThreads
  <2> HIDE DEF r
  <2>5. r.timers = s.timers /\ r.timeout = s.timeout /\ r.tick = NextTick(s)
    BY <2>1, <2>3 DEF AfterSchedule, SameClock
  <2>6. Progress(r, s, T, {})
    <3>1. TimedOut(r, s, {})
      BY <2>1, <2>3 DEF TimedOut, AfterSchedule, SameWaits
    <3> QED BY <2>1, <2>3, <3>1 DEF Progress, AfterSchedule, SameThreads
  <2> QED BY <1>5, <2>2, <2>3, <2>4, <2>5, <2>6
<1>6. CASE s.slice[s.cur] # 1
  <2>1. Same(d)
    <3> DEFINE left == n.slice[n.cur] - 1
    <3>1. left \in Nat \ {0}
      BY <1>0, <1>3, <1>4, <1>6
    <3>2. d = [n EXCEPT !.slice[n.cur] = left]
      OBVIOUS
    <3> HIDE DEF left, d
    <3> QED BY <1>0, <1>3, <1>4, <3>1, <3>2 DEF KernelState, SameThreads
  <2>2. d = TickIncrease(s)
    BY <1>6, <1>3, <1>4 DEF TickIncrease, n
  <2> HIDE DEF d
  <2>3. /\ d.nest = s.nest /\ d.prio = s.prio /\ d.stat = s.stat
        /\ d.cur = s.cur /\ d.timers = s.timers
        /\ TimedOut(d, s, {})
    BY <2>1 DEF SameThreads, TimedOut
  <2>4. Progress(d, s, T, {})
    BY <1>0, <2>3 DEF Progress
  <2>5. Ahead(s) => Ahead(d)
    BY <2>1 DEF Ahead, SameThreads
  <2> QED BY <1>2, <1>6, <2>1, <2>2, <2>4, <2>5
<1> QED BY <1>5, <1>6

\* Whatever the tick handler does next.
LEMMA TickStepSound ==
  ASSUME NEW T, Sound(k, T), CurrentSound(k, T), TickStep
  PROVE  /\ Sound(k', T) /\ CurrentSound(k', T)
         /\ \E W \in SUBSET Thread :
              /\ Progress(k', k, T, W)
              /\ \A t \in W : Contains(k.timers, t) /\ k.stat[t] = "SUSPEND"
              /\ \A t, u \in W : t = u
         /\ isr' \in {"none", "tick"}
<1>1. CASE TickEnter
  BY <1>1, TickIncreaseSound DEF TickEnter
<1>2. CASE TimerExpire
  <2> DEFINE t == Head(k.timers)
             s == TimerStop(k, t)
  <2>1. k.timers \in Seq(Thread) /\ k.timers # <<>>
    BY <1>2 DEF TimerExpire, TimerExpired, Sound, KernelState
  <2>2. t \in Thread /\ Contains(k.timers, t)
    BY <2>1, HeadFacts
  <2>3. k.stat[t] = "SUSPEND" /\ t \notin T
    BY <2>2 DEF Sound, TimersSound
  <2>4. k' = ThreadTimeout(s, t) /\ isr' = isr /\ isr = "tick"
    BY <1>2 DEF TimerExpire
  <2> HIDE DEF t
  <2>5. /\ Sound(s, T) /\ SameThreads(s, k) /\ SameWaits(s, k)
        /\ \A x : Contains(s.timers, x) <=> Contains(k.timers, x) /\ x # t
    BY <2>2, TimerStopSound
  <2> HIDE DEF s
  <2>6. CurrentSound(s, T) /\ s.stat[t] = "SUSPEND" /\ ~Contains(s.timers, t)
    BY <2>3, <2>5 DEF CurrentSound, SameThreads
  <2>7. /\ Sound(k', T) /\ CurrentSound(k', T) /\ Progress(k', s, T, {t})
        /\ k'.timers = s.timers /\ SameClock(k', s)
        /\ s.nest = 0 => Ahead(k')
    BY <2>2, <2>3, <2>4, <2>5, <2>6, ThreadTimeoutSound
  <2>8. Progress(k', k, T, {t})
    <3>1. TimedOut(k', k, {t})
      BY <2>5, <2>7 DEF Progress, TimedOut, SameWaits
    <3> QED BY <2>5, <2>7, <3>1 DEF Progress, SameThreads
  <2> QED BY <2>2, <2>3, <2>4, <2>7, <2>8
<1>3. CASE TickExit
  <2>1. Progress(k, k, T, {})
    BY DEF Progress, TimedOut, Sound, KernelState
  <2> QED BY <1>3, <2>1 DEF TickExit
<1> QED BY <1>1, <1>2, <1>3 DEF TickStep

\* rt_thread_control(CHANGE_PRIORITY) moves a ready thread to the queue of its
\* new priority and changes the state of nobody.
LEMMA SetPrioritySound ==
  ASSUME NEW s, NEW T, NEW u \in Thread, NEW p \in Prio, Sound(s, T),
         CurrentSound(s, T), u \notin T
  PROVE  LET r == SetPriority(s, u, p)
         IN  /\ Sound(r, T) /\ r.cur = s.cur /\ r.nest = s.nest
             /\ r.stat = s.stat /\ r.timers = s.timers
             /\ SameWaits(r, s) /\ SameClock(r, s)
<1> DEFINE r == SetPriority(s, u, p)
<1>0. s \in KernelState
  BY DEF Sound
<1>1. CASE s.stat[u] # "READY"
  <2>1. r = [s EXCEPT !.prio[u] = p]
    BY <1>1 DEF SetPriority
  <2>2. Sound(r, T)
    BY <1>1, <2>1, SoundPrio
  <2> QED BY <1>0, <2>1, <2>2 DEF KernelState, SameWaits, SameClock
<1>2. CASE s.stat[u] = "READY"
  <2> DEFINE q == RemoveThread(s, u)
             m == [q EXCEPT !.prio[u] = p]
             U == T \cup {u}
             i == InsertThread(m, u)
  <2>0. r = i /\ u \in U /\ u # s.cur
    BY <1>2 DEF SetPriority, CurrentSound
  <2>1. /\ Sound(q, U) /\ SameThreads(q, s) /\ q.timers = s.timers
        /\ SameWaits(q, s) /\ SameClock(q, s)
    <3>1. ~Contains(s.timers, u)
      BY <1>2 DEF Sound, TimersSound
    <3>2. Sound(q, U)
      BY <3>1, RemoveThreadSound
    <3> QED BY <1>2, <3>2, UnlinkFacts, UnlinkWaits DEF SameWaits
  <2> HIDE DEF q, U
  <2>2. Sound(m, U) /\ u \in U
    BY <2>0, <2>1, SoundPrio
  <2>3. /\ m.cur = q.cur /\ m.nest = q.nest /\ m.stat = q.stat
        /\ m.timers = q.timers /\ SameWaits(m, q) /\ SameClock(m, q)
    BY <2>1 DEF Sound, KernelState, SameWaits, SameClock
  <2> HIDE DEF m, r
  <2>4. /\ Sound(i, U \ {u})
        /\ i.cur = m.cur /\ i.nest = m.nest /\ i.prio = m.prio
        /\ i.timers = m.timers
        /\ i.stat[u] = IF u = m.cur THEN "RUNNING" ELSE "READY"
        /\ \A x \in Thread : x # u => i.stat[x] = m.stat[x]
        /\ u # m.cur => i.group # {}
        /\ SameWaits(i, m) /\ SameClock(i, m)
    BY <2>2, InsertThreadSound
  <2> HIDE DEF i
  <2>5. U \ {u} = T
    BY DEF U
  <2>6. i.stat = s.stat
    <3>1. i.stat \in [Thread -> Stat] /\ s.stat \in [Thread -> Stat]
      BY <1>0, <2>4 DEF Sound, KernelState
    <3>2. \A x \in Thread : i.stat[x] = s.stat[x]
      BY <1>2, <2>0, <2>1, <2>3, <2>4 DEF SameThreads
    <3> QED BY <3>1, <3>2
  <2> QED BY <2>0, <2>1, <2>3, <2>4, <2>5, <2>6
          DEF SameThreads, SameWaits, SameClock, r
<1> QED BY <1>1, <1>2

-----------------------------------------------------------------------------
(* The order of the timers, around the wraparound of the tick counter *)

\* The list is in the order of expiry, and what its timers have left is first
\* or more.
Timely(s, first) ==
  ByExpiry(s.timers, s.tick, s.timeout, TickMod, first, TickHalf)

\* A step that takes no time and brings no timer out of order.
KeepsTimely(r, s) ==
  r.tick = s.tick /\ \A first \in {0, 1} : Timely(s, first) => Timely(r, first)

\* Half of the counter's range, as the comparisons of times need it.
LEMMA TickHalfFacts ==
  /\ TickMod \in Nat /\ TickMod > 2
  /\ TickHalf \in Nat /\ 2 * TickHalf < TickMod
BY TickAssumption DEF TickHalf

\* A kernel record in which one timer has been taken off the list.
LEMMA TimerOffTimely ==
  ASSUME NEW s \in KernelState, IsInjective(s.timers), NEW t \in Thread, NEW r,
         r.timers = RemoveFirst(s.timers, t),
         r.timeout = [s.timeout EXCEPT ![t] = 0], r.tick = s.tick
  PROVE  KeepsTimely(r, s)
<1>1. ASSUME NEW first \in {0, 1}, Timely(s, first) PROVE Timely(r, first)
  <2>1. /\ s.timers \in Seq(Thread) /\ s.timeout \in [Thread -> Tick]
        /\ first \in Int /\ TickHalf \in Int
    BY TickHalfFacts DEF KernelState
  <2>2. \A x \in Thread : x # t => r.timeout[x] = s.timeout[x]
    BY <2>1
  <2> QED BY <1>1, <2>1, <2>2, ExpiryRemove DEF Timely
<1> QED BY <1>1 DEF KeepsTimely

\* rt_timer_stop, rt_thread_suspend and rt_thread_resume take one timer off.
LEMMA TimerStopTimely ==
  ASSUME NEW s \in KernelState, IsInjective(s.timers), NEW t \in Thread
  PROVE  /\ KeepsTimely(TimerStop(s, t), s)
         /\ KeepsTimely(SuspendThread(s, t), s)
         /\ KeepsTimely(ResumeThread(s, t), s)
<1> DEFINE Off(r) == /\ r.timers = RemoveFirst(s.timers, t)
                     /\ r.timeout = [s.timeout EXCEPT ![t] = 0]
                     /\ r.tick = s.tick
<1>1. KeepsTimely(s, s)
  BY DEF KeepsTimely
<1>2. Off(TimerStop(s, t))
  BY DEF KernelState, TimerStop
<1>3. s.stat[t] \in {"READY", "RUNNING"} => Off(SuspendThread(s, t))
  BY DEF KernelState, TimerStop, SuspendThread, RemoveThread, ListRemove
<1>4. s.stat[t] = "SUSPEND" => Off(ResumeThread(s, t))
  BY DEF KernelState, TimerStop, ResumeThread, InsertThread, ListRemove
<1>5. /\ s.stat[t] \notin {"READY", "RUNNING"} => SuspendThread(s, t) = s
      /\ s.stat[t] # "SUSPEND" => ResumeThread(s, t) = s
  BY DEF SuspendThread, ResumeThread
<1> QED BY <1>1, <1>2, <1>3, <1>4, <1>5, TimerOffTimely

\* rt_timer_start puts the timer where it belongs.
LEMMA TimerStartTimely ==
  ASSUME NEW s \in KernelState, IsInjective(s.timers), NEW t \in Thread,
         NEW d \in 1 .. TickHalf - 1
  PROVE  KeepsTimely(TimerStart(s, t, d), s)
<1> DEFINE list == RemoveFirst(s.timers, t)
           at == (s.tick + d) % TickMod
           I == {i \in 1 .. Len(list) :
                   (s.timeout[list[i]] - at) % TickMod \in 1 .. TickHalf - 1}
           found == IF I # {} THEN Min(I) ELSE 0
           pos == IF found = 0 THEN Len(list) + 1 ELSE found
           place == IF I = {} THEN Len(list) + 1 ELSE Min(I)
           r == TimerStart(s, t, d)
<1>0. /\ s.timers \in Seq(Thread) /\ s.tick \in 0 .. TickMod - 1
      /\ s.timeout \in [Thread -> 0 .. TickMod - 1]
  BY DEF KernelState, Tick
<1>1. /\ list \in Seq(Thread) /\ IsInjective(list) /\ ~Contains(list, t)
  BY <1>0, RemoveFirstFacts
<1>2. /\ r.timers = InsertAt(list, pos, t)
      /\ r.timeout = [s.timeout EXCEPT ![t] = at]
      /\ r.tick = s.tick
  BY DEF KernelState, TimerStart, SelectInSeq, TicksFrom
<1>3. pos = place
  <2>1. I \subseteq Nat /\ 0 \notin I
    BY <1>1
  <2>2. I # {} => Min(I) \in I
    <3> HIDE DEF I
    <3> QED BY <2>1, MinOfNat
  <2> QED BY <2>1, <2>2
<1> HIDE DEF r, list, pos
<1>4. ASSUME NEW first \in {0, 1}, Timely(s, first) PROVE Timely(r, first)
  <2>1. ByExpiry(list, s.tick, s.timeout, TickMod, first, TickHalf)
    BY <1>0, <1>4, TickHalfFacts, ExpiryRemove DEF Timely, list
  <2>2. /\ TickMod \in Nat /\ TickMod > 0 /\ TickHalf \in Nat
        /\ 2 * TickHalf < TickMod /\ first \in Nat /\ d \in first .. TickHalf - 1
        /\ d \in 0 .. TickMod - 1
    BY TickHalfFacts
  <2>3. /\ r.timeout[t] = (s.tick + d) % TickMod
        /\ \A x \in Thread : x # t => r.timeout[x] = s.timeout[x]
        /\ (s.tick + d) % TickMod \in 0 .. TickMod - 1
        /\ r.timeout \in [Thread -> 0 .. TickMod - 1]
        /\ (r.timeout[t] - s.tick) % TickMod = d
    <3>1. r.timeout[t] = at /\ \A x \in Thread : x # t => r.timeout[x] = s.timeout[x]
      BY <1>0, <1>2
    <3>2. at \in 0 .. TickMod - 1 /\ (at - s.tick) % TickMod = d
      BY <1>0, <2>2, AheadFacts
    <3>3. r.timeout \in [Thread -> 0 .. TickMod - 1]
      BY <1>0, <1>2, <3>2
    <3> QED BY <3>1, <3>2, <3>3
  <2>4. pos = PlaceOf(list, r.timeout[t], s.timeout, TickMod, TickHalf)
    BY <1>3, <2>3 DEF PlaceOf
  <2> HIDE DEF place, at
  <2> DEFINE new == r.timeout
             old == s.timeout
             tick == s.tick
  <2>5. /\ tick \in 0 .. TickMod - 1 /\ old \in [Thread -> 0 .. TickMod - 1]
        /\ list \in Seq(Thread) /\ IsInjective(list) /\ ~Contains(list, t)
        /\ ByExpiry(list, tick, old, TickMod, first, TickHalf)
        /\ new \in [Thread -> 0 .. TickMod - 1]
        /\ (new[t] - tick) % TickMod \in first .. TickHalf - 1
        /\ \A x \in Thread : x # t => new[x] = old[x]
        /\ pos = PlaceOf(list, new[t], old, TickMod, TickHalf)
    BY <1>0, <1>1, <2>1, <2>2, <2>3, <2>4
  <2> HIDE DEF new, old, tick
  <2>6. ByExpiry(InsertAt(list, pos, t), tick, new, TickMod, first, TickHalf)
    BY <2>2, <2>5, ExpiryInsert
  <2> QED BY <1>2, <2>6 DEF Timely, new, tick
<1> QED BY <1>2, <1>4 DEF KeepsTimely, r

\* At every step of the tick handler the timers are in order, and when it
\* returns none is due.
LEMMA TickStepTimely ==
  ASSUME NEW T, Sound(k, T), CurrentSound(k, T), TickStep,
         Timely(k, IF isr = "none" THEN 1 ELSE 0)
  PROVE  Timely(k', IF isr' = "none" THEN 1 ELSE 0)
<1>0. k \in KernelState /\ k.timers \in Seq(Thread) /\ IsInjective(k.timers)
  BY DEF Sound, KernelState, ListsSound
<1>1. CASE TickEnter
  <2>1. /\ k'.timers = k.timers /\ k'.timeout = k.timeout /\ k'.tick = NextTick(k)
        /\ isr = "none" /\ isr' = "tick"
    BY <1>1, TickIncreaseSound DEF TickEnter
  <2>2. /\ TickMod \in Nat /\ TickMod > 1 /\ TickHalf \in Nat
        /\ k.tick \in 0 .. TickMod - 1 /\ k.timeout \in [Thread -> 0 .. TickMod - 1]
        /\ k.timers \in Seq(Thread)
    BY <1>0, TickHalfFacts DEF KernelState, Tick
  <2>3. ByExpiry(k.timers, k.tick, k.timeout, TickMod, 1, TickHalf)
    BY <2>1 DEF Timely
  <2>4. ByExpiry(k.timers, (k.tick + 1) % TickMod, k.timeout, TickMod, 0, TickHalf)
    BY <2>2, <2>3, ExpiryTick
  <2> QED BY <2>1, <2>4 DEF Timely, NextTick
<1>2. CASE TimerExpire
  <2> DEFINE t == Head(k.timers)
             s == TimerStop(k, t)
  <2>1. /\ t \in Thread /\ Contains(k.timers, t)
    BY <1>0, <1>2, HeadFacts DEF TimerExpire, TimerExpired
  <2>2. k.stat[t] = "SUSPEND" /\ t \notin T
    BY <2>1 DEF Sound, TimersSound
  <2>3. k' = ThreadTimeout(s, t) /\ isr' = isr /\ isr = "tick"
    BY <1>2 DEF TimerExpire
  <2> HIDE DEF t
  <2>4. /\ Sound(s, T) /\ SameThreads(s, k)
        /\ \A x : Contains(s.timers, x) <=> Contains(k.timers, x) /\ x # t
    BY <2>1, TimerStopSound
  <2>5. Timely(s, 0)
    BY <1>0, <2>1, <2>3, TimerStopTimely DEF KeepsTimely
  <2> HIDE DEF s
  <2>6. CurrentSound(s, T) /\ s.stat[t] = "SUSPEND" /\ ~Contains(s.timers, t)
    BY <2>2, <2>4 DEF CurrentSound, SameThreads
  <2>7. /\ Sound(k', T) /\ CurrentSound(k', T) /\ Progress(k', s, T, {t})
        /\ k'.timers = s.timers /\ SameClock(k', s)
        /\ s.nest = 0 => Ahead(k')
    BY <2>1, <2>2, <2>3, <2>4, <2>6, ThreadTimeoutSound
  <2> QED BY <2>3, <2>5, <2>7 DEF Timely, SameClock
<1>3. CASE TickExit
  <2>1. k' = k /\ isr = "tick" /\ isr' = "none" /\ ~TimerExpired(k)
    BY <1>3 DEF TickExit
  <2>2. ASSUME k.timers # <<>>
        PROVE  (k.timeout[Head(k.timers)] - k.tick) % TickMod # 0
    <3> DEFINE b == k.timeout[Head(k.timers)]
    <3>1. b \in 0 .. TickMod - 1 /\ k.tick \in 0 .. TickMod - 1
      BY <1>0, <2>2, HeadFacts DEF KernelState, Tick
    <3>2. ~((k.tick - b) % TickMod < TickHalf)
      BY <2>1, <2>2 DEF TimerExpired, TicksFrom
    <3> HIDE DEF b
    <3>3. b # k.tick
      <4>1. b = k.tick => (k.tick - b) % TickMod = 0
        BY <3>1, TickHalfFacts
      <4>2. TickHalf > 0
        BY TickAssumption DEF TickHalf
      <4> QED BY <3>2, <4>1, <4>2
    <3>4. (b - k.tick) % TickMod = IF b < k.tick THEN b - k.tick + TickMod
                                                 ELSE b - k.tick
      BY <3>1, TickHalfFacts, WrapFacts
    <3> QED BY <3>1, <3>3, <3>4, TickHalfFacts DEF b
  <2>3. ByExpiry(k.timers, k.tick, k.timeout, TickMod, 0, TickHalf)
    BY <2>1 DEF Timely
  <2>4. ByExpiry(k.timers, k.tick, k.timeout, TickMod, 1, TickHalf)
    BY <1>0, <2>2, <2>3, TickHalfFacts, ExpiryNotDue
  <2> QED BY <2>1, <2>4 DEF Timely
<1> QED BY <1>1, <1>2, <1>3 DEF TickStep

\* A step of the tick handler that reschedules, or finds the current thread
\* ahead of the ready ones, leaves it there if the scheduler is unlocked.
LEMMA TickStepAhead ==
  ASSUME NEW T, Sound(k, T), CurrentSound(k, T), TickStep, k.nest = 0,
         \/ Ahead(k)
         \/ isr = "none" /\ k.slice[k.cur] = 1
         \/ isr = "tick" /\ TimerExpired(k)
  PROVE  Ahead(k')
<1>1. CASE TickEnter
  BY <1>1, TickIncreaseSound DEF TickEnter
<1>2. CASE TimerExpire
  <2> DEFINE t == Head(k.timers)
             s == TimerStop(k, t)
  <2>1. t \in Thread /\ Contains(k.timers, t)
    BY <1>2, HeadFacts DEF TimerExpire, TimerExpired, Sound, KernelState
  <2>2. k.stat[t] = "SUSPEND" /\ t \notin T
    BY <2>1 DEF Sound, TimersSound
  <2>3. k' = ThreadTimeout(s, t)
    BY <1>2 DEF TimerExpire
  <2> HIDE DEF t
  <2>4. /\ Sound(s, T) /\ SameThreads(s, k)
        /\ \A x : Contains(s.timers, x) <=> Contains(k.timers, x) /\ x # t
    BY <2>1, TimerStopSound
  <2> HIDE DEF s
  <2>5. CurrentSound(s, T) /\ s.stat[t] = "SUSPEND" /\ ~Contains(s.timers, t)
    BY <2>2, <2>4 DEF CurrentSound, SameThreads
  <2>6. /\ Sound(k', T) /\ CurrentSound(k', T) /\ Progress(k', s, T, {t})
        /\ k'.timers = s.timers /\ SameClock(k', s)
        /\ s.nest = 0 => Ahead(k')
    BY <2>1, <2>2, <2>3, <2>4, <2>5, ThreadTimeoutSound
  <2> QED BY <2>4, <2>6 DEF SameThreads
<1>3. CASE TickExit
  BY <1>3 DEF TickExit, TickEnter
<1> QED BY <1>1, <1>2, <1>3 DEF TickStep

-----------------------------------------------------------------------------
(* rt_system_scheduler_start *)

\* After rt_system_scheduler_start the lists hold what the states say.
LEMMA KernelStartSound ==
  ASSUME NEW started \in SUBSET Thread, NEW cur \in started, Idle \in started,
         NEW prio \in [Thread -> Prio]
  PROVE  LET s == KernelStart(started, cur, prio)
         IN  /\ Sound(s, {}) /\ CurrentSound(s, {})
             /\ s.cur = cur /\ s.stat[cur] = "RUNNING"
             /\ s.stat[Idle] \in {"READY", "RUNNING"}
             /\ \A t \in started : s.stat[t] \in {"READY", "RUNNING"}
             /\ s.timers = <<>> /\ \A w \in WaitList : s.wait[w] = <<>>
             /\ s.nest = 0 /\ \A t \in Thread : s.error[t] = "EOK"
<1> DEFINE s == KernelStart(started, cur, prio)
           others == started \ {cur}
           At0(p) == {t \in others : prio[t] = p}
           Q(p) == SetToSeq(At0(p))
<1>1. /\ started \subseteq Thread /\ Idle \in started /\ IsFiniteSet(Thread)
      /\ prio \in [Thread -> Prio] /\ InitTick \in [Thread -> Nat \ {0}]
      /\ 0 \in Tick
  BY KernelAssumption, TickAssumption DEF Tick
<1>2. ASSUME NEW p \in Prio
      PROVE  /\ Q(p) \in Seq(Thread) /\ IsInjective(Q(p))
             /\ \A x : Contains(Q(p), x) <=> x \in At0(p)
             /\ Q(p) # <<>> <=> p \in {prio[t] : t \in others}
  <2>1. IsFiniteSet(At0(p))
    BY <1>1, FS_Subset
  <2>2. /\ Q(p) \in Seq(At0(p)) /\ IsInjective(Q(p))
        /\ \A x : Contains(Q(p), x) <=> x \in At0(p)
    <3> HIDE DEF At0
    <3> QED BY <2>1, SetToSeqFacts
  <2>3. Q(p) \in Seq(Thread)
    <3>1. At0(p) \subseteq Thread
      BY <1>1
    <3> HIDE DEF At0
    <3> QED BY <2>2, <3>1, SeqMonotonic
  <2>4. Q(p) # <<>> <=> \E x \in Thread : Contains(Q(p), x)
    <3> HIDE DEF Q, At0
    <3> QED BY <2>3, HeadFacts
  <2> HIDE DEF Q
  <2> QED BY <1>1, <2>2, <2>3, <2>4
<1> DEFINE st == [t \in Thread |-> IF t = cur THEN "RUNNING"
                                   ELSE IF t \in started THEN "READY" ELSE "FREE"]
<1>3. /\ s.ready = [p \in Prio |-> Q(p)]
      /\ s.group = {prio[t] : t \in others}
      /\ s.wait = [w \in WaitList |-> <<>>]
      /\ s.defunct = <<>> /\ s.timers = <<>>
      /\ s.cur = cur /\ s.prio = prio /\ s.stat = st
      /\ s.nest = 0 /\ s.error = [t \in Thread |-> "EOK"]
  BY DEF KernelStart
<1>4. s \in KernelState
  <2>1. [p \in Prio |-> Q(p)] \in [Prio -> Seq(Thread)]
    <3> HIDE DEF Q
    <3> QED BY <1>2
  <2>2. {prio[t] : t \in others} \in SUBSET Prio
    BY <1>1
  <2>3. st \in [Thread -> Stat]
    BY DEF Stat
  <2>4. /\ [t \in Thread |-> "EOK"] \in [Thread -> Error]
        /\ [t \in Thread |-> FALSE] \in [Thread -> BOOLEAN]
        /\ [t \in Thread |-> 0] \in [Thread -> Tick]
        /\ [w \in WaitList |-> <<>>] \in [WaitList -> Seq(Thread)]
    BY <1>1 DEF Error
  <2> DEFINE rdy == [p \in Prio |-> Q(p)]
             grp == {prio[t] : t \in others}
  <2>5. s = [ ready |-> rdy, group |-> grp, wait |-> [w \in WaitList |-> <<>>],
              defunct |-> <<>>, cur |-> cur, nest |-> 0, stat |-> st,
              yield |-> [t \in Thread |-> FALSE], prio |-> prio,
              slice |-> InitTick, error |-> [t \in Thread |-> "EOK"],
              tick |-> 0, timers |-> <<>>, timeout |-> [t \in Thread |-> 0] ]
    BY DEF KernelStart
  <2>6. <<>> \in Seq(Thread) /\ 0 \in Nat /\ cur \in Thread
    BY <1>1
  <2> HIDE DEF s, rdy, grp, st
  <2>7. rdy \in [Prio -> Seq(Thread)] /\ grp \in SUBSET Prio
    BY <2>1, <2>2 DEF rdy, grp
  <2> QED BY <1>1, <2>3, <2>4, <2>5, <2>6, <2>7 DEF KernelState
<1> HIDE DEF s, Q, At0
<1>5. \A t \in Thread : /\ s.stat[t] = "READY" <=> t \in others
                        /\ s.stat[t] \in {"READY", "RUNNING", "FREE"}
                        /\ s.stat[t] = "RUNNING" <=> t = cur
  BY <1>1, <1>3
<1> HIDE DEF st
<1>6. ListsSound(s)
  BY <1>2, <1>3, EmptyFacts DEF ListsSound
<1>7. ReadySound(s, {})
  BY <1>2, <1>3, <1>5 DEF ReadySound, At0
<1>8. WaitSound(s, {}) /\ DefunctSound(s, {}) /\ TimersSound(s, {})
  BY <1>3, <1>5, EmptyFacts DEF WaitSound, DefunctSound, TimersSound
<1>9. CurrentSound(s, {})
  BY <1>1, <1>3, <1>5 DEF CurrentSound
<1>10. /\ s.stat[cur] = "RUNNING" /\ s.stat[Idle] \in {"READY", "RUNNING"}
       /\ \A t \in started : s.stat[t] \in {"READY", "RUNNING"}
  BY <1>1, <1>5
<1> QED BY <1>3, <1>4, <1>6, <1>7, <1>8, <1>9, <1>10 DEF Sound, s

-----------------------------------------------------------------------------
(* The wait lists of ipc.c *)

\* t, and nobody else, has been put on the list w.
OnWait(r, s, w, t) ==
  \A v \in WaitList, x \in Thread :
     Contains(r.wait[v], x) <=> Contains(s.wait[v], x) \/ (v = w /\ x = t)

\* t, and nobody else, has been told e.
Told(r, s, t, e) ==
  \A x \in Thread : r.error[x] = IF x = t THEN e ELSE s.error[x]

\* The place of a waiter is one of the list, whatever the order.
LEMMA WaitPositionFacts ==
  ASSUME NEW s, NEW T, NEW w \in WaitList, NEW t \in Thread, Sound(s, T)
  PROVE  WaitPosition(s, w, t) \in 1 .. Len(s.wait[w]) + 1
<1> DEFINE list == s.wait[w]
           I == {i \in 1 .. Len(list) : s.prio[t] < s.prio[list[i]]}
           found == IF I # {} THEN Min(I) ELSE 0
<1>1. WaitPosition(s, w, t) = IF found = 0 THEN Len(list) + 1 ELSE found
  BY DEF WaitPosition, SelectInSeq
<1>2. list \in Seq(Thread)
  BY DEF Sound, KernelState
<1> HIDE DEF list
<1>3. I \subseteq Nat /\ I \subseteq 1 .. Len(list) /\ Len(list) \in Nat
  BY <1>2
<1>4. I # {} => Min(I) \in I
  BY <1>3, MinOfNat
<1> HIDE DEF I
<1>5. found = 0 \/ found \in 1 .. Len(list)
  BY <1>3, <1>4
<1> HIDE DEF found
<1>6. (IF found = 0 THEN Len(list) + 1 ELSE found) \in 1 .. Len(list) + 1
  BY <1>3, <1>5
<1> QED BY <1>1, <1>6 DEF list

\* Putting a suspended thread on a list.
LEMMA WaitInsertSound ==
  ASSUME NEW s, NEW T, NEW w \in WaitList, NEW t \in Thread, NEW flag,
         Sound(s, T), t \notin T, s.stat[t] = "SUSPEND",
         \A v \in WaitList : ~Contains(s.wait[v], t)
  PROVE  LET r == WaitInsert(s, w, t, flag)
         IN  /\ Sound(r, T) /\ SameThreads(r, s) /\ SameClock(r, s)
             /\ r.timers = s.timers /\ r.error = s.error
             /\ OnWait(r, s, w, t)
<1> DEFINE q == s.wait[w]
           pos == WaitPosition(s, w, t)
           new == IF flag = "FIFO" THEN Append(q, t) ELSE InsertAt(q, pos, t)
           r == WaitInsert(s, w, t, flag)
<1>0. /\ s \in KernelState
      /\ \A v \in WaitList : s.wait[v] \in Seq(Thread) /\ IsInjective(s.wait[v])
  BY DEF Sound, KernelState, ListsSound
<1>1. pos \in 1 .. Len(q) + 1
  BY WaitPositionFacts
<1>2. r = [s EXCEPT !.wait[w] = new]
  BY DEF WaitInsert
<1> HIDE DEF r, q, pos
<1>3. q \in Seq(Thread) /\ IsInjective(q) /\ ~Contains(q, t)
  BY <1>0 DEF q
<1>4. /\ new \in Seq(Thread) /\ IsInjective(new)
      /\ \A x : Contains(new, x) <=> Contains(q, x) \/ x = t
  BY <1>1, <1>3, AppendKeepsOne, InsertAtKeepsOne
<1> HIDE DEF new
<1>5. /\ r \in KernelState
      /\ r.wait[w] = new
      /\ \A v \in WaitList : v # w => r.wait[v] = s.wait[v]
      /\ r.ready = s.ready /\ r.group = s.group /\ r.defunct = s.defunct
      /\ r.timers = s.timers /\ r.error = s.error
      /\ SameThreads(r, s) /\ SameClock(r, s)
  BY <1>0, <1>2, <1>4 DEF KernelState, SameThreads, SameClock
<1>6. OnWait(r, s, w, t)
  BY <1>4, <1>5 DEF OnWait, q
<1>7. WaitSound(r, T)
  <2>1. /\ WaitSound(s, T) /\ r.stat = s.stat
    BY <1>5 DEF Sound, SameThreads
  <2> QED BY <1>6, <2>1 DEF WaitSound, OnWait
<1>8. /\ ListsSound(r) /\ ReadySound(r, T) /\ DefunctSound(r, T)
      /\ TimersSound(r, T)
  BY <1>0, <1>4, <1>5 DEF Sound, ListsSound, ReadySound, DefunctSound,
                          TimersSound, SameThreads
<1> QED BY <1>5, <1>6, <1>7, <1>8 DEF Sound, r

\* Setting thread->error is seen by its owner only.
LEMMA SetErrorSound ==
  ASSUME NEW s, NEW T, NEW t \in Thread, NEW e \in Error, Sound(s, T)
  PROVE  LET r == [s EXCEPT !.error[t] = e]
         IN  /\ Sound(r, T) /\ SameThreads(r, s) /\ SameClock(r, s)
             /\ r.timers = s.timers /\ r.wait = s.wait /\ r.group = s.group
             /\ Told(r, s, t, e)
<1> DEFINE r == [s EXCEPT !.error[t] = e]
<1>1. /\ r \in KernelState /\ SameThreads(r, s) /\ SameClock(r, s)
      /\ r.ready = s.ready /\ r.group = s.group /\ r.wait = s.wait
      /\ r.defunct = s.defunct /\ r.timers = s.timers
      /\ Told(r, s, t, e)
  BY DEF Sound, KernelState, SameThreads, SameClock, Told
<1> HIDE DEF r
<1>2. Sound(r, T)
  BY <1>1, SoundFrame DEF SameThreads
<1> QED BY <1>1, <1>2 DEF r

\* How a blocking call waits: off the ready queue, onto the list, with the
\* timer running only if there is a timeout.
LEMMA BlockSound ==
  ASSUME NEW s, NEW T, NEW w \in WaitList, NEW t \in Thread, NEW flag,
         NEW timeout \in Int, Sound(s, T), t \notin T,
         s.stat[t] \in {"READY", "RUNNING"}
  PROVE  LET r == Block(s, w, t, flag, timeout)
         IN  /\ Sound(r, T) /\ OnlyStat(r, s, t, "SUSPEND") /\ r.tick = s.tick
             /\ OnWait(r, s, w, t) /\ Told(r, s, t, "EINTR")
             /\ \A x : Contains(r.timers, x)
                         <=> Contains(s.timers, x) \/ (x = t /\ timeout > 0)
<1> DEFINE e == [s EXCEPT !.error[t] = "EINTR"]
           u == SuspendThread(e, t)
           i == WaitInsert(u, w, t, flag)
           r == IF timeout > 0 THEN TimerStart(i, t, timeout) ELSE i
<1>1. r = Block(s, w, t, flag, timeout)
  BY DEF Block, IpcListSuspend
<1>2. /\ Sound(e, T) /\ SameThreads(e, s) /\ SameClock(e, s)
      /\ e.timers = s.timers /\ e.wait = s.wait
      /\ Told(e, s, t, "EINTR")
  BY SetErrorSound DEF Error
<1> HIDE DEF e
<1>3. e.stat[t] \in {"READY", "RUNNING"}
  BY <1>2 DEF SameThreads
<1>4. /\ Sound(u, T) /\ OnlyStat(u, e, t, "SUSPEND")
      /\ SameWaits(u, e) /\ u.tick = e.tick
      /\ \A x : Contains(u.timers, x) <=> Contains(e.timers, x)
  BY <1>2, <1>3, SuspendThreadSound
<1> HIDE DEF u
<1>5. \A v \in WaitList : ~Contains(u.wait[v], t)
  BY <1>2, <1>3, <1>4 DEF Sound, WaitSound, SameWaits
<1>6. /\ Sound(i, T) /\ SameThreads(i, u) /\ SameClock(i, u)
      /\ i.timers = u.timers /\ i.error = u.error
      /\ OnWait(i, u, w, t)
  BY <1>4, <1>5, WaitInsertSound DEF OnlyStat
<1> HIDE DEF i
<1>7. /\ Sound(r, T) /\ SameThreads(r, i) /\ SameWaits(r, i) /\ r.tick = i.tick
      /\ \A x : Contains(r.timers, x)
                  <=> Contains(i.timers, x) \/ (x = t /\ timeout > 0)
  <2>1. CASE timeout > 0
    <3>1. i.stat[t] = "SUSPEND"
      BY <1>4, <1>6 DEF SameThreads, OnlyStat
    <3>2. r = TimerStart(i, t, timeout)
      BY <2>1
    <3> HIDE DEF r
    <3> QED BY <1>6, <2>1, <3>1, <3>2, TimerStartSound
  <2>2. CASE ~(timeout > 0)
    BY <1>6, <2>2 DEF SameThreads, SameWaits
  <2> QED BY <2>1, <2>2
<1> HIDE DEF r
<1>8. OnlyStat(r, s, t, "SUSPEND") /\ r.tick = s.tick
  BY <1>2, <1>4, <1>6, <1>7 DEF OnlyStat, SameThreads, SameClock
<1>9. OnWait(r, s, w, t) /\ Told(r, s, t, "EINTR")
  BY <1>2, <1>4, <1>6, <1>7 DEF OnWait, Told, SameWaits
<1>10. \A x : Contains(r.timers, x)
               <=> Contains(s.timers, x) \/ (x = t /\ timeout > 0)
  BY <1>2, <1>4, <1>6, <1>7
<1> QED BY <1>1, <1>7, <1>8, <1>9, <1>10

\* A waiter is told e and made ready.
Answer(s, t, e) == ResumeThread([s EXCEPT !.error[t] = e], t)

\* r is s with the waiter t off its list, told e and ready, its timer stopped.
Woken(r, s, T, t, e) ==
  /\ s.stat[t] = "SUSPEND" /\ t \notin T
  /\ Sound(r, T)
  /\ OnlyStat(r, s, t, IF t = s.cur THEN "RUNNING" ELSE "READY")
  /\ OffWaits(r, s, t) /\ Told(r, s, t, e) /\ r.tick = s.tick
  /\ \A x : Contains(r.timers, x) <=> Contains(s.timers, x) /\ x # t

\* Telling a waiter e and making it ready.
LEMMA TellAndResume ==
  ASSUME NEW s, NEW T, NEW w \in WaitList, NEW t \in Thread, NEW e \in Error,
         Sound(s, T), Contains(s.wait[w], t)
  PROVE  Woken(Answer(s, t, e), s, T, t, e)
<1>1. s.stat[t] = "SUSPEND" /\ t \notin T
  BY DEF Sound, WaitSound
<1> DEFINE q == [s EXCEPT !.error[t] = e]
<1>2. /\ Sound(q, T) /\ SameThreads(q, s) /\ SameClock(q, s)
      /\ q.timers = s.timers /\ q.wait = s.wait /\ q.group = s.group
      /\ Told(q, s, t, e)
  BY SetErrorSound
<1> HIDE DEF q
<1> DEFINE r == ResumeThread(q, t)
<1>3. q.stat[t] = "SUSPEND"
  BY <1>1, <1>2 DEF SameThreads
<1>4. /\ Sound(r, T)
      /\ OnlyStat(r, q, t, IF t = q.cur THEN "RUNNING" ELSE "READY")
      /\ \A x : Contains(r.timers, x) <=> Contains(q.timers, x) /\ x # t
      /\ OffWaits(r, q, t) /\ r.error = q.error /\ r.tick = q.tick
  BY <1>1, <1>2, <1>3, ResumeThreadSound
<1> HIDE DEF r
<1>5. /\ OnlyStat(r, s, t, IF t = s.cur THEN "RUNNING" ELSE "READY")
      /\ OffWaits(r, s, t) /\ Told(r, s, t, e) /\ r.tick = s.tick
  BY <1>2, <1>4 DEF OnlyStat, OffWaits, Told, SameThreads, SameClock
<1> QED BY <1>1, <1>2, <1>4, <1>5 DEF Woken, Answer, r, q

\* The same, told when it is ready.
LEMMA ResumeAndTell ==
  ASSUME NEW s, NEW T, NEW w \in WaitList, NEW t \in Thread, NEW e \in Error,
         Sound(s, T), Contains(s.wait[w], t)
  PROVE  Woken([ResumeThread(s, t) EXCEPT !.error[t] = e], s, T, t, e)
<1> DEFINE u == ResumeThread(s, t)
           r == [u EXCEPT !.error[t] = e]
<1>1. s.stat[t] = "SUSPEND" /\ t \notin T
  BY DEF Sound, WaitSound
<1>2. /\ Sound(u, T)
      /\ OnlyStat(u, s, t, IF t = s.cur THEN "RUNNING" ELSE "READY")
      /\ \A x : Contains(u.timers, x) <=> Contains(s.timers, x) /\ x # t
      /\ t # s.cur => u.group # {}
      /\ OffWaits(u, s, t) /\ u.error = s.error /\ u.tick = s.tick
  BY <1>1, ResumeThreadSound
<1> HIDE DEF u
<1>3. /\ Sound(r, T) /\ SameThreads(r, u) /\ SameClock(r, u)
      /\ r.timers = u.timers /\ r.wait = u.wait /\ r.group = u.group
      /\ Told(r, u, t, e)
  BY <1>2, SetErrorSound
<1> HIDE DEF r
<1>4. /\ OnlyStat(r, s, t, IF t = s.cur THEN "RUNNING" ELSE "READY")
      /\ OffWaits(r, s, t) /\ Told(r, s, t, e) /\ r.tick = s.tick
  BY <1>2, <1>3 DEF OnlyStat, OffWaits, Told, SameThreads, SameClock
<1> QED BY <1>1, <1>2, <1>3, <1>4 DEF Woken, r, u

\* rt_ipc_list_resume: the first waiter is told e and made ready.
LEMMA WakeSound ==
  ASSUME NEW s, NEW T, NEW w \in WaitList, NEW e \in Error, Sound(s, T),
         s.wait[w] # <<>>
  PROVE  /\ Head(s.wait[w]) \in Thread
         /\ Contains(s.wait[w], Head(s.wait[w]))
         /\ Woken(Wake(s, w, e), s, T, Head(s.wait[w]), e)
<1> DEFINE t == Head(s.wait[w])
<1>1. s.wait[w] \in Seq(Thread)
  BY DEF Sound, KernelState
<1>2. t \in Thread /\ Contains(s.wait[w], t)
  BY <1>1, HeadFacts
<1>3. Wake(s, w, e) = Answer(s, t, e)
  BY DEF Wake, Answer
<1> HIDE DEF t
<1>4. Woken(Answer(s, t, e), s, T, t, e)
  BY <1>2, TellAndResume
<1> QED BY <1>2, <1>3, <1>4 DEF t

-----------------------------------------------------------------------------
(* The order of the wait lists *)

\* Whatever the waiters are sorted by, they still are.
KeepsOrder(r, s) ==
  \A w \in WaitList : \A key : Sorted(s.wait[w], key) => Sorted(r.wait[w], key)

\* Out of the middle of a list.
LEMMA UnlinkOrder ==
  ASSUME NEW s, NEW T, NEW t \in Thread, Sound(s, T)
  PROVE  /\ KeepsOrder(ListRemove(s, t), s)
         /\ KeepsOrder(RemoveThread(s, t), s)
<1>1. \A w \in WaitList : s.wait[w] \in Seq(Thread) /\ IsInjective(s.wait[w])
  BY DEF Sound, KernelState, ListsSound
<1>2. \A w \in WaitList : ListRemove(s, t).wait[w] = RemoveFirst(s.wait[w], t)
  BY DEF Sound, KernelState, ListRemove
<1>3. RemoveThread(s, t).wait = ListRemove(s, t).wait
  BY UnlinkWaits
<1>4. ASSUME NEW w \in WaitList, NEW key, Sorted(s.wait[w], key)
      PROVE  Sorted(RemoveFirst(s.wait[w], t), key)
  BY <1>1, <1>4, RemoveFirstSorted
<1> QED BY <1>2, <1>3, <1>4 DEF KeepsOrder

\* The other steps of the kernel keep the lists, or take threads out of them.
LEMMA SameOrder ==
  ASSUME NEW r, NEW s, r.wait = s.wait
  PROVE  KeepsOrder(r, s)
BY DEF KeepsOrder

\* Order is kept over two changes in a row.
LEMMA OrderTrans ==
  ASSUME NEW r, NEW q, NEW s, KeepsOrder(r, q), KeepsOrder(q, s)
  PROVE  KeepsOrder(r, s)
BY DEF KeepsOrder

\* rt_schedule_insert_thread has nothing to do with wait lists.
LEMMA InsertThreadWaits ==
  ASSUME NEW s \in KernelState, NEW t \in Thread
  PROVE  /\ InsertThread(s, t).wait = s.wait
         /\ TimerStop(s, t).wait = s.wait
BY DEF KernelState, InsertThread, TimerStop

\* rt_thread_resume.
LEMMA ResumeOrder ==
  ASSUME NEW s, NEW T, NEW t \in Thread, Sound(s, T)
  PROVE  KeepsOrder(ResumeThread(s, t), s)
<1>1. s \in KernelState
  BY DEF Sound
<1> DEFINE q == ListRemove(s, t)
<1>2. ResumeThread(s, t).wait = IF s.stat[t] = "SUSPEND" THEN q.wait ELSE s.wait
  BY <1>1 DEF KernelState, ResumeThread, InsertThread, TimerStop, ListRemove
<1>3. KeepsOrder(q, s)
  BY UnlinkOrder
<1> HIDE DEF q
<1> QED BY <1>2, <1>3 DEF KeepsOrder

\* The timeout of a thread.
LEMMA ThreadTimeoutOrder ==
  ASSUME NEW s, NEW T, NEW t \in Thread, Sound(s, T), CurrentSound(s, T),
         t \notin T, s.stat[t] = "SUSPEND", ~Contains(s.timers, t)
  PROVE  KeepsOrder(ThreadTimeout(s, t), s)
<1> DEFINE e == [s EXCEPT !.error[t] = "ETIMEOUT"]
           q == InsertThread(ListRemove(e, t), t)
<1>1. /\ Sound(e, T) /\ SameThreads(e, s)
      /\ e.timers = s.timers /\ e.wait = s.wait
  BY SetErrorSound DEF Error
<1> HIDE DEF e
<1>2. e.stat[t] = "SUSPEND" /\ ~Contains(e.timers, t)
  BY <1>1 DEF SameThreads
<1>3. Sound(q, T) /\ OnlyStat(q, e, t, IF t = e.cur THEN "RUNNING" ELSE "READY")
  BY <1>1, <1>2, RelinkSound
<1>4. q.wait = ListRemove(e, t).wait
  BY <1>1 DEF Sound, KernelState, InsertThread, ListRemove
<1>5. CurrentSound(q, T)
  <2>1. s.cur \in Thread
    BY DEF Sound, KernelState
  <2> HIDE DEF q
  <2>2. /\ q.cur = s.cur /\ q.stat[t] = IF t = s.cur THEN "RUNNING" ELSE "READY"
        /\ \A u \in Thread : u # t => q.stat[u] = s.stat[u]
    BY <1>1, <1>3 DEF SameThreads, OnlyStat
  <2> QED BY <2>1, <2>2 DEF CurrentSound
<1>6. KeepsOrder(ListRemove(e, t), e)
  BY <1>1, UnlinkOrder
<1>7. ThreadTimeout(s, t) = Schedule(q)
  BY DEF ThreadTimeout, q, e
<1> HIDE DEF q
<1>8. Schedule(q).wait = q.wait
  BY <1>3, <1>5, ScheduleSound DEF AfterSchedule, SameWaits
<1> QED BY <1>1, <1>4, <1>6, <1>7, <1>8 DEF KeepsOrder

\* rt_tick_increase wakes nobody.
LEMMA TickIncreaseOrder ==
  ASSUME NEW s, NEW T, Sound(s, T), CurrentSound(s, T)
  PROVE  TickIncrease(s).wait = s.wait
<1>0. s \in KernelState /\ s.cur \in Thread /\ s.slice[s.cur] \in Nat \ {0}
  BY DEF Sound, KernelState
<1>1. NextTick(s) \in Tick
  <2>1. s.tick \in Int /\ TickMod \in Nat /\ TickMod > 0
    BY <1>0, KernelAssumption, TickAssumption DEF KernelState, Tick
  <2> QED BY <2>1 DEF NextTick, Tick
<1> DEFINE n == [s EXCEPT !.tick = NextTick(s)]
           q == [n EXCEPT !.slice[n.cur] = InitTick[n.cur],
                          !.yield[n.cur] = TRUE]
<1>2. CASE s.slice[s.cur] = 1
  <2>1. /\ q \in KernelState /\ SameThreads(q, s)
        /\ q.ready = s.ready /\ q.group = s.group /\ q.wait = s.wait
        /\ q.defunct = s.defunct /\ q.timers = s.timers
    BY <1>0, <1>1, KernelAssumption, TickAssumption DEF KernelState, SameThreads
  <2>2. TickIncrease(s) = Schedule(q)
    BY <1>2 DEF TickIncrease, SliceEnd
  <2> HIDE DEF q
  <2>3. Sound(q, T) /\ CurrentSound(q, T)
    BY <2>1, SoundFrame DEF SameThreads, CurrentSound
  <2>4. Schedule(q).wait = q.wait
    BY <2>3, ScheduleSound DEF AfterSchedule, SameWaits
  <2> QED BY <2>1, <2>2, <2>4
<1>3. CASE s.slice[s.cur] # 1
  BY <1>0, <1>3 DEF TickIncrease, KernelState
<1> QED BY <1>2, <1>3

\* SysTick_Handler, step by step.
LEMMA TickStepOrder ==
  ASSUME NEW T, Sound(k, T), CurrentSound(k, T), TickStep
  PROVE  KeepsOrder(k', k)
<1>1. CASE TickEnter
  BY <1>1, TickIncreaseOrder, SameOrder DEF TickEnter
<1>2. CASE TimerExpire
  <2> DEFINE t == Head(k.timers)
             s == TimerStop(k, t)
  <2>1. k.timers \in Seq(Thread) /\ k.timers # <<>>
    BY <1>2 DEF TimerExpire, TimerExpired, Sound, KernelState
  <2>2. t \in Thread /\ Contains(k.timers, t)
    BY <2>1, HeadFacts
  <2>3. k.stat[t] = "SUSPEND" /\ t \notin T
    BY <2>2 DEF Sound, TimersSound
  <2>4. k' = ThreadTimeout(s, t)
    BY <1>2 DEF TimerExpire
  <2> HIDE DEF t
  <2>5. /\ Sound(s, T) /\ SameThreads(s, k) /\ SameWaits(s, k)
        /\ \A x : Contains(s.timers, x) <=> Contains(k.timers, x) /\ x # t
    BY <2>2, TimerStopSound
  <2> HIDE DEF s
  <2>6. CurrentSound(s, T) /\ s.stat[t] = "SUSPEND" /\ ~Contains(s.timers, t)
    BY <2>3, <2>5 DEF CurrentSound, SameThreads
  <2>7. KeepsOrder(k', s)
    BY <2>2, <2>3, <2>4, <2>5, <2>6, ThreadTimeoutOrder
  <2> QED BY <2>5, <2>7 DEF KeepsOrder, SameWaits
<1>3. CASE TickExit
  BY <1>3, SameOrder DEF TickExit
<1> QED BY <1>1, <1>2, <1>3 DEF TickStep

\* A suspended thread that is on no list.
LEMMA SoundOff ==
  ASSUME NEW s, NEW T, NEW t \in Thread, Sound(s, T), s.stat[t] = "SUSPEND",
         ~Contains(s.timers, t), \A w \in WaitList : ~Contains(s.wait[w], t)
  PROVE  Sound(s, T \cup {t})
BY DEF Sound, ReadySound, WaitSound, DefunctSound, TimersSound

\* A waiter that is put in at its place keeps the list in order.
LEMMA WaitInsertSorted ==
  ASSUME NEW s, NEW T, NEW w \in WaitList, NEW t \in Thread, Sound(s, T),
         Sorted(s.wait[w], s.prio)
  PROVE  Sorted(WaitInsert(s, w, t, "PRIO").wait[w], s.prio)
<1> DEFINE list == s.wait[w]
           key == s.prio
           I == {i \in 1 .. Len(list) : key[t] < key[list[i]]}
           found == IF I # {} THEN Min(I) ELSE 0
           pos == IF I = {} THEN Len(list) + 1 ELSE Min(I)
<1>1. WaitPosition(s, w, t) = IF found = 0 THEN Len(list) + 1 ELSE found
  BY DEF WaitPosition, SelectInSeq
<1>2. /\ list \in Seq(Thread) /\ s.wait \in [WaitList -> Seq(Thread)]
      /\ \A x \in Thread : key[x] \in Int
  BY DEF Sound, KernelState, Prio
<1>3. WaitInsert(s, w, t, "PRIO").wait[w]
        = InsertAt(list, WaitPosition(s, w, t), t)
  BY <1>2 DEF WaitInsert, Sound, KernelState
<1>4. Sorted(list, key)
  OBVIOUS
<1> HIDE DEF list, key
<1>5. pos \in 1 .. Len(list) + 1 /\ Sorted(InsertAt(list, pos, t), key)
  BY <1>2, <1>4, InsertSorted
<1>6. Len(list) \in Nat /\ I \subseteq 1 .. Len(list)
  BY <1>2
<1>7. I # {} => Min(I) \in 1 .. Len(list)
  <2>1. I \subseteq Nat
    BY <1>6
  <2>2. I # {} => Min(I) \in I
    BY <2>1, MinOfNat
  <2> QED BY <1>6, <2>2
<1> HIDE DEF I
<1>8. I # {} => Min(I) # 0
  BY <1>6, <1>7
<1>9. WaitPosition(s, w, t) = pos
  BY <1>1, <1>8
<1> QED BY <1>3, <1>5, <1>9 DEF list, key

\* Only the priority of u changes.
LEMMA SetPriorityPrio ==
  ASSUME NEW s, NEW T, NEW u \in Thread, NEW p \in Prio, Sound(s, T)
  PROVE  SetPriority(s, u, p).prio = [s.prio EXCEPT ![u] = p]
<1>1. s \in KernelState
  BY DEF Sound
<1> QED BY <1>1 DEF KernelState, SetPriority, InsertThread, RemoveThread, ListRemove

\* Taking a suspended thread off its list before it is resumed, as
\* rt_mutex_release does, makes no difference.
LEMMA ResumeUnlinked ==
  ASSUME NEW s, NEW T, NEW t \in Thread, Sound(s, T), s.stat[t] = "SUSPEND"
  PROVE  ResumeThread(ListRemove(s, t), t) = ResumeThread(s, t)
<1> DEFINE q == ListRemove(s, t)
           r == ListRemove(q, t)
<1>0. /\ s \in KernelState
      /\ \A p \in Prio : s.ready[p] \in Seq(Thread) /\ IsInjective(s.ready[p])
      /\ \A w \in WaitList : s.wait[w] \in Seq(Thread) /\ IsInjective(s.wait[w])
      /\ s.defunct \in Seq(Thread) /\ IsInjective(s.defunct)
  BY DEF Sound, KernelState, ListsSound
<1>1. ASSUME NEW l \in Seq(Thread), IsInjective(l)
      PROVE  RemoveFirst(RemoveFirst(l, t), t) = RemoveFirst(l, t)
  <2>1. /\ RemoveFirst(l, t) \in Seq(Thread) /\ IsInjective(RemoveFirst(l, t))
        /\ ~Contains(RemoveFirst(l, t), t)
    BY <1>1, RemoveFirstFacts
  <2> QED BY <2>1, RemoveFirstFacts
<1>2. /\ q.ready = [p \in Prio |-> RemoveFirst(s.ready[p], t)]
      /\ q.wait = [w \in WaitList |-> RemoveFirst(s.wait[w], t)]
      /\ q.defunct = RemoveFirst(s.defunct, t)
      /\ q.stat = s.stat
  BY <1>0 DEF KernelState, ListRemove
<1>3. r = [q EXCEPT !.ready   = [p \in Prio |-> RemoveFirst(q.ready[p], t)],
                    !.wait    = [w \in WaitList |-> RemoveFirst(q.wait[w], t)],
                    !.defunct = RemoveFirst(q.defunct, t)]
  BY DEF ListRemove
<1>4. \A p \in Prio : RemoveFirst(q.ready[p], t) = q.ready[p]
  BY <1>0, <1>1, <1>2
<1>5. \A w \in WaitList : RemoveFirst(q.wait[w], t) = q.wait[w]
  BY <1>0, <1>1, <1>2
<1>6. RemoveFirst(q.defunct, t) = q.defunct
  BY <1>0, <1>1, <1>2
<1>7. /\ [p \in Prio |-> RemoveFirst(q.ready[p], t)] = q.ready
      /\ [w \in WaitList |-> RemoveFirst(q.wait[w], t)] = q.wait
  BY <1>2, <1>4, <1>5
<1>8. r = q
  <2>1. q = [s EXCEPT !.ready   = q.ready, !.wait = q.wait, !.defunct = q.defunct]
    BY <1>0, <1>2 DEF ListRemove
  <2>2. r = [q EXCEPT !.ready = q.ready, !.wait = q.wait, !.defunct = q.defunct]
    BY <1>3, <1>6, <1>7
  <2> HIDE DEF q, r
  <2> QED BY <1>0, <2>1, <2>2 DEF KernelState
<1> HIDE DEF r
<1>9. q.stat[t] = "SUSPEND"
  BY <1>2
<1>10. ResumeThread(q, t) = InsertThread(TimerStop(r, t), t)
  BY <1>9 DEF ResumeThread, r
<1> QED BY <1>8, <1>10 DEF ResumeThread, q

-----------------------------------------------------------------------------
(* The timers that go on *)

OffLists(s, t) == \A w \in WaitList : ~Contains(s.wait[w], t)

\* The timer of t runs on, or does not run, as before.
SameTimer(r, s, t) ==
  /\ Contains(r.timers, t) <=> Contains(s.timers, t)
  /\ r.timeout[t] = s.timeout[t]

\* What takes no time, keeps the order of the timers and touches no timer of a
\* thread that is on no wait list, those of X excepted.
Spares(r, s, X) ==
  /\ KeepsTimely(r, s)
  /\ \A t \in Thread \ X :
        OffLists(s, t) => OffLists(r, t) /\ SameTimer(r, s, t)

\* No timer is touched, and nobody is put on a list.
LEMMA SparesSame ==
  ASSUME NEW r, NEW s, r.timers = s.timers, SameClock(r, s),
         \/ r.wait = s.wait
         \/ \A t \in Thread : OffLists(s, t) => OffLists(r, t)
  PROVE  Spares(r, s, {})
BY DEF Spares, KeepsTimely, Timely, SameTimer, SameClock, OffLists

\* Less than X is touched.
LEMMA SparesMore ==
  ASSUME NEW r, NEW s, NEW X, NEW Y, Spares(r, s, X), X \subseteq Y
  PROVE  Spares(r, s, Y)
BY DEF Spares

\* One after the other.
LEMMA SparesTrans ==
  ASSUME NEW r, NEW q, NEW s, NEW X, Spares(r, q, X), Spares(q, s, X)
  PROVE  Spares(r, s, X)
BY DEF Spares, KeepsTimely, SameTimer

\* A waiter has no claim.
LEMMA SparesWaiter ==
  ASSUME NEW r, NEW s, NEW t, Spares(r, s, {t}), ~OffLists(s, t)
  PROVE  Spares(r, s, {})
BY DEF Spares

\* rt_schedule touches no timer.
LEMMA ScheduleSpares ==
  ASSUME NEW s, NEW T, Sound(s, T), CurrentSound(s, T)
  PROVE  Spares(Schedule(s), s, {})
<1> DEFINE r == Schedule(s)
<1>1. AfterSchedule(r, s, T)
  BY ScheduleSound
<1> HIDE DEF r
<1>2. r.timers = s.timers /\ SameClock(r, s) /\ r.wait = s.wait
  BY <1>1 DEF AfterSchedule, SameWaits
<1>3. Spares(r, s, {})
  BY <1>2, SparesSame
<1> QED BY <1>3 DEF r

\* Telling a thread something touches none either.
LEMMA ErrorSpares ==
  ASSUME NEW s, NEW T, Sound(s, T), NEW t \in Thread, NEW e \in Error
  PROVE  Spares([s EXCEPT !.error[t] = e], s, {})
<1> DEFINE r == [s EXCEPT !.error[t] = e]
<1>1. /\ Sound(r, T) /\ SameThreads(r, s) /\ SameClock(r, s)
      /\ r.timers = s.timers /\ r.wait = s.wait /\ r.group = s.group
      /\ Told(r, s, t, e)
  BY SetErrorSound
<1> HIDE DEF r
<1>2. Spares(r, s, {})
  BY <1>1, SparesSame
<1> QED BY <1>2 DEF r

\* One timer is stopped.
LEMMA TimerOffSpares ==
  ASSUME NEW s, NEW T, Sound(s, T), NEW t \in Thread, NEW r,
         r.timers = RemoveFirst(s.timers, t),
         r.timeout = [s.timeout EXCEPT ![t] = 0], r.tick = s.tick,
         \A u \in Thread \ {t} : OffLists(s, u) => OffLists(r, u)
  PROVE  Spares(r, s, {t})
<1>1. /\ s \in KernelState /\ s.timers \in Seq(Thread) /\ IsInjective(s.timers)
      /\ s.timeout \in [Thread -> Tick]
  BY DEF Sound, ListsSound, KernelState
<1>2. KeepsTimely(r, s)
  BY <1>1, TimerOffTimely
<1>3. \A x : Contains(r.timers, x) <=> Contains(s.timers, x) /\ x # t
  BY <1>1, RemoveFirstFacts
<1>4. \A u \in Thread \ {t} : SameTimer(r, s, u)
  BY <1>1, <1>3 DEF SameTimer
<1> QED BY <1>2, <1>4 DEF Spares

\* rt_thread_suspend and rt_thread_resume stop the timer of their thread.
LEMMA SuspendResumeSpare ==
  ASSUME NEW s, NEW T, Sound(s, T), NEW t \in Thread
  PROVE  /\ Spares(SuspendThread(s, t), s, {t})
         /\ Spares(ResumeThread(s, t), s, {t})
<1> DEFINE Off(r) == /\ r.timers = RemoveFirst(s.timers, t)
                     /\ r.timeout = [s.timeout EXCEPT ![t] = 0]
                     /\ r.tick = s.tick
                     /\ r.wait = [w \in WaitList |-> RemoveFirst(s.wait[w], t)]
<1>1. s \in KernelState
  BY DEF Sound
<1>2. ASSUME NEW r, Off(r) PROVE Spares(r, s, {t})
  <2>1. \A w \in WaitList : s.wait[w] \in Seq(Thread) /\ IsInjective(s.wait[w])
    BY DEF Sound, ListsSound, KernelState
  <2>2. \A w \in WaitList : \A x : Contains(r.wait[w], x) => Contains(s.wait[w], x)
    BY <1>2, <2>1, RemoveFirstFacts
  <2>3. \A u \in Thread \ {t} : OffLists(s, u) => OffLists(r, u)
    BY <2>2 DEF OffLists
  <2> QED BY <1>2, <2>3, TimerOffSpares
<1>3. Spares(s, s, {t})
  BY SparesSame, SparesMore DEF SameClock
<1>4. s.stat[t] \in {"READY", "RUNNING"} => Off(SuspendThread(s, t))
  BY <1>1 DEF KernelState, TimerStop, SuspendThread, RemoveThread, ListRemove
<1>5. s.stat[t] = "SUSPEND" => Off(ResumeThread(s, t))
  BY <1>1 DEF KernelState, TimerStop, ResumeThread, InsertThread, ListRemove
<1>6. /\ s.stat[t] \notin {"READY", "RUNNING"} => SuspendThread(s, t) = s
      /\ s.stat[t] # "SUSPEND" => ResumeThread(s, t) = s
  BY DEF SuspendThread, ResumeThread
<1> HIDE DEF Off
<1> QED BY <1>2, <1>3, <1>4, <1>5, <1>6

\* rt_timer_start touches one timer.
LEMMA TimerStartSpares ==
  ASSUME NEW s, NEW T, Sound(s, T), NEW t \in Thread, t \notin T,
         s.stat[t] = "SUSPEND", NEW d \in 1 .. TickHalf - 1
  PROVE  Spares(TimerStart(s, t, d), s, {t})
<1> DEFINE r == TimerStart(s, t, d)
<1>1. /\ s \in KernelState /\ IsInjective(s.timers) /\ s.timeout \in [Thread -> Tick]
  BY DEF Sound, ListsSound, KernelState
<1>2. KeepsTimely(r, s)
  BY <1>1, TimerStartTimely
<1>3. d \in Int
  BY TickHalfFacts
<1>4. /\ \A x : Contains(r.timers, x) <=> Contains(s.timers, x) \/ x = t
      /\ r.wait = s.wait
  BY <1>3, TimerStartSound DEF SameWaits
<1>5. \A u \in Thread : u # t => r.timeout[u] = s.timeout[u]
  BY <1>1 DEF TimerStart, KernelState
<1> HIDE DEF r
<1>6. Spares(r, s, {t})
  BY <1>2, <1>4, <1>5 DEF Spares, SameTimer, OffLists
<1> QED BY <1>6 DEF r

\* The kernel and the wait lists of ipc.c arm a timer, if there is a timeout.
LEMMA TimeoutSpares ==
  ASSUME NEW s, NEW q, Sound(q, {}), NEW t \in Thread, q.stat[t] = "SUSPEND",
         NEW timeout \in {Forever} \cup 0 .. TickHalf - 1, Spares(q, s, {t})
  PROVE  Spares(IF timeout > 0 THEN TimerStart(q, t, timeout) ELSE q, s, {t})
<1>1. CASE timeout > 0
  <2>1. timeout \in 1 .. TickHalf - 1 /\ t \notin {}
    BY <1>1, TickHalfFacts DEF Forever
  <2>2. Spares(TimerStart(q, t, timeout), q, {t})
    BY <2>1, TimerStartSpares
  <2> QED BY <1>1, <2>2, SparesTrans
<1>2. CASE ~(timeout > 0)
  BY <1>2
<1> QED BY <1>1, <1>2

\* A blocking call touches the timer of its thread.
LEMMA BlockSpares ==
  ASSUME NEW s, Sound(s, {}), NEW w \in WaitList, NEW t \in Thread, NEW flag,
         s.stat[t] \in {"READY", "RUNNING"},
         NEW timeout \in {Forever} \cup 0 .. TickHalf - 1
  PROVE  Spares(Block(s, w, t, flag, timeout), s, {t})
<1> DEFINE e == [s EXCEPT !.error[t] = "EINTR"]
           u == SuspendThread(e, t)
           i == WaitInsert(u, w, t, flag)
<1>1. Block(s, w, t, flag, timeout)
         = IF timeout > 0 THEN TimerStart(i, t, timeout) ELSE i
  BY DEF Block, IpcListSuspend
<1>2. i = Block(s, w, t, flag, 0)
  BY DEF Block, IpcListSuspend
<1>3. /\ Sound(i, {}) /\ OnlyStat(i, s, t, "SUSPEND") /\ OnWait(i, s, w, t)
  <2>1. 0 \in Int /\ t \notin {}
    OBVIOUS
  <2> HIDE DEF i
  <2> QED BY <1>2, <2>1, BlockSound
<1>4. Sound(e, {}) /\ Spares(e, s, {t})
  <2>1. "EINTR" \in Error
    BY DEF Error
  <2>2. /\ Sound(e, {}) /\ SameThreads(e, s) /\ SameClock(e, s)
        /\ e.timers = s.timers /\ e.wait = s.wait /\ e.group = s.group
        /\ Told(e, s, t, "EINTR")
    BY <2>1, SetErrorSound
  <2>3. Spares(e, s, {})
    BY <2>1, ErrorSpares
  <2> HIDE DEF e
  <2> QED BY <2>2, <2>3, SparesMore
<1>5. /\ i.timers = u.timers /\ i.tick = u.tick /\ i.timeout = u.timeout
  <2>1. u \in KernelState
    <3> HIDE DEF e
    <3>1. SuspendThread(e, t) \in KernelState
      <4>1. CASE e.stat[t] \in {"READY", "RUNNING"}
        BY <1>4, <4>1, SuspendThreadSound DEF Sound
      <4>2. CASE e.stat[t] \notin {"READY", "RUNNING"}
        BY <1>4, <4>2 DEF Sound, SuspendThread
      <4> QED BY <4>1, <4>2
    <3> QED BY <3>1
  <2> HIDE DEF u
  <2> QED BY <2>1 DEF WaitInsert, KernelState
<1>6. Spares(u, e, {t})
  <2> HIDE DEF e
  <2> QED BY <1>4, SuspendResumeSpare
<1>7. Spares(u, s, {t})
  <2> HIDE DEF u, e
  <2> QED BY <1>4, <1>6, SparesTrans
<1> HIDE DEF e, u, i
<1>8. Spares(i, s, {t})
  BY <1>3, <1>5, <1>7 DEF Spares, KeepsTimely, Timely, SameTimer, OffLists, OnWait
<1>9. i.stat[t] = "SUSPEND"
  BY <1>3 DEF OnlyStat
<1> QED BY <1>1, <1>3, <1>8, <1>9, TimeoutSpares

\* Waking a waiter touches only the timer of the waiter.
LEMMA WakeSpares ==
  ASSUME NEW s, NEW T, Sound(s, T), NEW w \in WaitList, NEW t \in Thread,
         Contains(s.wait[w], t), NEW e \in Error
  PROVE  /\ Spares(Answer(s, t, e), s, {})
         /\ Spares([ResumeThread(s, t) EXCEPT !.error[t] = e], s, {})
         /\ Spares(ResumeThread(s, t), s, {})
<1>0. ~OffLists(s, t)
  BY DEF OffLists
<1>1. Spares(ResumeThread(s, t), s, {})
  BY <1>0, SuspendResumeSpare, SparesWaiter
<1>2. Spares([ResumeThread(s, t) EXCEPT !.error[t] = e], s, {})
  <2> DEFINE u == ResumeThread(s, t)
  <2>1. s.stat[t] = "SUSPEND" /\ t \notin T
    BY DEF Sound, WaitSound
  <2>2. Sound(u, T)
    BY <2>1, ResumeThreadSound
  <2> HIDE DEF u
  <2>3. Spares([u EXCEPT !.error[t] = e], u, {})
    BY <2>2, ErrorSpares
  <2> QED BY <1>1, <2>3, SparesTrans DEF u
<1>3. Spares(Answer(s, t, e), s, {})
  <2> DEFINE q == [s EXCEPT !.error[t] = e]
  <2>1. Sound(q, T) /\ q.wait = s.wait /\ Spares(q, s, {})
    BY SetErrorSound, ErrorSpares
  <2>2. Answer(s, t, e) = ResumeThread(q, t)
    BY DEF Answer
  <2> HIDE DEF q
  <2>3. ~OffLists(q, t)
    BY <1>0, <2>1 DEF OffLists
  <2>4. Spares(ResumeThread(q, t), q, {})
    BY <2>1, <2>3, SuspendResumeSpare, SparesWaiter
  <2> QED BY <2>1, <2>2, <2>4, SparesTrans
<1> QED BY <1>1, <1>2, <1>3

\* The tick handler touches a timer at the tick it has been set to.
LEMMA TickSpares ==
  ASSUME NEW T, Sound(k, T), CurrentSound(k, T), TickStep,
         Timely(k, IF isr = "none" THEN 1 ELSE 0), NEW u \in Thread
  PROVE  \/ SameTimer(k', k, u)
         \/ ~Contains(k'.timers, u) /\ k.timeout[u] = k.tick
<1>0. /\ k \in KernelState /\ k.timers \in Seq(Thread) /\ IsInjective(k.timers)
      /\ k.tick \in 0 .. TickMod - 1 /\ k.timeout \in [Thread -> 0 .. TickMod - 1]
  BY DEF Sound, KernelState, ListsSound, Tick
<1>1. CASE TickEnter
  <2>1. k'.timers = k.timers /\ k'.timeout = k.timeout
    BY <1>1, TickIncreaseSound DEF TickEnter
  <2> QED BY <2>1 DEF SameTimer
<1>2. CASE TimerExpire
  <2> DEFINE t == Head(k.timers)
             s == TimerStop(k, t)
             b == k.timeout[t]
  <2>1. /\ t \in Thread /\ Contains(k.timers, t) /\ t = k.timers[1]
        /\ 1 \in 1 .. Len(k.timers)
    BY <1>0, <1>2, HeadFacts DEF TimerExpire, TimerExpired
  <2>2. k.stat[t] = "SUSPEND" /\ t \notin T
    BY <2>1 DEF Sound, TimersSound
  <2>3. k' = ThreadTimeout(s, t) /\ isr = "tick"
    BY <1>2 DEF TimerExpire
  <2>4. (k.tick - b) % TickMod < TickHalf
    BY <1>2 DEF TimerExpire, TimerExpired, TicksFrom
  <2>5. (b - k.tick) % TickMod < TickHalf
    <3>1. (k.timeout[k.timers[1]] - k.tick) % TickMod \in 0 .. TickHalf - 1
      BY <2>1, <2>3 DEF Timely, ByExpiry
    <3> QED BY <2>1, <3>1, TickHalfFacts
  <2>6. b \in 0 .. TickMod - 1
    BY <1>0, <2>1
  <2>7. s.timeout = [k.timeout EXCEPT ![t] = 0]
    BY <1>0 DEF TimerStop, KernelState
  <2> HIDE DEF t
  <2>8. /\ Sound(s, T) /\ SameThreads(s, k)
        /\ \A x : Contains(s.timers, x) <=> Contains(k.timers, x) /\ x # t
    <3>1. Sound(k, T) /\ t \in Thread
      BY <2>1
    <3> QED BY <3>1, TimerStopSound, ZenonT(60)
  <2> HIDE DEF s
  <2>9. CurrentSound(s, T) /\ s.stat[t] = "SUSPEND" /\ ~Contains(s.timers, t)
    BY <2>2, <2>8 DEF CurrentSound, SameThreads
  <2>10. k'.timers = s.timers /\ SameClock(k', s)
    BY <2>1, <2>2, <2>3, <2>8, <2>9, ThreadTimeoutSound
  <2> HIDE DEF b
  <2>11. b = k.tick
    <3>1. /\ (k.tick - b) % TickMod = IF k.tick < b THEN k.tick - b + TickMod
                                                    ELSE k.tick - b
          /\ (b - k.tick) % TickMod = IF b < k.tick THEN b - k.tick + TickMod
                                                    ELSE b - k.tick
      <4>1. /\ TickMod \in Nat /\ TickMod > 0
            /\ b \in 0 .. TickMod - 1 /\ k.tick \in 0 .. TickMod - 1
        BY <1>0, <2>6, TickHalfFacts
      <4>2. ASSUME NEW x \in 0 .. TickMod - 1, NEW y \in 0 .. TickMod - 1
            PROVE  (x - y) % TickMod = IF x < y THEN x - y + TickMod ELSE x - y
        <5>1. /\ x - y \in Int /\ -TickMod < x - y /\ x - y < 2 * TickMod
              /\ x - y < TickMod /\ (x - y < 0 <=> x < y)
          BY <4>1
        <5> QED BY <4>1, <5>1, WrapFacts
      <4> QED BY <4>1, <4>2
    <3> QED BY <1>0, <2>4, <2>5, <2>6, <3>1, TickHalfFacts
  <2>12. CASE u = t
    BY <2>8, <2>10, <2>11, <2>12 DEF b
  <2>13. CASE u # t
    BY <1>0, <2>7, <2>8, <2>10, <2>13 DEF SameTimer, SameClock
  <2> QED BY <2>12, <2>13
<1>3. CASE TickExit
  BY <1>3 DEF TickExit, SameTimer
<1> QED BY <1>1, <1>2, <1>3 DEF TickStep

-----------------------------------------------------------------------------
(* rt_ipc_list_resume_all *)

\* The threads of X, all of them waiters, have been told e and made ready.
AllWoken(r, s, X, e) ==
  /\ r.cur = s.cur /\ r.nest = s.nest /\ r.prio = s.prio /\ r.tick = s.tick
  /\ \A x \in Thread :
        r.stat[x] = IF x \in X THEN IF x = s.cur THEN "RUNNING" ELSE "READY"
                               ELSE s.stat[x]
  /\ \A v \in WaitList, x \in Thread :
        Contains(r.wait[v], x) <=> Contains(s.wait[v], x) /\ x \notin X
  /\ \A x \in Thread : r.error[x] = IF x \in X THEN e ELSE s.error[x]
  /\ \A x \in Thread : Contains(r.timers, x) <=> Contains(s.timers, x) /\ x \notin X

\* One more waiter is told.
LEMMA OneMoreWoken ==
  ASSUME NEW s, NEW r, NEW z, NEW T, NEW X, NEW e, NEW t \in Thread,
         AllWoken(r, s, X, e), Woken(z, r, T, t, e), t \notin X
  PROVE  AllWoken(z, s, X \cup {t}, e)
BY DEF AllWoken, Woken, OnlyStat, OffWaits, Told

\* One round of the loop.
TurnAway(r, t) == Answer(r, t, "ERROR")

\* One more waiter is turned away.
LEMMA TurnAwayRound ==
  ASSUME NEW s, NEW r, NEW T, NEW X, NEW w \in WaitList, NEW t \in Thread,
         Sound(r, T), AllWoken(r, s, X, "ERROR"), Contains(s.wait[w], t), t \notin X
  PROVE  /\ Sound(TurnAway(r, t), T)
         /\ AllWoken(TurnAway(r, t), s, X \cup {t}, "ERROR")
<1> DEFINE q == TurnAway(r, t)
<1>1. Contains(r.wait[w], t)
  BY DEF AllWoken
<1>2. Woken(q, r, T, t, "ERROR")
  BY <1>1, TellAndResume DEF TurnAway, Error
<1> HIDE DEF q
<1>3. AllWoken(q, s, X \cup {t}, "ERROR")
  BY <1>2, OneMoreWoken
<1> QED BY <1>2, <1>3 DEF Woken, q

\* The fold over a list, one element at a time: what FoldLeft stands for is a
\* function on the sets of positions, and rounds(i) its value on the first i.
LEMMA ResumeAllRounds ==
  ASSUME NEW s, NEW w \in WaitList, s.wait[w] \in Seq(Thread)
  PROVE  \E rounds :
           /\ rounds[0] = s
           /\ \A i \in 1 .. Len(s.wait[w]) :
                 rounds[i] = TurnAway(rounds[i-1], s.wait[w][i])
           /\ rounds[Len(s.wait[w])] = IpcListResumeAll(s, w)
<1> DEFINE list == s.wait[w]
           n == Len(list)
           Body(g, m) == [S \in SUBSET (1 .. m) |->
                            IF S = {} THEN s
                            ELSE TurnAway(g[S \ {Max(S)}], list[Max(S)])]
           Has == {m \in 0 .. n : \E g : g = Body(g, m)}
<1>0. n \in Nat /\ DOMAIN list = 1 .. n
  OBVIOUS
<1>1. IpcListResumeAll(s, w) = (CHOOSE g : g = Body(g, n))[1 .. n]
  BY <1>0 DEF IpcListResumeAll, FoldLeft, MapThenFoldSet, TurnAway, Answer
<1> HIDE DEF list, n
<1>2. 0 \in Has
  <2> DEFINE g == [S \in SUBSET (1 .. 0) |-> s]
  <2>1. SUBSET (1 .. 0) = {{}}
    OBVIOUS
  <2>2. g = Body(g, 0)
    BY <2>1
  <2> QED BY <1>0, <2>2
<1>3. ASSUME NEW m \in 0 .. n - 1, m \in Has PROVE m + 1 \in Has
  <2>1. PICK h : h = Body(h, m)
    BY <1>3
  <2> DEFINE g == [S \in SUBSET (1 .. m + 1) |->
                     IF m + 1 \in S
                     THEN TurnAway(h[S \ {m + 1}], list[m + 1]) ELSE h[S]]
  <2>2. ASSUME NEW S \in SUBSET (1 .. m + 1)
        PROVE  g[S] = IF S = {} THEN s
                      ELSE TurnAway(g[S \ {Max(S)}], list[Max(S)])
    <3>1. CASE m + 1 \in S
      <4>1. Max(S) = m + 1
        <5>1. m + 1 \in Nat
          BY <1>0
        <5> QED BY <3>1, <5>1, MaxOfUpTo
      <4>2. /\ S \ {m + 1} \in SUBSET (1 .. m + 1) /\ m + 1 \notin S \ {m + 1}
        OBVIOUS
      <4>3. g[S \ {m + 1}] = h[S \ {m + 1}]
        BY <4>2
      <4>4. g[S] = TurnAway(h[S \ {m + 1}], list[m + 1])
        BY <3>1
      <4> HIDE DEF g
      <4> QED BY <3>1, <4>1, <4>3, <4>4
    <3>2. CASE m + 1 \notin S
      <4>1. S \in SUBSET (1 .. m) /\ S \ {Max(S)} \in SUBSET (1 .. m)
        <5>1. \A y \in S : y \in 1 .. m + 1 /\ y # m + 1
          BY <3>2
        <5>2. \A y \in S : y \in 1 .. m
          BY <1>0, <5>1
        <5> QED BY <5>2
      <4>2. g[S] = h[S]
        BY <3>2
      <4>3. g[S \ {Max(S)}] = h[S \ {Max(S)}]
        <5>1. /\ S \ {Max(S)} \in SUBSET (1 .. m + 1)
              /\ m + 1 \notin S \ {Max(S)}
          BY <3>2
        <5> QED BY <5>1
      <4>4. h[S] = IF S = {} THEN s
                   ELSE TurnAway(h[S \ {Max(S)}], list[Max(S)])
        BY <2>1, <4>1
      <4> HIDE DEF g
      <4> QED BY <4>2, <4>3, <4>4
    <3> QED BY <3>1, <3>2
  <2>3. g = Body(g, m + 1)
    <3> DEFINE b == Body(g, m + 1)
    <3>1. \A S \in SUBSET (1 .. m + 1) : g[S] = b[S]
      BY <2>2
    <3>2. /\ g = [S \in SUBSET (1 .. m + 1) |-> g[S]]
          /\ b = [S \in SUBSET (1 .. m + 1) |-> b[S]]
      OBVIOUS
    <3> HIDE DEF g, b
    <3>3. [S \in SUBSET (1 .. m + 1) |-> g[S]]
             = [S \in SUBSET (1 .. m + 1) |-> b[S]]
      BY <3>1
    <3>4. g = b
      BY <3>2, <3>3, Zenon
    <3> QED BY <3>4 DEF b
  <2>4. m + 1 \in 0 .. n
    BY <1>0
  <2> HIDE DEF g
  <2> QED BY <2>3, <2>4
<1>4. n \in Has
  <2> HIDE DEF Has
  <2>1. \A i \in 0 .. n : i \in Has
    BY <1>0, <1>2, <1>3, SetInduction
  <2> QED BY <1>0, <2>1
<1> DEFINE iter == CHOOSE g : g = Body(g, n)
<1>5. iter = Body(iter, n)
  BY <1>4
<1> HIDE DEF iter
<1> DEFINE rounds == [i \in 0 .. n |-> iter[1 .. i]]
<1>6. rounds[0] = s
  <2>1. 1 .. 0 = {} /\ {} \in SUBSET (1 .. n)
    OBVIOUS
  <2>2. iter[{}] = s
    BY <1>5, <2>1
  <2> QED BY <1>0, <2>1, <2>2
<1>7. ASSUME NEW i \in 1 .. n
      PROVE  rounds[i] = TurnAway(rounds[i-1], list[i])
  <2>1. /\ 1 .. i \in SUBSET (1 .. n) /\ 1 .. i # {} /\ i \in 1 .. i
        /\ (1 .. i) \ {i} = 1 .. i - 1
    <3> HIDE DEF rounds
    <3>1. i \in Nat /\ 1 <= i /\ i <= n
      BY <1>0
    <3>2. \A y : y \in 1 .. i => y \in 1 .. n
      BY <1>0, <3>1
    <3>3. \A y : y \in (1 .. i) \ {i} <=> y \in 1 .. i - 1
      BY <3>1
    <3> QED BY <3>1, <3>2, <3>3
  <2>2. Max(1 .. i) = i
    BY <1>0, <2>1, MaxOfUpTo
  <2>3. iter[1 .. i] = TurnAway(iter[1 .. i - 1], list[i])
    BY <1>5, <2>1, <2>2
  <2>4. rounds[i] = iter[1 .. i] /\ rounds[i-1] = iter[1 .. i - 1]
    BY <1>0
  <2> QED BY <2>3, <2>4
<1>8. rounds[n] = IpcListResumeAll(s, w)
  BY <1>0, <1>1 DEF iter
<1> HIDE DEF rounds
<1> QED BY <1>6, <1>7, <1>8 DEF n, list

\* rt_ipc_list_resume_all: every waiter of the list is told of an error and
\* made ready, and nobody else is touched.
LEMMA ResumeAllSound ==
  ASSUME NEW s, NEW T, NEW w \in WaitList, Sound(s, T)
  PROVE  LET r == IpcListResumeAll(s, w)
         IN  /\ Sound(r, T)
             /\ AllWoken(r, s, {x \in Thread : Contains(s.wait[w], x)}, "ERROR")
             /\ KeepsOrder(r, s) /\ Spares(r, s, {})
<1> DEFINE list == s.wait[w]
           n == Len(list)
           First(i) == {list[j] : j \in 1 .. i}
<1>0. list \in Seq(Thread) /\ IsInjective(list) /\ n \in Nat
  BY DEF Sound, KernelState, ListsSound
<1>1. PICK rounds :
         /\ rounds[0] = s
         /\ \A i \in 1 .. n : rounds[i] = TurnAway(rounds[i-1], list[i])
         /\ rounds[n] = IpcListResumeAll(s, w)
  BY <1>0, ResumeAllRounds
<1>2. \A i \in 1 .. n : list[i] \in Thread /\ Contains(s.wait[w], list[i])
  BY <1>0 DEF Contains
<1>3. \A i, j \in 1 .. n : list[i] = list[j] => i = j
  BY <1>0 DEF IsInjective
<1> HIDE DEF list, n
<1> DEFINE Good(i) == /\ Sound(rounds[i], T)
                      /\ AllWoken(rounds[i], s, First(i), "ERROR")
                      /\ KeepsOrder(rounds[i], s) /\ Spares(rounds[i], s, {})
           Holds == {i \in 0 .. n : Good(i)}
<1>4. 0 \in Holds
  <2>1. First(0) = {}
    OBVIOUS
  <2>2. AllWoken(s, s, {}, "ERROR")
    BY DEF AllWoken
  <2>3. Spares(s, s, {})
    BY SparesSame DEF SameClock
  <2>4. Good(0)
    <3> HIDE DEF First
    <3> QED BY <1>1, <2>1, <2>2, <2>3, SameOrder
  <2> HIDE DEF Good
  <2> QED BY <1>0, <2>4
<1>5. ASSUME NEW i \in 0 .. n - 1, i \in Holds PROVE i + 1 \in Holds
  <2> DEFINE t == list[i + 1]
             q == rounds[i]
             e == [q EXCEPT !.error[t] = "ERROR"]
  <2>1. i + 1 \in 1 .. n /\ (i + 1) - 1 = i
    BY <1>0
  <2>2. t \in Thread /\ Contains(s.wait[w], t)
    BY <1>2, <2>1
  <2>3. t \notin First(i)
    BY <1>0, <1>3, <2>1
  <2>4. First(i + 1) = First(i) \cup {t}
    BY <1>0
  <2>5. rounds[i + 1] = TurnAway(q, t)
    BY <1>1, <2>1
  <2>6. /\ Sound(q, T) /\ AllWoken(q, s, First(i), "ERROR") /\ KeepsOrder(q, s)
        /\ Spares(q, s, {})
    <3>1. Good(i)
      <4> HIDE DEF Good
      <4> QED BY <1>5
    <3> HIDE DEF First
    <3> QED BY <3>1
  <2> HIDE DEF First, t, q
  <2>7. /\ Sound(TurnAway(q, t), T)
        /\ AllWoken(TurnAway(q, t), s, First(i) \cup {t}, "ERROR")
    BY <2>2, <2>3, <2>6, TurnAwayRound
  <2>8. KeepsOrder(TurnAway(q, t), s)
    <3>1. Sound(e, T) /\ e.wait = q.wait
      BY <2>2, <2>6, SetErrorSound DEF Error
    <3>2. TurnAway(q, t) = ResumeThread(e, t)
      BY DEF TurnAway, Answer
    <3> HIDE DEF e
    <3>3. KeepsOrder(ResumeThread(e, t), e)
      BY <2>2, <3>1, ResumeOrder
    <3> QED BY <2>6, <3>1, <3>2, <3>3 DEF KeepsOrder
  <2>9. Spares(TurnAway(q, t), s, {})
    <3>1. Contains(q.wait[w], t)
      BY <2>2, <2>3, <2>6 DEF AllWoken
    <3>2. Spares(TurnAway(q, t), q, {})
      BY <2>2, <2>6, <3>1, WakeSpares DEF TurnAway, Error
    <3> QED BY <2>6, <3>2, SparesTrans
  <2>10. Good(i + 1)
    BY <2>4, <2>5, <2>7, <2>8, <2>9
  <2> HIDE DEF Good
  <2> QED BY <1>0, <2>10
<1>6. n \in Holds
  <2> HIDE DEF Holds
  <2>1. \A i \in 0 .. n : i \in Holds
    BY <1>0, <1>4, <1>5, SetInduction
  <2> QED BY <1>0, <2>1
<1>7. First(n) = {x \in Thread : Contains(s.wait[w], x)}
  BY <1>0, <1>2 DEF list, n, Contains
<1>8. Good(n)
  <2> HIDE DEF Good
  <2> QED BY <1>6
<1> HIDE DEF First
<1> QED BY <1>1, <1>7, <1>8

=============================================================================
