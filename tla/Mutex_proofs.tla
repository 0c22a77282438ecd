---------------------------- MODULE Mutex_proofs ----------------------------
(***************************************************************************)
(* The mutexes keep their wait lists in order and their owners ahead of    *)
(* the waiters, and each implements a recursive lock, for any number of    *)
(* threads, mutexes, priorities and timeouts and chains of any length, as  *)
(* long as no thread sleeps with a mutex left in thread->pending_object.   *)
(***************************************************************************)
EXTENDS Mutex, Kernel_proofs

-----------------------------------------------------------------------------
(* What holds of a kernel record s and mutexes x, between any two calls of *)
(* a function that changes priorities                                      *)

\* Who is on a wait list has it in thread->pending_object, and the mutex is in
\* use and has an owner.
Queued(s, x) ==
  \A m \in WaitList, t \in Thread :
     Contains(s.wait[m], t) => x.pending[t] = m /\ x.linked[m] /\ x.owner[m] # None

Ordered(s) == \A m \in WaitList : Sorted(s.wait[m], s.prio)

\* mutex->priority is never behind a waiter.
Known(s, x) ==
  \A m \in WaitList, t \in Thread :
     Contains(s.wait[m], t) => x.mprio[m] <= s.prio[t]

\* An owner other than n is not behind mutex->priority.
Inherits(s, x, n) ==
  \A m \in WaitList :
     x.linked[m] /\ x.owner[m] \notin {None, n} => s.prio[x.owner[m]] <= x.mprio[m]

Mutexes(s, x, n) ==
  /\ x \in MutexState
  /\ Queued(s, x) /\ Ordered(s) /\ Known(s, x) /\ Inherits(s, x, n)

\* A thread not in D that is suspended with a mutex in thread->pending_object
\* waits for it; those of D own nothing.
Asleep(s, x, D) ==
  /\ \A t \in Thread \ D :
        s.stat[t] = "SUSPEND" /\ x.pending[t] # None
          => Contains(s.wait[x.pending[t]], t)
  /\ \A m \in WaitList : x.owner[m] \notin D

\* A function that changes priorities is at (s, x), and the priority of next,
\* if it is not None, is still to be changed.
LoopOK(s, x, next, T, D) ==
  /\ Sound(s, T) /\ CurrentSound(s, T)
  /\ Mutexes(s, x, next) /\ Asleep(s, x, D)
  /\ next # None => next \in Thread /\ next \notin D

-----------------------------------------------------------------------------
(* The invariant *)

Taking == {"take_sched", "take_return"}

Dead == {t \in Thread : pc[t] = "dead"}

ControlOK ==
  /\ isr \in {"none", "tick"}
  /\ pc \in [Thread -> PC]
  /\ mutex \in [Thread -> WaitList \cup {None}]
  /\ target \in [Thread -> Thread]

\* Only a thread that has just suspended itself may be current and not running.
CurrentRuns == k.stat[k.cur] = "RUNNING" \/ pc[k.cur] \in {"take_sched", "post_sched"}

IdleCanRun == k.stat[Idle] \in {"READY", "RUNNING"}

\* A waiter is in rt_mutex_take of this mutex and has been told nothing yet;
\* who is suspended in a take waits, and who has been told RT_EOK is the owner.
ThreadOK(t) ==
  /\ \A m \in WaitList :
        Contains(k.wait[m], t) => mutex[t] = m /\ pc[t] \in Taking /\ k.error[t] = "EOK"
  /\ pc[t] \in {"run", "post_sched", "drop"} => mutex[t] = None
  /\ pc[t] \in Taking =>
        /\ mutex[t] \in WaitList
        /\ k.stat[t] = "SUSPEND" => Contains(k.wait[mutex[t]], t)
        /\ k.error[t] = "EOK" /\ ~Contains(k.wait[mutex[t]], t)
             => mx.owner[mutex[t]] = t

\* A deleted thread does not come back; while it is being deleted it is
\* suspended on no list, and one thread deletes it.
DeadStay ==
  \A t \in Thread :
     /\ pc[t] = "dead" =>
          k.stat[t] \in {"SUSPEND", "CLOSE"} /\ ~Contains(k.timers, t)
     /\ pc[t] = "drop" =>
          /\ pc[target[t]] = "dead" /\ k.stat[target[t]] = "SUSPEND"
          /\ mx.pending[target[t]] \in WaitList
          /\ \A u \in Thread : pc[u] = "drop" /\ target[u] = target[t] => u = t

HeldIfOwned == \A m \in WaitList : mx.owner[m] = None <=> mx.hold[m] = 0

IInv ==
  /\ ControlOK
  /\ LoopOK(k, mx, None, {}, Dead) /\ k.nest = 0
  /\ CurrentRuns /\ IdleCanRun
  /\ \A t \in Thread : ThreadOK(t)
  /\ DeadStay /\ HeldIfOwned

-----------------------------------------------------------------------------
(* Priorities *)

\* The priorities are numbers, and NoPrio is behind them all.
LEMMA PrioFacts ==
  /\ Prio \subseteq Nat /\ NoPrio \in Nat /\ 0 .. NoPrio \subseteq Nat
  /\ \A p \in Prio : p < NoPrio /\ p <= NoPrio /\ p \in 0 .. NoPrio
  /\ \A p \in 0 .. NoPrio, q \in Prio : p <= q => p \in Prio
  /\ 1 \in 0 .. HoldMax /\ 0 \in 0 .. HoldMax /\ NoPrio \in 0 .. NoPrio
  /\ None \notin Thread /\ None \notin WaitList
BY KernelAssumption, MutexAssumption DEF Prio, NoPrio

\* The priority a thread should have is its own, that of a mutex it has or a
\* ceiling, and ahead of none of them.
LEMMA GetMutexPrioFacts ==
  ASSUME NEW x \in MutexState, NEW t \in Thread
  PROVE  /\ GetMutexPrio(x, t) \in Prio
         /\ \A m \in Taken(x, t) : GetMutexPrio(x, t) <= x.mprio[m]
<1> DEFINE S == {InitPrio[t]} \cup {x.mprio[m] : m \in Taken(x, t)}
                              \cup {x.ceiling[m] : m \in Taken(x, t)}
<1>1. InitPrio[t] \in Prio
  BY MutexAssumption
<1>2. \A m \in Taken(x, t) : x.mprio[m] \in 0 .. NoPrio /\ x.ceiling[m] \in 0 .. NoPrio
  BY DEF MutexState, Taken
<1>3. S \subseteq 0 .. NoPrio
  BY <1>1, <1>2, PrioFacts
<1>4. InitPrio[t] \in S /\ \A m \in Taken(x, t) : x.mprio[m] \in S
  OBVIOUS
<1>5. GetMutexPrio(x, t) = Min(S)
  BY DEF GetMutexPrio
<1> HIDE DEF S
<1>6. S \subseteq Nat /\ S # {}
  BY <1>3, <1>4
<1>7. Min(S) \in S /\ \A y \in S : Min(S) <= y
  BY <1>6, MinOfNat
<1>8. Min(S) \in Prio
  BY <1>1, <1>3, <1>4, <1>7, PrioFacts
<1> QED BY <1>4, <1>5, <1>7, <1>8

\* Another exempted owner, if it needs no exemption.
LEMMA InheritsWeaker ==
  ASSUME NEW s, NEW x, NEW n, Mutexes(s, x, None)
  PROVE  Mutexes(s, x, n)
BY DEF Mutexes, Inherits

\* What is asked of the mutexes before the priority of m is worked out anew:
\* either its waiters have not moved ahead of it, or its owner n is exempted.
Stale(s, x, n, m) ==
  /\ x \in MutexState
  /\ Queued(s, x) /\ Ordered(s) /\ Inherits(s, x, n)
  /\ \A w \in WaitList, t \in Thread :
        Contains(s.wait[w], t) /\ (w # m \/ x.owner[m] # n) => x.mprio[w] <= s.prio[t]

\* The priority of a mutex after _mutex_update_priority.
LEMMA UpdateMutexPrioSets ==
  ASSUME NEW s, NEW x, NEW n, NEW T, NEW m \in WaitList, Sound(s, T),
         Stale(s, x, n, m)
  PROVE  LET y == UpdateMutexPrio(s, x, m)
         IN  /\ Mutexes(s, y, n)
             /\ y.owner = x.owner /\ y.hold = x.hold /\ y.ceiling = x.ceiling
             /\ y.linked = x.linked /\ y.pending = x.pending
<1> DEFINE list == s.wait[m]
           p == IF list = <<>> THEN NoPrio ELSE s.prio[Head(list)]
           y == UpdateMutexPrio(s, x, m)
<1>1. /\ list \in Seq(Thread)
      /\ \A t \in Thread : s.prio[t] \in Prio
      /\ Sorted(list, s.prio) /\ x \in MutexState
  BY DEF Sound, KernelState, Stale, Ordered
<1>2. list # <<>> => Head(list) \in Thread /\ Contains(list, Head(list))
  BY <1>1, HeadFacts
<1>3. p \in 0 .. NoPrio
  <2>1. NoPrio \in 0 .. NoPrio /\ \A q \in Prio : q \in 0 .. NoPrio
    BY PrioFacts
  <2> QED BY <1>1, <1>2, <2>1
<1>4. ASSUME NEW t \in Thread, Contains(list, t)
      PROVE  p <= s.prio[t]
  <2>1. PICK j \in 1 .. Len(list) : list[j] = t
    BY <1>1, <1>4 DEF Contains
  <2>2. list # <<>> /\ Head(list) = list[1] /\ 1 \in 1 .. Len(list) /\ j \in Nat
    BY <1>1, <2>1
  <2>3. 1 < j => s.prio[list[1]] <= s.prio[list[j]]
    BY <1>1, <2>1, <2>2 DEF Sorted
  <2>4. s.prio[list[1]] \in Nat /\ s.prio[t] \in Nat
    BY <1>1, <1>2, <2>2, PrioFacts
  <2> QED BY <2>1, <2>2, <2>3, <2>4
<1>5. x.owner[m] # n => x.mprio[m] <= p
  <2>1. x.mprio[m] \in 0 .. NoPrio
    BY <1>1 DEF MutexState
  <2>2. CASE list = <<>>
    BY <2>1, <2>2, PrioFacts
  <2>3. CASE list # <<>>
    BY <1>2, <2>3 DEF Stale
  <2> QED BY <2>2, <2>3
<1>6. y = [x EXCEPT !.mprio[m] = p]
  BY DEF UpdateMutexPrio
<1> HIDE DEF p, y
<1>7. /\ y \in MutexState
      /\ y.owner = x.owner /\ y.hold = x.hold /\ y.ceiling = x.ceiling
      /\ y.linked = x.linked /\ y.pending = x.pending
      /\ y.mprio[m] = p
      /\ \A w \in WaitList : w # m => y.mprio[w] = x.mprio[w]
  BY <1>1, <1>3, <1>6 DEF MutexState
<1>8. Known(s, y)
  BY <1>4, <1>7 DEF Stale, Known
<1>9. Inherits(s, y, n)
  <2>1. ASSUME NEW w \in WaitList, y.linked[w], y.owner[w] \notin {None, n}
        PROVE  s.prio[y.owner[w]] <= y.mprio[w]
    <3>1. s.prio[x.owner[w]] <= x.mprio[w] /\ x.owner[w] \in Thread
      BY <1>7, <2>1 DEF Stale, Inherits, MutexState
    <3>2. s.prio[x.owner[w]] \in Nat /\ x.mprio[w] \in Nat /\ p \in Nat
      <4>1. s.prio[x.owner[w]] \in Prio /\ x.mprio[w] \in 0 .. NoPrio /\ p \in 0 .. NoPrio
        BY <1>1, <1>3, <3>1 DEF MutexState
      <4> QED BY <4>1, PrioFacts
    <3>3. CASE w = m
      BY <1>5, <1>7, <2>1, <3>1, <3>2, <3>3
    <3>4. CASE w # m
      BY <1>7, <3>1, <3>4
    <3> QED BY <3>3, <3>4
  <2> QED BY <2>1 DEF Inherits
<1>10. Queued(s, y) /\ Ordered(s)
  BY <1>7 DEF Stale, Queued
<1> QED BY <1>7, <1>8, <1>9, <1>10 DEF Mutexes, y

\* If nothing has moved, nothing can go wrong.
LEMMA UpdateMutexPrioKeeps ==
  ASSUME NEW s, NEW x, NEW n, NEW T, NEW m \in WaitList, Sound(s, T),
         Mutexes(s, x, n)
  PROVE  LET y == UpdateMutexPrio(s, x, m)
         IN  /\ Mutexes(s, y, n)
             /\ y.owner = x.owner /\ y.hold = x.hold /\ y.ceiling = x.ceiling
             /\ y.linked = x.linked /\ y.pending = x.pending
<1>1. Stale(s, x, n, m)
  BY DEF Stale, Mutexes, Known
<1> QED BY <1>1, UpdateMutexPrioSets

-----------------------------------------------------------------------------
(* _thread_update_priority *)

\* Priorities and the order of the lists may change from s, x to r, y; who
\* waits where, who owns what and all else are the same.
Reprioritised(r, y, s, x) ==
  /\ r.cur = s.cur /\ r.nest = s.nest /\ r.stat = s.stat
  /\ r.timers = s.timers /\ r.error = s.error
  /\ \A w \in WaitList, t \in Thread : Contains(r.wait[w], t) <=> Contains(s.wait[w], t)
  /\ y.owner = x.owner /\ y.hold = x.hold
  /\ y.linked = x.linked /\ y.pending = x.pending

\* Off its wait list, a suspended thread is on none; its timer may run.
LEMMA UnlinkWaiter ==
  ASSUME NEW s, NEW T, NEW t \in Thread, Sound(s, T), t \notin T,
         s.stat[t] = "SUSPEND"
  PROVE  LET r == ListRemove(s, t)
         IN  /\ Sound(r, T) /\ SameThreads(r, s)
             /\ r.timers = s.timers /\ r.error = s.error
             /\ OffWaits(r, s, t) /\ KeepsOrder(r, s)
<1> DEFINE r == ListRemove(s, t)
<1>0. /\ s \in KernelState
      /\ \A p \in Prio : s.ready[p] \in Seq(Thread) /\ IsInjective(s.ready[p])
      /\ \A w \in WaitList : s.wait[w] \in Seq(Thread) /\ IsInjective(s.wait[w])
      /\ s.defunct \in Seq(Thread) /\ IsInjective(s.defunct)
  BY DEF Sound, KernelState, ListsSound
<1>1. \A p \in Prio : ~Contains(s.ready[p], t)
  BY DEF Sound, ReadySound
<1>2. ~Contains(s.defunct, t)
  BY DEF Sound, DefunctSound
<1>3. \A p \in Prio : RemoveFirst(s.ready[p], t) = s.ready[p]
  BY <1>0, <1>1, RemoveFirstFacts
<1>4. RemoveFirst(s.defunct, t) = s.defunct
  BY <1>0, <1>2, RemoveFirstFacts
<1>5. \A w \in WaitList : /\ RemoveFirst(s.wait[w], t) \in Seq(Thread)
                          /\ IsInjective(RemoveFirst(s.wait[w], t))
  BY <1>0, RemoveFirstFacts
<1>6. /\ r \in KernelState
      /\ r.ready = s.ready /\ r.defunct = s.defunct
      /\ r.wait = [w \in WaitList |-> RemoveFirst(s.wait[w], t)]
      /\ r.group = s.group
  BY <1>0, <1>3, <1>4, <1>5 DEF KernelState, ListRemove
<1>7. /\ SameThreads(r, s) /\ r.timers = s.timers /\ r.error = s.error
  BY UnlinkFacts
<1>8. OffWaits(r, s, t) /\ KeepsOrder(r, s)
  BY UnlinkWaits, UnlinkOrder
<1> HIDE DEF r
<1>9. ListsSound(r)
  BY <1>5, <1>6, <1>7 DEF Sound, ListsSound
<1>10. ReadySound(r, T) /\ DefunctSound(r, T) /\ TimersSound(r, T)
  BY <1>6, <1>7 DEF Sound, ReadySound, DefunctSound, TimersSound, SameThreads
<1>11. WaitSound(r, T)
  BY <1>7, <1>8 DEF Sound, WaitSound, SameThreads, OffWaits
<1> QED BY <1>6, <1>7, <1>8, <1>9, <1>10, <1>11 DEF Sound, r

\* Who waits where is the same in r and s, and the lists are in order, that of
\* m if it is without t.
Requeued(r, s, m, t) ==
  /\ SameThreads(r, s) /\ r.timers = s.timers /\ r.error = s.error
  /\ \A w \in WaitList, x \in Thread :
        Contains(r.wait[w], x) <=> Contains(s.wait[w], x)
  /\ \A w \in WaitList :
        w # m /\ Sorted(s.wait[w], s.prio) => Sorted(r.wait[w], s.prio)
  /\ Sorted(RemoveFirst(s.wait[m], t), s.prio) => Sorted(r.wait[m], s.prio)

\* A waiter whose priority has changed moves to its place in the same list.
LEMMA RequeueSound ==
  ASSUME NEW s, NEW T, NEW m \in WaitList, NEW t \in Thread, Sound(s, T),
         Contains(s.wait[m], t)
  PROVE  Sound(Requeue(s, m, t), T) /\ Requeued(Requeue(s, m, t), s, m, t)
<1> DEFINE q == ListRemove(s, t)
           r == WaitInsert(q, m, t, "PRIO")
<1>1. /\ t \notin T /\ s.stat[t] = "SUSPEND"
      /\ \A w \in WaitList : Contains(s.wait[w], t) => w = m
  BY DEF Sound, WaitSound
<1>2. /\ Sound(q, T) /\ SameThreads(q, s) /\ q.timers = s.timers /\ q.error = s.error
      /\ OffWaits(q, s, t) /\ KeepsOrder(q, s)
  BY <1>1, UnlinkWaiter
<1>3. q.wait[m] = RemoveFirst(s.wait[m], t)
  BY DEF Sound, KernelState, ListRemove
<1>4. r = Requeue(s, m, t)
  BY DEF Requeue
<1> HIDE DEF q
<1>5. q.stat[t] = "SUSPEND" /\ \A w \in WaitList : ~Contains(q.wait[w], t)
  BY <1>1, <1>2 DEF SameThreads, OffWaits
<1>6. /\ Sound(r, T) /\ SameThreads(r, q) /\ SameClock(r, q)
      /\ r.timers = q.timers /\ r.error = q.error
      /\ OnWait(r, q, m, t)
  BY <1>1, <1>2, <1>5, WaitInsertSound
<1>7. Sorted(q.wait[m], q.prio) => Sorted(r.wait[m], q.prio)
  BY <1>2, WaitInsertSorted
<1>8. \A w \in WaitList : w # m => r.wait[w] = q.wait[w]
  BY <1>2 DEF WaitInsert, Sound, KernelState
<1> HIDE DEF r
<1>9. \A w \in WaitList, x \in Thread :
         Contains(r.wait[w], x) <=> Contains(s.wait[w], x)
  BY <1>1, <1>2, <1>6 DEF OnWait, OffWaits
<1>10. ASSUME NEW w \in WaitList, w # m, Sorted(s.wait[w], s.prio)
       PROVE  Sorted(r.wait[w], s.prio)
  BY <1>2, <1>8, <1>10 DEF KeepsOrder
<1>11. SameThreads(r, s) /\ q.prio = s.prio
  BY <1>2, <1>6 DEF SameThreads
<1>12. Requeued(r, s, m, t)
  BY <1>2, <1>3, <1>6, <1>7, <1>9, <1>10, <1>11 DEF Requeued
<1> QED BY <1>4, <1>6, <1>12

\* A list is sorted by any priorities that are the same for its members.
LEMMA SortedSame ==
  ASSUME NEW s \in Seq(Thread), NEW key, NEW new, Sorted(s, key),
         \A x \in Thread : Contains(s, x) => new[x] = key[x]
  PROVE  Sorted(s, new)
<1>1. \A i \in 1 .. Len(s) : s[i] \in Thread /\ Contains(s, s[i])
  BY DEF Contains
<1>2. \A i \in 1 .. Len(s) : new[s[i]] = key[s[i]]
  BY <1>1
<1> QED BY <1>2 DEF Sorted

\* The priority p is not behind any mutex that t has.
Fits(x, t, p) == p \in Prio /\ \A m \in Taken(x, t) : p <= x.mprio[m]

\* A thread that waits for no mutex: its priority changes, and that is all.
LEMMA UpdateFirst ==
  ASSUME NEW s, NEW x, NEW t \in Thread, NEW p, NEW T, NEW D, T \subseteq D,
         LoopOK(s, x, t, T, D), t \notin D, Fits(x, t, p),
         s.stat[t] # "SUSPEND" \/ x.pending[t] = None
  PROVE  LET r == SetPriority(s, t, p)
         IN  LoopOK(r, x, None, T, D) /\ Reprioritised(r, x, s, x)
<1> DEFINE r == SetPriority(s, t, p)
<1>1. /\ Sound(s, T) /\ CurrentSound(s, T) /\ t \notin T /\ p \in Prio
      /\ x \in MutexState /\ t # None
  BY PrioFacts DEF LoopOK, Mutexes, Fits
<1>2. /\ Sound(r, T) /\ r.cur = s.cur /\ r.nest = s.nest
      /\ r.stat = s.stat /\ r.timers = s.timers
      /\ SameWaits(r, s) /\ SameClock(r, s)
  BY <1>1, SetPrioritySound
<1>3. r.prio = [s.prio EXCEPT ![t] = p] /\ s.prio \in [Thread -> Prio]
  <2>1. s.prio \in [Thread -> Prio]
    BY <1>1 DEF Sound, KernelState
  <2>2. r.prio = [s.prio EXCEPT ![t] = p]
    BY <1>1, SetPriorityPrio
  <2> QED BY <2>1, <2>2
<1> HIDE DEF r
<1>4. /\ r.wait = s.wait /\ r.error = s.error
      /\ \A u \in Thread : u # t => r.prio[u] = s.prio[u]
      /\ r.prio[t] = p
  <2>1. r.wait = s.wait /\ r.error = s.error
    BY <1>2 DEF SameWaits
  <2>2. r.prio[t] = p /\ \A u \in Thread : u # t => r.prio[u] = s.prio[u]
    BY <1>3
  <2> QED BY <2>1, <2>2
<1>5. \A m \in WaitList : ~Contains(s.wait[m], t)
  <2>1. ASSUME NEW m \in WaitList, Contains(s.wait[m], t)
        PROVE  FALSE
    BY <1>1, <2>1, PrioFacts DEF LoopOK, Mutexes, Queued, Sound, WaitSound
  <2> QED BY <2>1
<1>6. CurrentSound(r, T)
  BY <1>1, <1>2 DEF CurrentSound
<1>7. Ordered(r)
  <2>1. ASSUME NEW m \in WaitList PROVE Sorted(s.wait[m], r.prio)
    <3>1. s.wait[m] \in Seq(Thread) /\ Sorted(s.wait[m], s.prio)
      BY <1>1 DEF Sound, KernelState, LoopOK, Mutexes, Ordered
    <3>2. \A u \in Thread : Contains(s.wait[m], u) => r.prio[u] = s.prio[u]
      BY <1>4, <1>5
    <3> QED BY <3>1, <3>2, SortedSame
  <2> QED BY <1>4, <2>1 DEF Ordered
<1>8. Queued(r, x) /\ Known(r, x)
  BY <1>4, <1>5 DEF LoopOK, Mutexes, Queued, Known
<1>9. Inherits(r, x, None)
  <2>1. ASSUME NEW m \in WaitList, x.linked[m], x.owner[m] # None
        PROVE  r.prio[x.owner[m]] <= x.mprio[m]
    <3>1. CASE x.owner[m] = t
      BY <1>4, <2>1, <3>1 DEF Fits, Taken
    <3>2. CASE x.owner[m] # t
      <4>1. x.owner[m] \in Thread
        BY <1>1, <2>1 DEF MutexState
      <4> QED BY <1>4, <2>1, <3>2, <4>1 DEF LoopOK, Mutexes, Inherits
    <3> QED BY <3>1, <3>2
  <2> QED BY <2>1 DEF Inherits
<1>10. Asleep(r, x, D)
  BY <1>2, <1>4 DEF LoopOK, Asleep
<1> QED BY <1>1, <1>2, <1>4, <1>6, <1>7, <1>8, <1>9, <1>10
        DEF LoopOK, Mutexes, Reprioritised, r

\* A waiter: it moves on its list, and the mutex it waits for gets the priority
\* of whoever is first now. Only its owner o may be behind it.
LEMMA UpdateWaiter ==
  ASSUME NEW s, NEW x, NEW t \in Thread, NEW p, NEW T, NEW D, T \subseteq D,
         LoopOK(s, x, t, T, D), t \notin D, Fits(x, t, p),
         s.stat[t] = "SUSPEND", NEW m, m = x.pending[t], m # None
  PROVE  LET r == Requeue(SetPriority(s, t, p), m, t)
             y == UpdateMutexPrio(r, x, m)
             o == x.owner[m]
         IN  /\ LoopOK(r, y, o, T, D) /\ Reprioritised(r, y, s, x)
             /\ o \in Thread /\ o \notin D
<1> DEFINE c == SetPriority(s, t, p)
           r == Requeue(c, m, t)
           y == UpdateMutexPrio(r, x, m)
           o == x.owner[m]
<1>1. /\ Sound(s, T) /\ CurrentSound(s, T) /\ t \notin T /\ p \in Prio
      /\ x \in MutexState /\ t # None
  BY PrioFacts DEF LoopOK, Mutexes, Fits
<1>2. m \in WaitList /\ Contains(s.wait[m], t)
  BY <1>1 DEF MutexState, LoopOK, Asleep
<1>3. x.linked[m] /\ o # None /\ o \in Thread /\ o \notin D
  BY <1>1, <1>2 DEF LoopOK, Mutexes, Queued, Asleep, MutexState
<1>4. /\ Sound(c, T) /\ c.cur = s.cur /\ c.nest = s.nest
      /\ c.stat = s.stat /\ c.timers = s.timers
      /\ SameWaits(c, s) /\ SameClock(c, s)
  BY <1>1, SetPrioritySound
<1>5. c.prio = [s.prio EXCEPT ![t] = p] /\ s.prio \in [Thread -> Prio]
  <2>1. s.prio \in [Thread -> Prio]
    BY <1>1 DEF Sound, KernelState
  <2>2. c.prio = [s.prio EXCEPT ![t] = p]
    BY <1>1, SetPriorityPrio
  <2> QED BY <2>1, <2>2
<1> HIDE DEF c
<1>6. /\ c.wait = s.wait /\ c.error = s.error
      /\ c.prio[t] = p /\ \A u \in Thread : u # t => c.prio[u] = s.prio[u]
  <2>1. c.wait = s.wait /\ c.error = s.error
    BY <1>4 DEF SameWaits
  <2>2. c.prio[t] = p /\ \A u \in Thread : u # t => c.prio[u] = s.prio[u]
    BY <1>5
  <2> QED BY <2>1, <2>2
<1>7. Sound(r, T) /\ Requeued(r, c, m, t)
  <2>1. Contains(c.wait[m], t)
    BY <1>2, <1>6
  <2> QED BY <1>2, <1>4, <2>1, RequeueSound
<1> HIDE DEF r
<1>8. /\ r.cur = s.cur /\ r.nest = s.nest /\ r.stat = s.stat
      /\ r.timers = s.timers /\ r.error = s.error /\ r.prio = c.prio
      /\ \A w \in WaitList, u \in Thread :
            Contains(r.wait[w], u) <=> Contains(s.wait[w], u)
  BY <1>4, <1>6, <1>7 DEF Requeued, SameThreads
<1>9. \A w \in WaitList : /\ s.wait[w] \in Seq(Thread) /\ IsInjective(s.wait[w])
                          /\ Sorted(s.wait[w], s.prio)
  BY <1>1 DEF Sound, KernelState, ListsSound, LoopOK, Mutexes, Ordered
<1>10. Ordered(r)
  <2>1. ASSUME NEW w \in WaitList, w # m PROVE Sorted(r.wait[w], r.prio)
    <3>1. ~Contains(s.wait[w], t)
      BY <1>1, <1>2, <2>1 DEF Sound, WaitSound
    <3>2. \A u \in Thread : Contains(s.wait[w], u) => c.prio[u] = s.prio[u]
      BY <1>6, <3>1
    <3>3. Sorted(c.wait[w], c.prio)
      BY <1>6, <1>9, <3>2, SortedSame
    <3> QED BY <1>7, <1>8, <2>1, <3>3 DEF Requeued
  <2>2. Sorted(r.wait[m], r.prio)
    <3> DEFINE list == RemoveFirst(s.wait[m], t)
    <3>1. /\ list \in Seq(Thread)
          /\ \A u \in Thread : Contains(list, u) => u # t
      BY <1>2, <1>9, RemoveFirstFacts
    <3>2. Sorted(list, s.prio)
      BY <1>2, <1>9, RemoveFirstSorted
    <3>3. \A u \in Thread : Contains(list, u) => c.prio[u] = s.prio[u]
      BY <1>6, <3>1
    <3> HIDE DEF list
    <3>4. Sorted(list, c.prio)
      BY <3>1, <3>2, <3>3, SortedSame
    <3> QED BY <1>6, <1>7, <1>8, <3>4 DEF list, Requeued
  <2> QED BY <2>1, <2>2 DEF Ordered
<1>11. Queued(r, x)
  BY <1>8 DEF LoopOK, Mutexes, Queued
<1>12. Inherits(r, x, o)
  <2>1. ASSUME NEW w \in WaitList, x.linked[w], x.owner[w] \notin {None, o}
        PROVE  r.prio[x.owner[w]] <= x.mprio[w]
    <3>1. CASE x.owner[w] = t
      BY <1>6, <1>8, <2>1, <3>1 DEF Fits, Taken
    <3>2. CASE x.owner[w] # t
      <4>1. x.owner[w] \in Thread
        BY <1>1, <2>1 DEF MutexState
      <4> QED BY <1>6, <1>8, <2>1, <3>2, <4>1 DEF LoopOK, Mutexes, Inherits
    <3> QED BY <3>1, <3>2
  <2> QED BY <2>1 DEF Inherits
<1>13. ASSUME NEW w \in WaitList, NEW u \in Thread, Contains(r.wait[w], u), w # m
       PROVE  x.mprio[w] <= r.prio[u]
  <2>1. Contains(s.wait[w], u) /\ u # t
    BY <1>1, <1>2, <1>8, <1>13 DEF Sound, WaitSound
  <2> QED BY <1>6, <1>8, <2>1 DEF LoopOK, Mutexes, Known
<1>14. Stale(r, x, o, m)
  BY <1>1, <1>10, <1>11, <1>12, <1>13 DEF Stale
<1>15. /\ Mutexes(r, y, o)
       /\ y.owner = x.owner /\ y.hold = x.hold /\ y.ceiling = x.ceiling
       /\ y.linked = x.linked /\ y.pending = x.pending
  BY <1>2, <1>7, <1>14, UpdateMutexPrioSets
<1> HIDE DEF y
<1>16. CurrentSound(r, T)
  BY <1>1, <1>8 DEF CurrentSound
<1>17. Asleep(r, y, D)
  <2>1. \A u \in Thread \ D :
           s.stat[u] = "SUSPEND" /\ x.pending[u] # None
             => x.pending[u] \in WaitList /\ Contains(s.wait[x.pending[u]], u)
    BY <1>1 DEF LoopOK, Asleep, MutexState
  <2>2. \A u \in Thread \ D :
           r.stat[u] = "SUSPEND" /\ y.pending[u] # None
             => Contains(r.wait[y.pending[u]], u)
    BY <1>8, <1>15, <2>1
  <2>3. \A w \in WaitList : y.owner[w] \notin D
    BY <1>15 DEF LoopOK, Asleep
  <2> QED BY <2>2, <2>3 DEF Asleep
<1>18. LoopOK(r, y, o, T, D)
  BY <1>3, <1>7, <1>15, <1>16, <1>17 DEF LoopOK
<1>19. Reprioritised(r, y, s, x)
  BY <1>8, <1>15 DEF Reprioritised
<1> QED BY <1>3, <1>18, <1>19 DEF r, y, c

\* What a call leaves: the loop may go on, and only priorities have changed.
Updated(o, s, x, T, D) ==
  LoopOK(o.k, o.mx, o.next, T, D) /\ Reprioritised(o.k, o.mx, s, x)

\* One call of _thread_update_priority.
LEMMA UpdateOneOK ==
  ASSUME NEW s, NEW x, NEW t \in Thread, NEW p, NEW T, NEW D, T \subseteq D,
         LoopOK(s, x, t, T, D), t \notin D, Fits(x, t, p)
  PROVE  Updated(UpdateOne(s, x, t, p), s, x, T, D)
<1> DEFINE c == SetPriority(s, t, p)
           m == x.pending[t]
           r == Requeue(c, m, t)
           y == UpdateMutexPrio(r, x, m)
           o == x.owner[m]
           u == UpdateOne(s, x, t, p)
<1>1. CASE s.stat[t] # "SUSPEND" \/ m = None
  <2>1. u = Outcome(c, x, None)
    BY <1>1 DEF UpdateOne
  <2>2. u.k = c /\ u.mx = x /\ u.next = None
    BY <2>1 DEF Outcome
  <2>3. LoopOK(c, x, None, T, D) /\ Reprioritised(c, x, s, x)
    BY <1>1, UpdateFirst
  <2> HIDE DEF c, u
  <2> QED BY <2>2, <2>3 DEF Updated, u
<1>2. CASE ~(s.stat[t] # "SUSPEND" \/ m = None)
  <2>1. u = IF o = None \/ GetMutexPrio(y, o) = r.prio[o] THEN Outcome(r, y, None)
                                                         ELSE Outcome(r, y, o)
    BY <1>2 DEF UpdateOne
  <2>2. /\ LoopOK(r, y, o, T, D) /\ Reprioritised(r, y, s, x)
        /\ o \in Thread /\ o \notin D
    BY <1>2, UpdateWaiter
  <2> HIDE DEF r, y
  <2>3. o # None
    BY <2>2, PrioFacts
  <2> HIDE DEF o, u
  <2>4. CASE GetMutexPrio(y, o) = r.prio[o]
    <3>1. u.k = r /\ u.mx = y /\ u.next = None
      BY <2>1, <2>4 DEF Outcome
    <3>2. Mutexes(r, y, o) /\ y \in MutexState
      BY <2>2 DEF LoopOK, Mutexes
    <3>3. \A w \in Taken(y, o) : r.prio[o] <= y.mprio[w]
      BY <2>2, <2>4, <3>2, GetMutexPrioFacts
    <3>4. Inherits(r, y, None)
      BY <3>2, <3>3 DEF Mutexes, Inherits, Taken
    <3>5. LoopOK(r, y, None, T, D)
      BY <2>2, <3>4 DEF LoopOK, Mutexes
    <3> QED BY <2>2, <3>1, <3>5 DEF Updated, u
  <2>5. CASE GetMutexPrio(y, o) # r.prio[o]
    <3>1. u.k = r /\ u.mx = y /\ u.next = o
      BY <2>1, <2>3, <2>5 DEF Outcome
    <3> QED BY <2>2, <3>1 DEF Updated, u
  <2> QED BY <2>4, <2>5
<1> QED BY <1>1, <1>2

\* Two such changes in a row are one.
LEMMA ReprioritisedTrans ==
  ASSUME NEW s, NEW x, NEW r, NEW y, NEW q, NEW z,
         Reprioritised(r, y, s, x), Reprioritised(q, z, r, y)
  PROVE  Reprioritised(q, z, s, x)
BY DEF Reprioritised

\* The call after c.
NextCall(c) ==
  IF c.next = None THEN c
  ELSE UpdateOne(c.k, c.mx, c.next, GetMutexPrio(c.mx, c.next))

\* The next call keeps what the calls so far have established.
LEMMA NextCallOK ==
  ASSUME NEW s, NEW x, NEW T, NEW D, T \subseteq D, NEW c, Updated(c, s, x, T, D)
  PROVE  Updated(NextCall(c), s, x, T, D)
<1>1. CASE c.next = None
  BY <1>1 DEF NextCall
<1>2. CASE c.next # None
  <2> DEFINE p == GetMutexPrio(c.mx, c.next)
             u == UpdateOne(c.k, c.mx, c.next, p)
  <2>1. /\ LoopOK(c.k, c.mx, c.next, T, D) /\ c.next \in Thread /\ c.next \notin D
        /\ c.mx \in MutexState
    BY <1>2 DEF Updated, LoopOK, Mutexes
  <2>2. Fits(c.mx, c.next, p)
    BY <2>1, GetMutexPrioFacts DEF Fits
  <2> HIDE DEF p
  <2>3. Updated(u, c.k, c.mx, T, D)
    BY <2>1, <2>2, UpdateOneOK
  <2>4. NextCall(c) = u
    BY <1>2 DEF NextCall, p
  <2> HIDE DEF u
  <2>5. Updated(u, s, x, T, D)
    BY <2>3, ReprioritisedTrans DEF Updated
  <2> QED BY <2>4, <2>5
<1> QED BY <1>1, <1>2

\* The calls as a function of their number.
LEMMA Calls ==
  ASSUME NEW s, NEW x, NEW t, NEW p
  PROVE  \E calls : /\ calls[0] = UpdateOne(s, x, t, p)
                    /\ \A n \in 1 .. Depth : calls[n] = NextCall(calls[n - 1])
                    /\ calls[Depth] = UpdateThreadPrio(s, x, t, p)
<1> DEFINE first == UpdateOne(s, x, t, p)
           Body(g, m) == [n \in 0 .. m |-> IF n = 0 THEN first ELSE NextCall(g[n - 1])]
           Has == {m \in 0 .. Depth : \E g : g = Body(g, m)}
<1>0. Depth \in Nat
  BY MutexAssumption
<1>1. UpdateThreadPrio(s, x, t, p) = (CHOOSE g : g = Body(g, Depth))[Depth]
  BY DEF UpdateThreadPrio, NextCall
<1> HIDE DEF first
<1>2. 0 \in Has
  <2> DEFINE g == [n \in 0 .. 0 |-> first]
             b == Body(g, 0)
  <2>1. \A n \in 0 .. 0 : n = 0
    OBVIOUS
  <2>2. \A n \in 0 .. 0 : g[n] = b[n]
    BY <2>1
  <2>3. g = [n \in 0 .. 0 |-> g[n]] /\ b = [n \in 0 .. 0 |-> b[n]]
    OBVIOUS
  <2> HIDE DEF g, b
  <2>4. [n \in 0 .. 0 |-> g[n]] = [n \in 0 .. 0 |-> b[n]]
    BY <2>2
  <2>5. g = b
    BY <2>3, <2>4, Zenon
  <2> HIDE DEF Body
  <2> QED BY <1>0, <2>5 DEF b
<1>3. ASSUME NEW m \in 0 .. Depth - 1, m \in Has PROVE m + 1 \in Has
  <2>1. PICK h : h = Body(h, m)
    BY <1>3
  <2> DEFINE g == [n \in 0 .. m + 1 |->
                     IF n = m + 1 THEN NextCall(h[m]) ELSE h[n]]
             b == Body(g, m + 1)
  <2>2. m \in Nat /\ m + 1 \in 0 .. Depth
    BY <1>0
  <2>3. ASSUME NEW n \in 0 .. m + 1 PROVE g[n] = b[n]
    <3>1. CASE n = m + 1
      <4>1. m \in 0 .. m + 1 /\ m # m + 1 /\ n # 0 /\ n - 1 = m
        BY <2>2, <3>1
      <4>2. g[n] = NextCall(h[m]) /\ g[m] = h[m]
        BY <3>1, <4>1
      <4>3. b[n] = NextCall(g[n - 1])
        BY <4>1
      <4> HIDE DEF g, b
      <4> QED BY <4>1, <4>2, <4>3
    <3>2. CASE n # m + 1
      <4>1. n \in 0 .. m /\ (n # 0 => n - 1 \in 0 .. m + 1 /\ n - 1 # m + 1)
        BY <2>2, <3>2
      <4>2. g[n] = h[n] /\ (n # 0 => g[n - 1] = h[n - 1])
        BY <3>2, <4>1
      <4>3. h[n] = IF n = 0 THEN first ELSE NextCall(h[n - 1])
        BY <2>1, <4>1
      <4>4. b[n] = IF n = 0 THEN first ELSE NextCall(g[n - 1])
        OBVIOUS
      <4> HIDE DEF g, b
      <4> QED BY <4>2, <4>3, <4>4
    <3> QED BY <3>1, <3>2
  <2>4. g = b
    <3>1. /\ g = [n \in 0 .. m + 1 |-> g[n]]
          /\ b = [n \in 0 .. m + 1 |-> b[n]]
      OBVIOUS
    <3> HIDE DEF g, b
    <3>2. [n \in 0 .. m + 1 |-> g[n]] = [n \in 0 .. m + 1 |-> b[n]]
      BY <2>3
    <3> QED BY <3>1, <3>2, Zenon
  <2> HIDE DEF g
  <2> QED BY <2>2, <2>4
<1>4. Depth \in Has
  <2> HIDE DEF Has
  <2>1. \A i \in 0 .. Depth : i \in Has
    BY <1>0, <1>2, <1>3, SetInduction
  <2> QED BY <1>0, <2>1
<1> DEFINE calls == CHOOSE g : g = Body(g, Depth)
<1>5. calls = Body(calls, Depth)
  BY <1>4
<1> HIDE DEF calls
<1>6. calls[0] = first
  BY <1>0, <1>5
<1>7. \A n \in 1 .. Depth : calls[n] = NextCall(calls[n - 1])
  BY <1>0, <1>5
<1>8. calls[Depth] = UpdateThreadPrio(s, x, t, p)
  BY <1>1 DEF calls
<1> QED BY <1>6, <1>7, <1>8 DEF first

\* _thread_update_priority, along any chain of owners.
LEMMA UpdateThreadPrioOK ==
  ASSUME NEW s, NEW x, NEW t \in Thread, NEW p, NEW T, NEW D, T \subseteq D,
         LoopOK(s, x, t, T, D), t \notin D, Fits(x, t, p)
  PROVE  Updated(UpdateThreadPrio(s, x, t, p), s, x, T, D)
<1>1. PICK calls : /\ calls[0] = UpdateOne(s, x, t, p)
                   /\ \A n \in 1 .. Depth : calls[n] = NextCall(calls[n - 1])
                   /\ calls[Depth] = UpdateThreadPrio(s, x, t, p)
  BY Calls
<1> DEFINE Holds == {n \in 0 .. Depth : Updated(calls[n], s, x, T, D)}
<1>0. Depth \in Nat
  BY MutexAssumption
<1>2. 0 \in Holds
  <2>1. Updated(UpdateOne(s, x, t, p), s, x, T, D)
    BY UpdateOneOK
  <2> QED BY <1>0, <1>1, <2>1
<1>3. ASSUME NEW n \in 0 .. Depth - 1, n \in Holds PROVE n + 1 \in Holds
  <2>1. n + 1 \in 1 .. Depth /\ n + 1 \in 0 .. Depth /\ (n + 1) - 1 = n
    BY <1>0
  <2>2. calls[n + 1] = NextCall(calls[n])
    BY <1>1, <2>1
  <2>3. Updated(NextCall(calls[n]), s, x, T, D)
    BY <1>3, NextCallOK
  <2> QED BY <2>1, <2>2, <2>3
<1>4. Depth \in Holds
  <2> HIDE DEF Holds
  <2>1. \A n \in 0 .. Depth : n \in Holds
    BY <1>0, <1>2, <1>3, SetInduction
  <2> QED BY <1>0, <2>1
<1> QED BY <1>1, <1>4

\* Priorities are worked out anew only where they are known to be right.
LEMMA UpdateOwnerPrioOK ==
  ASSUME NEW s, NEW x, NEW m \in WaitList, NEW T, NEW D, T \subseteq D,
         LoopOK(s, x, None, T, D), x.owner[m] # None
  PROVE  Updated(UpdateOwnerPrio(s, x, m), s, x, T, D)
<1> DEFINE o == x.owner[m]
           p == GetMutexPrio(x, o)
           u == UpdateOwnerPrio(s, x, m)
<1>1. x \in MutexState /\ o \in Thread /\ o \notin D
  BY DEF LoopOK, Mutexes, MutexState, Asleep
<1>2. LoopOK(s, x, o, T, D)
  BY <1>1, InheritsWeaker DEF LoopOK
<1>3. Fits(x, o, p)
  BY <1>1, GetMutexPrioFacts DEF Fits
<1>4. u = IF p = s.prio[o] THEN Outcome(s, x, None) ELSE UpdateThreadPrio(s, x, o, p)
  BY DEF UpdateOwnerPrio
<1> HIDE DEF o, p, u
<1>5. CASE p = s.prio[o]
  <2>1. u.k = s /\ u.mx = x /\ u.next = None
    BY <1>4, <1>5 DEF Outcome
  <2>2. Reprioritised(s, x, s, x)
    BY DEF Reprioritised
  <2> QED BY <2>1, <2>2 DEF Updated, u
<1>6. CASE p # s.prio[o]
  <2>1. Updated(UpdateThreadPrio(s, x, o, p), s, x, T, D)
    BY <1>1, <1>2, <1>3, UpdateThreadPrioOK
  <2> QED BY <1>4, <1>6, <2>1 DEF u
<1> QED BY <1>5, <1>6

\* A thread has left the wait list of m.
LEMMA LeaveOK ==
  ASSUME NEW s, NEW x, NEW m \in WaitList, NEW t, NEW T, NEW D, T \subseteq D,
         LoopOK(s, x, None, T, D), x.owner[m] # None
  PROVE  Updated(Leave(s, x, m, t), s, x, T, D)
<1> DEFINE y == UpdateMutexPrio(s, x, m)
           u == Leave(s, x, m, t)
<1>1. /\ Mutexes(s, y, None)
      /\ y.owner = x.owner /\ y.hold = x.hold /\ y.ceiling = x.ceiling
      /\ y.linked = x.linked /\ y.pending = x.pending
  BY UpdateMutexPrioKeeps DEF LoopOK
<1>2. u = IF s.prio[x.owner[m]] = s.prio[t] THEN UpdateOwnerPrio(s, y, m)
                                            ELSE Outcome(s, y, None)
  BY DEF Leave
<1> HIDE DEF y, u
<1>3. LoopOK(s, y, None, T, D) /\ y.owner[m] # None
  BY <1>1 DEF LoopOK, Asleep
<1>4. Reprioritised(s, y, s, x)
  BY <1>1 DEF Reprioritised
<1>5. CASE s.prio[x.owner[m]] = s.prio[t]
  <2>1. Updated(UpdateOwnerPrio(s, y, m), s, y, T, D)
    BY <1>3, UpdateOwnerPrioOK
  <2>2. Updated(u, s, y, T, D)
    BY <1>2, <1>5, <2>1
  <2> QED BY <1>4, <2>2, ReprioritisedTrans DEF Updated, u
<1>6. CASE s.prio[x.owner[m]] # s.prio[t]
  <2>1. u.k = s /\ u.mx = y /\ u.next = None
    BY <1>2, <1>6 DEF Outcome
  <2> QED BY <1>3, <1>4, <2>1 DEF Updated, u
<1> QED BY <1>5, <1>6

-----------------------------------------------------------------------------
(* What holds where the invariant does *)

\* The parts of the invariant that most steps need.
LEMMA IInvFacts ==
  ASSUME IInv
  PROVE  /\ Idle \in Thread /\ k \in KernelState /\ k.cur \in Thread
         /\ mx \in MutexState
         /\ Sound(k, {}) /\ CurrentSound(k, {})
         /\ Queued(k, mx) /\ Ordered(k) /\ Known(k, mx) /\ Inherits(k, mx, None)
         /\ \A w \in WaitList, t \in Thread : Contains(k.wait[w], t) => k.stat[t] = "SUSPEND"
BY KernelAssumption DEF IInv, LoopOK, Mutexes, Sound, KernelState, WaitSound

\* A thread that executes outside of its calls of rt_schedule runs.
LEMMA ExecutingRuns ==
  ASSUME IInv, NEW t \in Thread, Executes(t), pc[t] \notin {"take_sched", "post_sched"}
  PROVE  /\ t = k.cur /\ k.stat[t] = "RUNNING" /\ t \notin Dead
         /\ \A w \in WaitList : ~Contains(k.wait[w], t)
<1>1. t = k.cur /\ k.stat[t] = "RUNNING"
  BY DEF IInv, CurrentRuns, Executes
<1>2. t \notin Dead
  BY <1>1 DEF IInv, DeadStay, Dead
<1>3. \A w \in WaitList : ~Contains(k.wait[w], t)
  BY <1>1, IInvFacts
<1> QED BY <1>1, <1>2, <1>3

\* Somebody can take over, at least the idle thread.
LEMMA SomebodyReady ==
  ASSUME IInv, k.stat[k.cur] # "RUNNING"
  PROVE  k.group # {}
<1>1. Idle # k.cur /\ k.stat[Idle] = "READY" /\ Idle \in Thread
  BY IInvFacts DEF IInv, IdleCanRun, CurrentSound
<1>2. k.prio[Idle] \in Prio
  BY <1>1, IInvFacts DEF KernelState
<1>3. Contains(k.ready[k.prio[Idle]], Idle)
  BY <1>1, <1>2, IInvFacts DEF Sound, ReadySound
<1>4. k.ready[k.prio[Idle]] # <<>>
  BY <1>3, EmptyFacts
<1> QED BY <1>2, <1>4, IInvFacts DEF Sound, ListsSound

\* The mutexes do not see a step that leaves the lists and the priorities alone.
LEMMA MutexesSame ==
  ASSUME NEW r, NEW s, NEW x, NEW n, Mutexes(s, x, n),
         r.wait = s.wait, r.prio = s.prio
  PROVE  Mutexes(r, x, n)
BY DEF Mutexes, Queued, Ordered, Known, Inherits

-----------------------------------------------------------------------------
(* What a step does to a thread *)

\* From k, mx to r, y nothing happens to the call of t.
Stays(r, y, t) ==
  /\ \A w \in WaitList : Contains(r.wait[w], t) <=> Contains(k.wait[w], t)
  /\ r.stat[t] = "SUSPEND" => k.stat[t] = "SUSPEND"
  /\ r.error[t] = k.error[t]
  /\ \A w \in WaitList : mx.owner[w] = t => y.owner[w] = t

\* t is woken and told e; only the owner is told RT_EOK.
Freed(r, y, t) ==
  /\ \A w \in WaitList : ~Contains(r.wait[w], t)
  /\ r.stat[t] # "SUSPEND"
  /\ mutex[t] # None /\ r.error[t] = "EOK" => y.owner[mutex[t]] = t

\* t is where it was.
SamePlace(t) == pc'[t] = pc[t] /\ mutex'[t] = mutex[t]

\* A thread to whose call nothing happens stays in it.
LEMMA StaysOK ==
  ASSUME NEW t \in Thread, ThreadOK(t), Stays(k', mx', t), mutex'[t] = mutex[t],
         pc'[t] = pc[t] \/ (pc[t] \in Taking /\ pc'[t] \in Taking)
  PROVE  ThreadOK(t)'
<1>1. /\ pc'[t] \in Taking <=> pc[t] \in Taking
      /\ pc'[t] \in {"run", "post_sched", "drop"} => pc[t] \in {"run", "post_sched", "drop"}
  BY DEF Taking
<1>2. pc'[t] \in {"run", "post_sched", "drop"} => mutex'[t] = None
  BY <1>1 DEF ThreadOK
<1>3. \A m \in WaitList :
         Contains(k'.wait[m], t)
           => mutex'[t] = m /\ pc'[t] \in Taking /\ k'.error[t] = "EOK"
  BY <1>1 DEF ThreadOK, Stays
<1>4. pc'[t] \in Taking =>
         /\ mutex'[t] \in WaitList
         /\ k'.stat[t] = "SUSPEND" => Contains(k'.wait[mutex'[t]], t)
         /\ k'.error[t] = "EOK" /\ ~Contains(k'.wait[mutex'[t]], t)
              => mx'.owner[mutex'[t]] = t
  BY <1>1 DEF ThreadOK, Stays
<1> QED BY <1>2, <1>3, <1>4 DEF ThreadOK, Taking

\* A thread that is woken finds why in thread->error.
LEMMA FreedOK ==
  ASSUME NEW t \in Thread, ThreadOK(t), Freed(k', mx', t), SamePlace(t)
  PROVE  ThreadOK(t)'
<1>1. pc[t] \in Taking => mutex[t] \in WaitList /\ mutex[t] # None
  BY MutexAssumption DEF ThreadOK
<1> QED BY <1>1 DEF ThreadOK, Freed, SamePlace, Taking

\* t is in no rt_mutex_take.
LEMMA OutsideOK ==
  ASSUME NEW t \in Thread, \A w \in WaitList : ~Contains(k'.wait[w], t),
         pc'[t] \notin Taking, mutex'[t] = None \/ pc'[t] = "dead"
  PROVE  ThreadOK(t)'
BY DEF ThreadOK, Taking

\* The deleted threads stay as they are.
DeadSame ==
  /\ \A t \in Thread : pc'[t] = "dead" <=> pc[t] = "dead"
  /\ \A t \in Thread : pc'[t] = "drop" => pc[t] = "drop" /\ target'[t] = target[t]
  /\ \A t \in Dead :
        /\ k'.stat[t] = k.stat[t]
        /\ mx'.pending[t] = mx.pending[t]
        /\ Contains(k'.timers, t) => Contains(k.timers, t)

\* A step that deletes nobody.
LEMMA LivingStep ==
  ASSUME IInv, ControlOK', LoopOK(k', mx', None, {}, Dead), k'.nest = 0,
         CurrentRuns', IdleCanRun', HeldIfOwned', DeadSame,
         \A t \in Thread : ThreadOK(t)'
  PROVE  IInv'
<1>1. Dead' = Dead
  BY DEF Dead, DeadSame
<1>2. ASSUME NEW t \in Thread, pc'[t] = "dead"
      PROVE  k'.stat[t] \in {"SUSPEND", "CLOSE"} /\ ~Contains(k'.timers, t)
  <2>1. pc[t] = "dead" /\ t \in Dead
    BY <1>2 DEF DeadSame, Dead
  <2>2. k.stat[t] \in {"SUSPEND", "CLOSE"} /\ ~Contains(k.timers, t)
    BY <2>1 DEF IInv, DeadStay
  <2> QED BY <2>1, <2>2 DEF DeadSame
<1>3. ASSUME NEW t \in Thread, pc'[t] = "drop"
      PROVE  /\ pc'[target'[t]] = "dead" /\ k'.stat[target'[t]] = "SUSPEND"
             /\ mx'.pending[target'[t]] \in WaitList
             /\ \A u \in Thread : pc'[u] = "drop" /\ target'[u] = target'[t] => u = t
  <2>1. /\ pc[t] = "drop" /\ target'[t] = target[t]
        /\ target[t] \in Thread /\ pc[target[t]] = "dead"
    BY <1>3 DEF IInv, DeadSame, DeadStay, ControlOK
  <2>2. target[t] \in Dead
    BY <2>1 DEF Dead
  <2>3. \A u \in Thread : pc'[u] = "drop" /\ target'[u] = target'[t] => u = t
    BY <2>1 DEF IInv, DeadSame, DeadStay
  <2>4. k.stat[target[t]] = "SUSPEND" /\ mx.pending[target[t]] \in WaitList
    BY <2>1 DEF IInv, DeadStay
  <2>5. k'.stat[target[t]] = "SUSPEND" /\ mx'.pending[target[t]] \in WaitList
    BY <2>2, <2>4 DEF DeadSame
  <2>6. pc'[target[t]] = "dead"
    BY <2>1 DEF DeadSame
  <2> QED BY <2>1, <2>3, <2>5, <2>6
<1>4. DeadStay'
  BY <1>2, <1>3 DEF DeadStay
<1> QED BY <1>1, <1>4 DEF IInv

\* The executing thread t goes on at c, in rt_mutex_take of m or, if m is None,
\* in none.
Goes(t, c, m) ==
  /\ pc' \in [Thread -> PC] /\ mutex' \in [Thread -> WaitList \cup {None}]
  /\ pc'[t] = c /\ mutex'[t] = m
  /\ \A u \in Thread : u # t => SamePlace(u)
  /\ isr' = isr

-----------------------------------------------------------------------------
(* Steps that move no thread *)

\* Only priorities, the executing thread t's error and what it has change.
Steady(t) ==
  /\ k'.cur = k.cur /\ k'.nest = k.nest /\ k'.stat = k.stat /\ k'.timers = k.timers
  /\ \A w \in WaitList, u \in Thread : Contains(k'.wait[w], u) <=> Contains(k.wait[w], u)
  /\ \A u \in Thread : u # t => k'.error[u] = k.error[u]
  /\ mx'.pending = mx.pending
  /\ \A w \in WaitList : mx.owner[w] \notin {None, t} => mx'.owner[w] = mx.owner[w]
  /\ LoopOK(k', mx', None, {}, Dead)
  /\ HeldIfOwned'

\* Such a step keeps the invariant.
LEMMA SteadyStep ==
  ASSUME IInv, NEW t \in Thread, NEW c \in {"run", "post_sched"}, Executes(t),
         pc[t] \in {"run", "take_return"}, Steady(t), Goes(t, c, None),
         target' = target
  PROVE  IInv'
<1>1. /\ t = k.cur /\ k.stat[t] = "RUNNING" /\ t \notin Dead
      /\ \A w \in WaitList : ~Contains(k.wait[w], t)
  BY ExecutingRuns
<1>2. ControlOK'
  BY DEF IInv, ControlOK, Goes
<1>3. k'.nest = 0 /\ CurrentRuns' /\ IdleCanRun'
  BY <1>1 DEF IInv, Steady, CurrentRuns, IdleCanRun
<1>4. ASSUME NEW u \in Thread PROVE ThreadOK(u)'
  <2>1. CASE u = t
    <3>1. \A w \in WaitList : ~Contains(k'.wait[w], t)
      BY <1>1 DEF Steady
    <3>2. pc'[t] \notin Taking /\ mutex'[t] = None
      BY DEF Goes, Taking
    <3> QED BY <2>1, <3>1, <3>2, OutsideOK
  <2>2. CASE u # t
    <3>1. pc'[u] = pc[u] /\ mutex'[u] = mutex[u]
      BY <2>2 DEF Goes, SamePlace
    <3>2. u # None
      BY PrioFacts
    <3>3. Stays(k', mx', u)
      BY <2>2, <3>2 DEF Steady, Stays
    <3>4. ThreadOK(u)
      BY DEF IInv
    <3> QED BY <3>1, <3>3, <3>4, StaysOK
  <2> QED BY <2>1, <2>2
<1>5. DeadSame
  <2>1. \A u \in Thread : pc'[u] = "dead" <=> pc[u] = "dead"
    BY DEF Goes, SamePlace
  <2>2. \A u \in Thread : pc'[u] = "drop" => pc[u] = "drop" /\ target'[u] = target[u]
    BY DEF Goes, SamePlace
  <2>3. \A u \in Dead : /\ k'.stat[u] = k.stat[u]
                        /\ mx'.pending[u] = mx.pending[u]
                        /\ Contains(k'.timers, u) => Contains(k.timers, u)
    BY DEF Steady
  <2> QED BY <2>1, <2>2, <2>3 DEF DeadSame
<1>6. LoopOK(k', mx', None, {}, Dead) /\ HeldIfOwned'
  BY DEF Steady
<1> QED BY <1>2, <1>3, <1>4, <1>5, <1>6, LivingStep

\* t goes nowhere.
LEMMA GoesNowhere ==
  ASSUME IInv, NEW t \in Thread, At(t, "run"), UNCHANGED <<isr, pc, mutex>>
  PROVE  Goes(t, "run", None) /\ Executes(t) /\ pc[t] = "run" /\ mutex[t] = None
<1>1. Executes(t) /\ pc[t] = "run"
  BY DEF At
<1>2. mutex[t] = None
  BY <1>1 DEF IInv, ThreadOK
<1>3. pc' = pc /\ mutex' = mutex /\ isr' = isr
  OBVIOUS
<1>4. pc' \in [Thread -> PC] /\ mutex' \in [Thread -> WaitList \cup {None}]
  BY <1>3 DEF IInv, ControlOK
<1>5. Goes(t, "run", None)
  BY <1>1, <1>2, <1>3, <1>4 DEF Goes, SamePlace
<1> QED BY <1>1, <1>2, <1>5

\* A step that leaves the kernel alone but for the error of t.
LEMMA ErrorOK ==
  ASSUME IInv, NEW t \in Thread, NEW e \in Error
  PROVE  LET r == [k EXCEPT !.error[t] = e]
         IN  /\ LoopOK(r, mx, None, {}, Dead)
             /\ r.cur = k.cur /\ r.nest = k.nest /\ r.stat = k.stat
             /\ r.timers = k.timers /\ r.wait = k.wait /\ r.prio = k.prio
             /\ \A u \in Thread : r.error[u] = IF u = t THEN e ELSE k.error[u]
<1> DEFINE r == [k EXCEPT !.error[t] = e]
<1>1. /\ Sound(k, {}) /\ CurrentSound(k, {}) /\ Mutexes(k, mx, None)
      /\ Asleep(k, mx, Dead)
  BY DEF IInv, LoopOK
<1>2. /\ Sound(r, {}) /\ SameThreads(r, k) /\ SameClock(r, k)
      /\ r.timers = k.timers /\ r.wait = k.wait /\ r.group = k.group
      /\ Told(r, k, t, e)
  BY <1>1, SetErrorSound
<1> HIDE DEF r
<1>3. /\ r.cur = k.cur /\ r.nest = k.nest /\ r.stat = k.stat
      /\ r.timers = k.timers /\ r.wait = k.wait /\ r.prio = k.prio
      /\ \A u \in Thread : r.error[u] = IF u = t THEN e ELSE k.error[u]
  BY <1>2 DEF SameThreads, Told
<1>4. CurrentSound(r, {})
  BY <1>1, <1>3 DEF CurrentSound
<1>5. Mutexes(r, mx, None)
  BY <1>1, <1>3, MutexesSame
<1>6. Asleep(r, mx, Dead)
  BY <1>1, <1>3 DEF Asleep
<1>7. LoopOK(r, mx, None, {}, Dead)
  BY <1>2, <1>4, <1>5, <1>6 DEF LoopOK
<1> QED BY <1>3, <1>7 DEF r

\* The mutexes of y are those of x but for hold.
LEMMA HoldOK ==
  ASSUME NEW s, NEW x, NEW y \in MutexState, NEW n, NEW T, NEW D,
         LoopOK(s, x, n, T, D),
         y.owner = x.owner, y.mprio = x.mprio, y.ceiling = x.ceiling,
         y.linked = x.linked, y.pending = x.pending
  PROVE  LoopOK(s, y, n, T, D)
<1>1. Mutexes(s, y, n)
  BY DEF LoopOK, Mutexes, Queued, Known, Inherits
<1>2. Asleep(s, y, D)
  BY DEF LoopOK, Asleep
<1> QED BY <1>1, <1>2 DEF LoopOK

\* rt_mutex_take of a free mutex.
LEMMA TakeFreeStep ==
  ASSUME IInv, NEW t \in Thread, NEW m \in WaitList, TakeFree(t, m)
  PROVE  /\ IInv' /\ Steady(t) /\ SamePlace(t) /\ k'.error[t] = "EOK"
         /\ mx'.owner = [mx.owner EXCEPT ![m] = t]
         /\ mx'.hold = [mx.hold EXCEPT ![m] = 1]
<1> DEFINE q == [k EXCEPT !.error[t] = "EOK"]
           x == [mx EXCEPT !.owner[m] = t, !.hold[m] = 1, !.mprio[m] = NoPrio]
           o == IF mx.ceiling[m] < k.prio[t] THEN UpdateThreadPrio(q, x, t, mx.ceiling[m])
                                             ELSE Outcome(q, x, None)
<1>1. /\ At(t, "run") /\ mx.linked[m] /\ mx.owner[m] = None
      /\ Becomes(o) /\ UNCHANGED <<isr, pc, mutex, target>>
  BY DEF TakeFree
<1>2. /\ Goes(t, "run", None) /\ Executes(t) /\ pc[t] = "run"
  BY <1>1, GoesNowhere
<1>3. /\ t = k.cur /\ k.stat[t] = "RUNNING" /\ t \notin Dead
      /\ \A w \in WaitList : ~Contains(k.wait[w], t)
  BY <1>2, ExecutingRuns
<1>4. "EOK" \in Error
  BY DEF Error
<1>5. /\ LoopOK(q, mx, None, {}, Dead)
      /\ q.cur = k.cur /\ q.nest = k.nest /\ q.stat = k.stat
      /\ q.timers = k.timers /\ q.wait = k.wait /\ q.prio = k.prio
      /\ \A u \in Thread : q.error[u] = IF u = t THEN "EOK" ELSE k.error[u]
  BY <1>4, ErrorOK
<1>6. /\ x \in MutexState
      /\ x.owner = [mx.owner EXCEPT ![m] = t] /\ x.hold = [mx.hold EXCEPT ![m] = 1]
      /\ x.mprio = [mx.mprio EXCEPT ![m] = NoPrio]
      /\ x.linked = mx.linked /\ x.pending = mx.pending
  <2>1. mx \in MutexState /\ 1 \in 0 .. HoldMax /\ NoPrio \in 0 .. NoPrio
    BY IInvFacts, PrioFacts
  <2> QED BY <2>1 DEF MutexState
<1> HIDE DEF q, x, o
<1>7. /\ mx \in MutexState
      /\ x.owner[m] = t /\ x.mprio[m] = NoPrio
      /\ \A w \in WaitList : w # m => x.owner[w] = mx.owner[w] /\ x.mprio[w] = mx.mprio[w]
  BY <1>6, IInvFacts DEF MutexState
<1>8. Queued(k, mx) /\ Ordered(k) /\ Known(k, mx) /\ Inherits(k, mx, None) /\ Sound(k, {})
  BY IInvFacts
<1>9. \A u \in Thread : ~Contains(k.wait[m], u)
  BY <1>1, <1>8 DEF Queued
<1>10. Queued(q, x)
  BY <1>5, <1>6, <1>7, <1>8, <1>9 DEF Queued
<1>11. Ordered(q) /\ Known(q, x)
  BY <1>5, <1>7, <1>8, <1>9 DEF Ordered, Known
<1>12. /\ k.prio[t] \in Prio /\ k.prio[t] <= NoPrio
       /\ \A w \in Taken(x, t) : w = m \/ (w # m /\ w \in Taken(mx, t))
  <2>1. k.prio[t] \in Prio
    BY <1>8 DEF Sound, KernelState
  <2>2. k.prio[t] <= NoPrio
    BY <2>1, PrioFacts
  <2> QED BY <1>6, <1>7, <2>1, <2>2 DEF Taken
<1>13. Inherits(q, x, None)
  BY <1>5, <1>6, <1>7, <1>8, <1>12 DEF Inherits
<1>14. Asleep(q, x, Dead)
  BY <1>3, <1>5, <1>6, <1>7 DEF LoopOK, Asleep
<1>15. LoopOK(q, x, None, {}, Dead)
  BY <1>5, <1>6, <1>10, <1>11, <1>13, <1>14 DEF LoopOK, Mutexes
<1>16. Updated(o, q, x, {}, Dead) /\ o.next = None /\ k' = o.k /\ mx' = o.mx
  <2>1. o.next = None /\ k' = o.k /\ mx' = o.mx
    BY <1>1 DEF Becomes
  <2>2. CASE mx.ceiling[m] < k.prio[t]
    <3>1. o = UpdateThreadPrio(q, x, t, mx.ceiling[m])
      BY <2>2 DEF o
    <3>2. mx.ceiling[m] \in 0 .. NoPrio /\ mx.ceiling[m] \in Prio
      <4>1. mx.ceiling[m] \in 0 .. NoPrio
        BY <1>7 DEF MutexState
      <4>2. mx.ceiling[m] <= k.prio[t]
        <5>1. mx.ceiling[m] \in Nat /\ k.prio[t] \in Nat
          BY <1>12, <4>1, PrioFacts
        <5> QED BY <2>2, <5>1
      <4> QED BY <1>12, <4>1, <4>2, PrioFacts
    <3>3. ASSUME NEW w \in Taken(x, t) PROVE mx.ceiling[m] <= x.mprio[w]
      <4>1. CASE w = m
        BY <1>7, <3>2, <4>1, PrioFacts
      <4>2. CASE w # m
        <5>1. w \in WaitList /\ w \in Taken(mx, t) /\ t # None
          BY <1>12, <4>2, PrioFacts DEF Taken
        <5>2. k.prio[t] <= mx.mprio[w] /\ mx.mprio[w] \in Nat
          BY <1>7, <1>8, <5>1, PrioFacts DEF Taken, Inherits, MutexState
        <5>3. k.prio[t] \in Nat /\ mx.ceiling[m] \in Nat
          BY <1>12, <3>2, PrioFacts
        <5> QED BY <1>7, <2>2, <4>2, <5>1, <5>2, <5>3
      <4> QED BY <4>1, <4>2
    <3>4. Fits(x, t, mx.ceiling[m])
      BY <3>2, <3>3 DEF Fits
    <3>5. LoopOK(q, x, t, {}, Dead)
      BY <1>3, <1>15, InheritsWeaker DEF LoopOK
    <3>6. Updated(UpdateThreadPrio(q, x, t, mx.ceiling[m]), q, x, {}, Dead)
      BY <1>3, <3>4, <3>5, UpdateThreadPrioOK
    <3> QED BY <2>1, <3>1, <3>6
  <2>3. CASE ~(mx.ceiling[m] < k.prio[t])
    <3>1. o.k = q /\ o.mx = x
      BY <2>3 DEF o, Outcome
    <3>2. Reprioritised(q, x, q, x)
      BY DEF Reprioritised
    <3> QED BY <1>15, <2>1, <3>1, <3>2 DEF Updated
  <2> QED BY <2>2, <2>3
<1>17. LoopOK(k', mx', None, {}, Dead) /\ Reprioritised(k', mx', q, x)
  BY <1>16 DEF Updated
<1>18. mx'.owner = x.owner /\ mx'.hold = x.hold /\ k'.error[t] = "EOK"
  BY <1>5, <1>17 DEF Reprioritised
<1>19. HeldIfOwned'
  <2>1. ASSUME NEW w \in WaitList PROVE mx'.owner[w] = None <=> mx'.hold[w] = 0
    <3>1. mx.owner[w] = None <=> mx.hold[w] = 0
      BY DEF IInv, HeldIfOwned
    <3>2. mx.owner \in [WaitList -> Thread \cup {None}] /\ mx.hold \in [WaitList -> 0 .. HoldMax]
      BY <1>7 DEF MutexState
    <3> QED BY <1>6, <1>18, <3>1, <3>2, PrioFacts
  <2> QED BY <2>1 DEF HeldIfOwned
<1>20. Steady(t)
  <2>1. /\ k'.cur = k.cur /\ k'.nest = k.nest /\ k'.stat = k.stat /\ k'.timers = k.timers
        /\ \A u \in Thread : u # t => k'.error[u] = k.error[u]
    BY <1>5, <1>17 DEF Reprioritised
  <2>2. /\ \A w \in WaitList, u \in Thread : Contains(k'.wait[w], u) <=> Contains(k.wait[w], u)
    BY <1>5, <1>17 DEF Reprioritised
  <2>3. mx'.pending = mx.pending
    BY <1>6, <1>17 DEF Reprioritised
  <2>4. \A w \in WaitList : mx.owner[w] \notin {None, t} => mx'.owner[w] = mx.owner[w]
    BY <1>1, <1>7, <1>18
  <2> QED BY <1>17, <1>19, <2>1, <2>2, <2>3, <2>4 DEF Steady
<1>21. target' = target /\ pc' = pc /\ mutex' = mutex
  BY <1>1
<1>22. IInv'
  BY <1>2, <1>20, <1>21, SteadyStep
<1> QED BY <1>6, <1>18, <1>20, <1>21, <1>22 DEF SamePlace

\* A step that changes how often a mutex is held and the error of t, no more.
LEMMA QuietStep ==
  ASSUME IInv, NEW t \in Thread, NEW e \in Error, At(t, "run"),
         k' = [k EXCEPT !.error[t] = e], mx' \in MutexState,
         mx'.owner = mx.owner, mx'.mprio = mx.mprio, mx'.ceiling = mx.ceiling,
         mx'.linked = mx.linked, mx'.pending = mx.pending, HeldIfOwned',
         UNCHANGED <<isr, pc, mutex, target>>
  PROVE  IInv' /\ Steady(t) /\ SamePlace(t) /\ k'.error[t] = e
<1> DEFINE r == [k EXCEPT !.error[t] = e]
<1>1. /\ LoopOK(r, mx, None, {}, Dead)
      /\ r.cur = k.cur /\ r.nest = k.nest /\ r.stat = k.stat
      /\ r.timers = k.timers /\ r.wait = k.wait /\ r.prio = k.prio
      /\ \A u \in Thread : r.error[u] = IF u = t THEN e ELSE k.error[u]
  BY ErrorOK
<1>2. k' = r
  OBVIOUS
<1> HIDE DEF r
<1>3. LoopOK(k', mx', None, {}, Dead)
  BY <1>1, <1>2, HoldOK
<1>4. Steady(t)
  BY <1>1, <1>2, <1>3 DEF Steady
<1>5. Goes(t, "run", None) /\ Executes(t) /\ pc[t] = "run"
  BY GoesNowhere
<1>6. IInv'
  BY <1>4, <1>5, SteadyStep
<1> QED BY <1>1, <1>2, <1>4, <1>6 DEF SamePlace

\* rt_mutex_take of a mutex the thread has.
LEMMA TakeAgainStep ==
  ASSUME IInv, NEW t \in Thread, NEW m \in WaitList, TakeAgain(t, m)
  PROVE  /\ IInv' /\ Steady(t) /\ SamePlace(t) /\ k'.error[t] = "EOK"
         /\ mx'.owner = mx.owner
         /\ mx'.hold = [mx.hold EXCEPT ![m] = IF @ < HoldMax THEN @ + 1 ELSE @]
<1> DEFINE h == IF mx.hold[m] < HoldMax THEN mx.hold[m] + 1 ELSE mx.hold[m]
<1>1. /\ At(t, "run") /\ mx.owner[m] = t /\ k' = [k EXCEPT !.error[t] = "EOK"]
      /\ mx' = [mx EXCEPT !.hold[m] = h] /\ UNCHANGED <<isr, pc, mutex, target>>
  BY DEF TakeAgain
<1>2. mx \in MutexState /\ "EOK" \in Error
  BY IInvFacts DEF Error
<1>3. h \in 0 .. HoldMax /\ h # 0
  <2>1. mx.hold[m] \in 0 .. HoldMax
    BY <1>2 DEF MutexState
  <2>2. mx.hold[m] # 0
    BY <1>1, PrioFacts DEF IInv, HeldIfOwned
  <2>3. HoldMax \in Nat
    BY MutexAssumption
  <2> QED BY <2>1, <2>2, <2>3
<1>4. mx'.hold = [mx.hold EXCEPT ![m] = IF @ < HoldMax THEN @ + 1 ELSE @]
  BY <1>1, <1>2 DEF MutexState
<1> HIDE DEF h
<1>5. /\ mx' \in MutexState /\ mx'.hold = [mx.hold EXCEPT ![m] = h]
      /\ mx'.owner = mx.owner /\ mx'.mprio = mx.mprio /\ mx'.ceiling = mx.ceiling
      /\ mx'.linked = mx.linked /\ mx'.pending = mx.pending
  BY <1>1, <1>2, <1>3 DEF MutexState
<1>6. HeldIfOwned'
  <2>1. mx.hold \in [WaitList -> 0 .. HoldMax] /\ t # None
    BY <1>2, PrioFacts DEF MutexState
  <2>2. \A w \in WaitList : mx'.hold[w] = IF w = m THEN h ELSE mx.hold[w]
    BY <1>5, <2>1
  <2> QED BY <1>1, <1>3, <1>5, <2>1, <2>2 DEF IInv, HeldIfOwned
<1>7. IInv' /\ Steady(t) /\ SamePlace(t) /\ k'.error[t] = "EOK"
  BY <1>1, <1>2, <1>5, <1>6, QuietStep
<1> QED BY <1>4, <1>5, <1>7

\* rt_mutex_take that does not wait; rt_mutex_release of a mutex the thread
\* does not have.
LEMMA RefusedStep ==
  ASSUME IInv, NEW t \in Thread, NEW m \in WaitList,
         TakeRefused(t, m) \/ ReleaseRefused(t, m)
  PROVE  IInv' /\ Steady(t) /\ SamePlace(t) /\ mx' = mx
<1>1. PICK e \in Error : /\ At(t, "run") /\ k' = [k EXCEPT !.error[t] = e]
                        /\ mx' = mx /\ UNCHANGED <<isr, pc, mutex, target>>
  BY DEF TakeRefused, ReleaseRefused, Error
<1>2. HeldIfOwned'
  BY <1>1 DEF IInv, HeldIfOwned
<1>3. IInv' /\ Steady(t) /\ SamePlace(t)
  BY <1>1, <1>2, IInvFacts, QuietStep
<1> QED BY <1>1, <1>3

\* rt_mutex_release of a mutex held more than once.
LEMMA ReleaseInnerStep ==
  ASSUME IInv, NEW t \in Thread, NEW m \in WaitList, ReleaseInner(t, m)
  PROVE  /\ IInv' /\ Steady(t) /\ SamePlace(t) /\ k' = k
         /\ mx'.owner = mx.owner
         /\ mx'.hold = [mx.hold EXCEPT ![m] = @ - 1]
<1> DEFINE h == mx.hold[m] - 1
<1>1. /\ At(t, "run") /\ mx.owner[m] = t /\ mx.hold[m] > 1 /\ k' = k
      /\ mx' = [mx EXCEPT !.hold[m] = h] /\ UNCHANGED <<isr, pc, mutex, target>>
  BY DEF ReleaseInner
<1>2. mx \in MutexState
  BY IInvFacts
<1>3. h \in 0 .. HoldMax /\ h # 0
  <2>1. mx.hold[m] \in 0 .. HoldMax
    BY <1>2 DEF MutexState
  <2>2. HoldMax \in Nat
    BY MutexAssumption
  <2> QED BY <1>1, <2>1, <2>2
<1>4. mx'.hold = [mx.hold EXCEPT ![m] = @ - 1]
  BY <1>1, <1>2 DEF MutexState
<1> HIDE DEF h
<1>5. /\ mx' \in MutexState /\ mx'.hold = [mx.hold EXCEPT ![m] = h]
      /\ mx'.owner = mx.owner /\ mx'.mprio = mx.mprio /\ mx'.ceiling = mx.ceiling
      /\ mx'.linked = mx.linked /\ mx'.pending = mx.pending
  BY <1>1, <1>2, <1>3 DEF MutexState
<1>6. HeldIfOwned'
  <2>1. mx.hold \in [WaitList -> 0 .. HoldMax] /\ t # None
    BY <1>2, PrioFacts DEF MutexState
  <2>2. \A w \in WaitList : mx'.hold[w] = IF w = m THEN h ELSE mx.hold[w]
    BY <1>5, <2>1
  <2> QED BY <1>1, <1>3, <1>5, <2>1, <2>2 DEF IInv, HeldIfOwned
<1>7. k.error[t] \in Error /\ k' = [k EXCEPT !.error[t] = k.error[t]]
  <2>1. k \in KernelState
    BY IInvFacts
  <2>2. k.error[t] \in Error
    BY <2>1 DEF KernelState
  <2>3. k.error = [k.error EXCEPT ![t] = k.error[t]]
    BY <2>1 DEF KernelState
  <2>4. k = [k EXCEPT !.error = k.error]
    BY <2>1 DEF KernelState
  <2> QED BY <1>1, <2>2, <2>3, <2>4
<1>8. IInv' /\ Steady(t) /\ SamePlace(t)
  BY <1>1, <1>5, <1>6, <1>7, QuietStep
<1> QED BY <1>1, <1>4, <1>5, <1>8

\* rt_mutex_take returns RT_EOK.
LEMMA TakeGrantedStep ==
  ASSUME IInv, NEW t \in Thread, TakeGranted(t)
  PROVE  IInv' /\ Steady(t) /\ Goes(t, "run", None) /\ k' = k /\ mx' = mx
<1>1. /\ Executes(t) /\ pc[t] = "take_return" /\ k' = k /\ isr' = isr
      /\ mx' = mx /\ target' = target
      /\ Return(t)
  BY DEF TakeGranted, At
<1>2. Goes(t, "run", None)
  BY <1>1 DEF Return, Goto, Goes, SamePlace, IInv, ControlOK, PC
<1>3. Steady(t)
  BY <1>1 DEF Steady, IInv, HeldIfOwned
<1>4. IInv'
  BY <1>1, <1>2, <1>3, SteadyStep
<1> QED BY <1>1, <1>2, <1>3, <1>4

\* A function that changes priorities has run, on mutexes that are otherwise
\* those of mx.
LEMMA OnlyPriorities ==
  ASSUME IInv, NEW t \in Thread, NEW x, NEW o, Becomes(o), Updated(o, k, x, {}, Dead),
         x.owner = mx.owner, x.hold = mx.hold, x.pending = mx.pending
  PROVE  /\ Steady(t) /\ k'.error = k.error
         /\ mx'.owner = mx.owner /\ mx'.hold = mx.hold
<1>1. LoopOK(k', mx', None, {}, Dead) /\ Reprioritised(k', mx', k, x)
  BY DEF Becomes, Updated
<1>2. /\ mx'.owner = mx.owner /\ mx'.hold = mx.hold /\ mx'.pending = mx.pending
      /\ k'.error = k.error
  BY <1>1 DEF Reprioritised
<1>3. HeldIfOwned'
  BY <1>2 DEF IInv, HeldIfOwned
<1> QED BY <1>1, <1>2, <1>3 DEF Steady, Reprioritised

\* rt_mutex_take returns an error.
LEMMA TakeFailedStep ==
  ASSUME IInv, NEW t \in Thread, TakeFailed(t)
  PROVE  /\ IInv' /\ Steady(t) /\ Goes(t, "run", None) /\ k'.error = k.error
         /\ mx'.owner = mx.owner /\ mx'.hold = mx.hold
<1> DEFINE o == Leave(k, mx, mutex[t], t)
<1>1. /\ Executes(t) /\ pc[t] = "take_return" /\ isr' = isr
      /\ mx.owner[mutex[t]] # None /\ Becomes(o) /\ target' = target
      /\ Return(t)
  BY DEF TakeFailed, At
<1>2. mutex[t] \in WaitList
  BY <1>1 DEF IInv, ThreadOK, Taking
<1>3. Updated(o, k, mx, {}, Dead)
  <2>1. LoopOK(k, mx, None, {}, Dead)
    BY DEF IInv
  <2> QED BY <1>1, <1>2, <2>1, LeaveOK
<1> HIDE DEF o
<1>4. /\ Steady(t) /\ k'.error = k.error
      /\ mx'.owner = mx.owner /\ mx'.hold = mx.hold
  BY <1>1, <1>3, OnlyPriorities
<1>5. Goes(t, "run", None)
  BY <1>1 DEF Return, Goto, Goes, SamePlace, IInv, ControlOK, PC
<1>6. IInv'
  BY <1>1, <1>4, <1>5, SteadyStep
<1> QED BY <1>4, <1>5, <1>6

\* rt_mutex_setprioceiling.
LEMMA SetPrioCeilingStep ==
  ASSUME IInv, NEW t \in Thread, NEW m \in WaitList, SetPrioCeiling(t, m)
  PROVE  /\ IInv' /\ Steady(t) /\ SamePlace(t) /\ k'.error = k.error
         /\ mx'.owner = mx.owner /\ mx'.hold = mx.hold
<1>1. PICK c \in Ceilings :
         Becomes(IF mx.owner[m] = None
                 THEN Outcome(k, [mx EXCEPT !.ceiling[m] = c], None)
                 ELSE UpdateOwnerPrio(k, [mx EXCEPT !.ceiling[m] = c], m))
  BY DEF SetPrioCeiling
<1> DEFINE x == [mx EXCEPT !.ceiling[m] = c]
           o == IF mx.owner[m] = None THEN Outcome(k, x, None) ELSE UpdateOwnerPrio(k, x, m)
<1>2. Becomes(o) /\ At(t, "run") /\ UNCHANGED <<isr, pc, mutex, target>>
  BY <1>1 DEF SetPrioCeiling
<1>3. /\ x \in MutexState
      /\ x.owner = mx.owner /\ x.hold = mx.hold /\ x.mprio = mx.mprio
      /\ x.linked = mx.linked /\ x.pending = mx.pending
  <2>1. mx \in MutexState /\ c \in 0 .. NoPrio
    BY IInvFacts, PrioFacts, MutexAssumption
  <2> QED BY <2>1 DEF MutexState
<1> HIDE DEF x
<1>4. LoopOK(k, x, None, {}, Dead)
  BY <1>3 DEF IInv, LoopOK, Mutexes, Queued, Known, Inherits, Asleep
<1>5. Updated(o, k, x, {}, Dead)
  <2>1. CASE mx.owner[m] = None
    <3>1. o.k = k /\ o.mx = x /\ o.next = None
      BY <2>1 DEF Outcome
    <3>2. Reprioritised(k, x, k, x)
      BY DEF Reprioritised
    <3> HIDE DEF o
    <3> QED BY <1>4, <3>1, <3>2 DEF Updated, o
  <2>2. CASE mx.owner[m] # None
    <3>1. Updated(UpdateOwnerPrio(k, x, m), k, x, {}, Dead)
      BY <1>3, <1>4, <2>2, UpdateOwnerPrioOK
    <3> QED BY <2>2, <3>1
  <2> QED BY <2>1, <2>2
<1> HIDE DEF o
<1>6. /\ Steady(t) /\ k'.error = k.error
      /\ mx'.owner = mx.owner /\ mx'.hold = mx.hold
  BY <1>2, <1>3, <1>5, OnlyPriorities
<1>7. Goes(t, "run", None) /\ Executes(t) /\ pc[t] = "run"
  BY <1>2, GoesNowhere
<1>8. IInv'
  BY <1>2, <1>6, <1>7, SteadyStep
<1> QED BY <1>2, <1>6, <1>8 DEF SamePlace

-----------------------------------------------------------------------------
(* rt_mutex_release *)

\* t goes on at c.
LEMMA GotoGoes ==
  ASSUME IInv, NEW t \in Thread, NEW c \in PC, At(t, "run"), Goto(t, c),
         isr' = isr, mutex' = mutex
  PROVE  Goes(t, c, None) /\ Executes(t) /\ pc[t] = "run" /\ mutex[t] = None
<1>1. Executes(t) /\ pc[t] = "run"
  BY DEF At
<1>2. mutex[t] = None
  BY <1>1 DEF IInv, ThreadOK
<1>3. pc' \in [Thread -> PC] /\ mutex' \in [Thread -> WaitList \cup {None}]
  BY DEF IInv, ControlOK, Goto
<1>4. pc'[t] = c /\ \A u \in Thread : u # t => pc'[u] = pc[u]
  BY DEF IInv, ControlOK, Goto
<1>5. Goes(t, c, None)
  BY <1>2, <1>3, <1>4 DEF Goes, SamePlace
<1> QED BY <1>1, <1>2, <1>5

\* The priority of a thread that runs, worked out anew or left as it is.
Restored(s, x, t, anew) == IF anew THEN SetPriority(s, t, GetMutexPrio(x, t)) ELSE s

\* Working it out anew keeps the mutexes in order.
LEMMA RestoredOK ==
  ASSUME NEW s, NEW x, NEW t \in Thread, NEW T, NEW D, T \subseteq D, NEW anew,
         LoopOK(s, x, None, T, D), t \notin D, s.stat[t] # "SUSPEND"
  PROVE  LET r == Restored(s, x, t, anew)
         IN  LoopOK(r, x, None, T, D) /\ Reprioritised(r, x, s, x)
<1> DEFINE p == GetMutexPrio(x, t)
           c == SetPriority(s, t, p)
           r == Restored(s, x, t, anew)
<1>1. x \in MutexState
  BY DEF LoopOK, Mutexes
<1>2. LoopOK(s, x, t, T, D)
  BY InheritsWeaker DEF LoopOK
<1>3. Fits(x, t, p)
  BY <1>1, GetMutexPrioFacts DEF Fits
<1> HIDE DEF p
<1>4. LoopOK(c, x, None, T, D) /\ Reprioritised(c, x, s, x)
  BY <1>2, <1>3, UpdateFirst
<1>5. Reprioritised(s, x, s, x)
  BY DEF Reprioritised
<1>6. r = IF anew THEN c ELSE s
  BY DEF Restored, p
<1> HIDE DEF r, c
<1>7. LoopOK(r, x, None, T, D) /\ Reprioritised(r, x, s, x)
  BY <1>4, <1>5, <1>6
<1> QED BY <1>7 DEF r

\* It moves nobody on a wait list, for t waits on none.
LEMMA RestoredWaits ==
  ASSUME NEW s, NEW x \in MutexState, NEW t \in Thread, NEW T, NEW anew,
         Sound(s, T), CurrentSound(s, T), t \notin T
  PROVE  Restored(s, x, t, anew).wait = s.wait
<1> DEFINE p == GetMutexPrio(x, t)
           c == SetPriority(s, t, p)
<1>1. p \in Prio
  BY GetMutexPrioFacts
<1> HIDE DEF p
<1>2. /\ Sound(c, T) /\ c.cur = s.cur /\ c.nest = s.nest
      /\ c.stat = s.stat /\ c.timers = s.timers
      /\ SameWaits(c, s) /\ SameClock(c, s)
  BY <1>1, SetPrioritySound
<1>3. Restored(s, x, t, anew) = IF anew THEN c ELSE s
  BY DEF Restored, p
<1> HIDE DEF c
<1> QED BY <1>2, <1>3 DEF SameWaits

\* The priority t should have depends on the mutexes t has.
LEMMA GetMutexPrioSame ==
  ASSUME NEW x, NEW y, NEW t, Taken(y, t) = Taken(x, t),
         \A m \in Taken(x, t) : y.mprio[m] = x.mprio[m] /\ y.ceiling[m] = x.ceiling[m]
  PROVE  GetMutexPrio(y, t) = GetMutexPrio(x, t)
<1>1. {y.mprio[m] : m \in Taken(y, t)} = {x.mprio[m] : m \in Taken(x, t)}
  OBVIOUS
<1>2. {y.ceiling[m] : m \in Taken(y, t)} = {x.ceiling[m] : m \in Taken(x, t)}
  OBVIOUS
<1> QED BY <1>1, <1>2 DEF GetMutexPrio

\* A release with nobody waiting.
LEMMA ReleaseFreeStep ==
  ASSUME IInv, NEW t \in Thread, NEW m \in WaitList, ReleaseOuter(t, m),
         k.wait[m] = <<>>
  PROVE  /\ IInv' /\ Steady(t) /\ k'.error = k.error
         /\ Goes(t, "run", None) \/ Goes(t, "post_sched", None)
         /\ mx'.owner = [mx.owner EXCEPT ![m] = None]
         /\ mx'.hold = [mx.hold EXCEPT ![m] = 0]
<1> DEFINE free == [mx EXCEPT !.owner[m] = None, !.hold[m] = 0]
           anew == mx.ceiling[m] # NoPrio \/ k.prio[t] = mx.mprio[m]
           r == Restored(k, free, t, anew)
           y == [free EXCEPT !.mprio[m] = NoPrio]
<1>1. /\ At(t, "run") /\ mx.linked[m] /\ mx.owner[m] = t /\ mx.hold[m] = 1
      /\ UNCHANGED <<isr, mutex, target>>
  BY DEF ReleaseOuter
<1>2. /\ Becomes(Outcome(r, y, None))
      /\ Goto(t, "post_sched") \/ UNCHANGED pc
  <2>1. /\ Becomes(Outcome(r, y, None))
        /\ IF anew THEN Goto(t, "post_sched") ELSE UNCHANGED pc
    BY DEF ReleaseOuter, Restored
  <2> QED BY <2>1
<1>3. k' = r /\ mx' = y
  BY <1>2 DEF Becomes, Outcome
<1>4. /\ free \in MutexState /\ mx \in MutexState
      /\ free.owner = [mx.owner EXCEPT ![m] = None]
      /\ free.hold = [mx.hold EXCEPT ![m] = 0] /\ free.mprio = mx.mprio
      /\ free.linked = mx.linked /\ free.pending = mx.pending
  <2>1. mx \in MutexState /\ 0 \in 0 .. HoldMax
    BY IInvFacts, PrioFacts
  <2> QED BY <2>1 DEF MutexState
<1> HIDE DEF free, anew
<1>5. /\ y \in MutexState
      /\ y.owner = free.owner /\ y.hold = free.hold
      /\ y.mprio = [free.mprio EXCEPT ![m] = NoPrio]
      /\ y.linked = free.linked /\ y.pending = free.pending
  <2>1. NoPrio \in 0 .. NoPrio
    BY PrioFacts
  <2> QED BY <1>4, <2>1 DEF MutexState
<1> HIDE DEF y
<1>6. /\ Executes(t) /\ pc[t] = "run" /\ t = k.cur /\ k.stat[t] = "RUNNING"
      /\ t \notin Dead
  BY <1>1, ExecutingRuns DEF At
<1>7. \A u \in Thread : ~Contains(k.wait[m], u)
  BY EmptyFacts
<1>8. \A w \in WaitList : free.owner[w] = IF w = m THEN None ELSE mx.owner[w]
  BY <1>4 DEF MutexState
<1>9. LoopOK(k, free, None, {}, Dead)
  <2>1. Queued(k, free)
    BY <1>4, <1>7, <1>8, IInvFacts DEF Queued
  <2>2. Ordered(k) /\ Known(k, free)
    BY <1>4, IInvFacts DEF Known
  <2>3. Inherits(k, free, None)
    BY <1>4, <1>8, IInvFacts DEF Inherits
  <2>4. Asleep(k, free, Dead)
    <3>1. None \notin Dead
      BY PrioFacts DEF Dead
    <3> QED BY <1>4, <1>8, <3>1 DEF IInv, LoopOK, Asleep
  <2> QED BY <1>4, <2>1, <2>2, <2>3, <2>4, IInvFacts DEF LoopOK, Mutexes
<1>10. LoopOK(r, free, None, {}, Dead) /\ Reprioritised(r, free, k, free)
  <2>1. k.stat[t] # "SUSPEND"
    BY <1>6
  <2> QED BY <1>6, <1>9, <2>1, RestoredOK
<1> HIDE DEF r
<1>11. \A w \in WaitList, u \in Thread : Contains(r.wait[w], u) => w # m
  BY <1>7, <1>10 DEF Reprioritised
<1>12. LoopOK(r, y, None, {}, Dead)
  <2>1. \A w \in WaitList : w # m => y.mprio[w] = free.mprio[w]
    BY <1>4, <1>5 DEF MutexState
  <2>2. Queued(r, y) /\ Ordered(r)
    BY <1>5, <1>10 DEF LoopOK, Mutexes, Queued
  <2>3. Known(r, y)
    BY <1>10, <1>11, <2>1 DEF LoopOK, Mutexes, Known
  <2>4. Inherits(r, y, None)
    BY <1>5, <1>8, <1>10, <2>1 DEF LoopOK, Mutexes, Inherits
  <2>5. Asleep(r, y, Dead)
    BY <1>5, <1>10 DEF LoopOK, Asleep
  <2> QED BY <1>5, <1>10, <2>2, <2>3, <2>4, <2>5 DEF LoopOK, Mutexes
<1>13. HeldIfOwned'
  <2>1. \A w \in WaitList : mx'.hold[w] = IF w = m THEN 0 ELSE mx.hold[w]
    BY <1>3, <1>4, <1>5 DEF MutexState
  <2>2. \A w \in WaitList : mx'.owner[w] = IF w = m THEN None ELSE mx.owner[w]
    BY <1>3, <1>5, <1>8
  <2> QED BY <2>1, <2>2 DEF IInv, HeldIfOwned
<1>14. Steady(t) /\ k'.error = k.error
  <2>1. /\ k'.cur = k.cur /\ k'.nest = k.nest /\ k'.stat = k.stat
        /\ k'.timers = k.timers /\ k'.error = k.error
        /\ \A w \in WaitList, u \in Thread :
              Contains(k'.wait[w], u) <=> Contains(k.wait[w], u)
    BY <1>3, <1>10 DEF Reprioritised
  <2>2. mx'.pending = mx.pending
    BY <1>3, <1>4, <1>5
  <2>3. \A w \in WaitList : mx.owner[w] \notin {None, t} => mx'.owner[w] = mx.owner[w]
    BY <1>1, <1>3, <1>5, <1>8
  <2>4. LoopOK(k', mx', None, {}, Dead)
    BY <1>3, <1>12
  <2> QED BY <1>13, <2>1, <2>2, <2>3, <2>4 DEF Steady
<1>15. Goes(t, "run", None) \/ Goes(t, "post_sched", None)
  <2>1. CASE Goto(t, "post_sched")
    <3>1. "post_sched" \in PC
      BY DEF PC
    <3> QED BY <1>1, <2>1, <3>1, GotoGoes
  <2>2. CASE UNCHANGED pc
    BY <1>1, <2>2, GoesNowhere
  <2> QED BY <1>2, <2>1, <2>2
<1>16. IInv'
  BY <1>1, <1>6, <1>14, <1>15, SteadyStep
<1>17. /\ mx'.owner = [mx.owner EXCEPT ![m] = None]
       /\ mx'.hold = [mx.hold EXCEPT ![m] = 0]
  BY <1>3, <1>4, <1>5
<1> QED BY <1>14, <1>15, <1>16, <1>17

\* The waiter n of m has been made ready, and m's priority worked out anew.
HandedOver(r, z, s, x, m, n) ==
  /\ OnlyStat(r, s, n, "READY") /\ OffWaits(r, s, n) /\ r.error = s.error
  /\ \A u : Contains(r.timers, u) => Contains(s.timers, u)
  /\ z.owner = x.owner /\ z.hold = x.hold /\ z.linked = x.linked
  /\ z.pending = [x.pending EXCEPT ![n] = None]

\* The hand-over of a mutex to a waiter that is on its list.
LEMMA HandOverOK ==
  ASSUME NEW s, NEW x, NEW T, NEW D, T \subseteq D, NEW m \in WaitList,
         NEW n \in Thread, LoopOK(s, x, None, T, D), Contains(s.wait[m], n),
         n # s.cur
  PROVE  LET r == ResumeThread(s, n)
             z == UpdateMutexPrio(r, [x EXCEPT !.pending[n] = None], m)
         IN  LoopOK(r, z, None, T, D) /\ HandedOver(r, z, s, x, m, n)
<1> DEFINE r == ResumeThread(s, n)
           y == [x EXCEPT !.pending[n] = None]
           z == UpdateMutexPrio(r, y, m)
<1>1. /\ Sound(s, T) /\ CurrentSound(s, T) /\ Mutexes(s, x, None) /\ Asleep(s, x, D)
      /\ x \in MutexState
  BY DEF LoopOK, Mutexes
<1>2. s.stat[n] = "SUSPEND" /\ n \notin T
  BY <1>1 DEF Sound, WaitSound
<1>3. /\ Sound(r, T)
      /\ OnlyStat(r, s, n, IF n = s.cur THEN "RUNNING" ELSE "READY")
      /\ \A u : Contains(r.timers, u) <=> Contains(s.timers, u) /\ u # n
      /\ n # s.cur => r.group # {}
      /\ OffWaits(r, s, n) /\ r.error = s.error /\ r.tick = s.tick
  BY <1>1, <1>2, ResumeThreadSound
<1>4. KeepsOrder(r, s)
  BY <1>1, ResumeOrder
<1> HIDE DEF r
<1>5. /\ y \in MutexState /\ y.pending = [x.pending EXCEPT ![n] = None]
      /\ y.owner = x.owner /\ y.hold = x.hold /\ y.linked = x.linked
      /\ y.mprio = x.mprio
  BY <1>1 DEF MutexState
<1> HIDE DEF y
<1>6. /\ OnlyStat(r, s, n, "READY") /\ r.prio = s.prio /\ r.cur = s.cur
      /\ r.stat[n] = "READY" /\ \A u \in Thread : u # n => r.stat[u] = s.stat[u]
  BY <1>3 DEF OnlyStat
<1>7. CurrentSound(r, T)
  <2>1. s.cur \in Thread
    BY <1>1 DEF Sound, KernelState
  <2> QED BY <1>1, <1>6, <2>1 DEF CurrentSound
<1>8. \A u \in Thread : y.pending[u] = IF u = n THEN None ELSE x.pending[u]
  BY <1>1, <1>5 DEF MutexState
<1>9. Mutexes(r, y, None)
  <2>1. Queued(r, y)
    BY <1>1, <1>3, <1>5, <1>8 DEF OffWaits, Mutexes, Queued
  <2>2. Ordered(r)
    BY <1>1, <1>4, <1>6 DEF Mutexes, Ordered, KeepsOrder
  <2>3. Known(r, y)
    BY <1>1, <1>3, <1>5, <1>6 DEF OffWaits, Mutexes, Known
  <2>4. Inherits(r, y, None)
    BY <1>1, <1>5, <1>6 DEF Mutexes, Inherits
  <2> QED BY <1>5, <2>1, <2>2, <2>3, <2>4 DEF Mutexes
<1>10. Asleep(r, y, D)
  <2>1. ASSUME NEW u \in Thread \ D, r.stat[u] = "SUSPEND", y.pending[u] # None
        PROVE  Contains(r.wait[y.pending[u]], u)
    <3>1. u # n
      BY <1>6, <2>1
    <3>2. s.stat[u] = "SUSPEND" /\ x.pending[u] = y.pending[u] /\ x.pending[u] \in WaitList
      BY <1>1, <1>6, <1>8, <2>1, <3>1 DEF MutexState
    <3>3. Contains(s.wait[x.pending[u]], u)
      BY <1>1, <2>1, <3>2 DEF Asleep
    <3> QED BY <1>3, <3>1, <3>2, <3>3 DEF OffWaits
  <2>2. \A w \in WaitList : y.owner[w] \notin D
    BY <1>1, <1>5 DEF Asleep
  <2> QED BY <2>1, <2>2 DEF Asleep
<1>11. /\ Mutexes(r, z, None)
       /\ z.owner = y.owner /\ z.hold = y.hold /\ z.ceiling = y.ceiling
       /\ z.linked = y.linked /\ z.pending = y.pending
  BY <1>3, <1>9, UpdateMutexPrioKeeps
<1> HIDE DEF z
<1>12. LoopOK(r, z, None, T, D)
  BY <1>3, <1>7, <1>10, <1>11 DEF LoopOK, Asleep
<1>13. HandedOver(r, z, s, x, m, n)
  BY <1>3, <1>5, <1>6, <1>11 DEF HandedOver
<1> QED BY <1>12, <1>13 DEF r, y, z

\* The mutex m in the hands of its first waiter n, who inherits from the others.
LEMMA GivenOK ==
  ASSUME IInv, NEW m \in WaitList, NEW n \in Thread, k.wait[m] # <<>>,
         n = Head(k.wait[m])
  PROVE  LET x == [mx EXCEPT !.owner[m] = n, !.hold[m] = 1]
             y == UpdateMutexPrio(k, x, m)
         IN  LoopOK(k, y, None, {}, Dead)
<1> DEFINE x == [mx EXCEPT !.owner[m] = n, !.hold[m] = 1]
           y == UpdateMutexPrio(k, x, m)
<1>1. /\ mx \in MutexState /\ Sound(k, {}) /\ k \in KernelState
      /\ Queued(k, mx) /\ Ordered(k) /\ Known(k, mx) /\ Inherits(k, mx, None)
  BY IInvFacts
<1>2. Contains(k.wait[m], n) /\ n # None
  BY <1>1, HeadFacts, PrioFacts DEF KernelState
<1>3. /\ x \in MutexState /\ x.owner = [mx.owner EXCEPT ![m] = n]
      /\ x.mprio = mx.mprio /\ x.linked = mx.linked /\ x.pending = mx.pending
  <2>1. 1 \in 0 .. HoldMax
    BY PrioFacts
  <2> QED BY <1>1, <2>1 DEF MutexState
<1>4. y.mprio[m] = k.prio[n]
  BY <1>1, <1>3 DEF UpdateMutexPrio, MutexState
<1>5. y.mprio = [x.mprio EXCEPT ![m] = k.prio[n]]
  BY <1>1, <1>3 DEF UpdateMutexPrio, MutexState
<1> HIDE DEF x
<1>6. \A w \in WaitList : x.owner[w] = IF w = m THEN n ELSE mx.owner[w]
  BY <1>1, <1>3 DEF MutexState
<1>7. Stale(k, x, n, m)
  <2>1. Queued(k, x)
    BY <1>1, <1>2, <1>3, <1>6 DEF Queued
  <2>2. Inherits(k, x, n)
    BY <1>1, <1>3, <1>6 DEF Inherits
  <2>3. \A w \in WaitList, t \in Thread :
           Contains(k.wait[w], t) /\ (w # m \/ x.owner[m] # n) => x.mprio[w] <= k.prio[t]
    BY <1>1, <1>3 DEF Known
  <2> QED BY <1>1, <1>3, <2>1, <2>2, <2>3 DEF Stale
<1>8. /\ Mutexes(k, y, n)
      /\ y.owner = x.owner /\ y.hold = x.hold /\ y.ceiling = x.ceiling
      /\ y.linked = x.linked /\ y.pending = x.pending
  BY <1>1, <1>7, UpdateMutexPrioSets
<1> HIDE DEF y
<1>9. Inherits(k, y, None)
  <2>1. ASSUME NEW w \in WaitList, y.linked[w], y.owner[w] # None
        PROVE  k.prio[y.owner[w]] <= y.mprio[w]
    <3>1. CASE w = m
      <4>1. k.prio[n] \in Nat
        BY <1>1, PrioFacts DEF KernelState
      <4> QED BY <1>4, <1>6, <1>8, <3>1, <4>1
    <3>2. CASE w # m
      <4>1. y.mprio[w] = mx.mprio[w] /\ y.owner[w] = mx.owner[w] /\ mx.linked[w]
        BY <1>1, <1>3, <1>5, <1>6, <1>8, <2>1, <3>2 DEF MutexState
      <4> QED BY <1>1, <2>1, <4>1 DEF Inherits
    <3> QED BY <3>1, <3>2
  <2> QED BY <2>1 DEF Inherits
<1>10. Mutexes(k, y, None)
  BY <1>8, <1>9 DEF Mutexes
<1>11. Asleep(k, y, Dead)
  <2>1. n \notin Dead
    <3>1. pc[n] \in Taking
      BY <1>2 DEF IInv, ThreadOK
    <3> QED BY <3>1 DEF Dead, Taking
  <2> QED BY <1>3, <1>6, <1>8, <2>1 DEF IInv, LoopOK, Asleep
<1>12. LoopOK(k, y, None, {}, Dead)
  BY <1>10, <1>11, IInvFacts DEF LoopOK
<1> QED BY <1>12 DEF y, x

\* A release that hands the mutex to its first waiter.
LEMMA ReleaseHandStep ==
  ASSUME IInv, NEW t \in Thread, NEW m \in WaitList, ReleaseOuter(t, m),
         k.wait[m] # <<>>
  PROVE  LET n == Head(k.wait[m])
         IN  /\ IInv' /\ n \in Thread /\ Contains(k.wait[m], n)
             /\ OffWaits(k', k, n) /\ k'.error = k.error
             /\ Goes(t, "post_sched", None)
             /\ mx'.owner = [mx.owner EXCEPT ![m] = n]
             /\ mx'.hold = [mx.hold EXCEPT ![m] = 1]
<1> DEFINE n == Head(k.wait[m])
           free == [mx EXCEPT !.owner[m] = None, !.hold[m] = 0]
           anew == mx.ceiling[m] # NoPrio \/ k.prio[t] = mx.mprio[m]
           x == [mx EXCEPT !.owner[m] = n, !.hold[m] = 1]
           y == UpdateMutexPrio(k, x, m)
           r == Restored(k, y, t, anew)
           q == ResumeThread(r, n)
           z == UpdateMutexPrio(q, [y EXCEPT !.pending[n] = None], m)
<1>1. /\ At(t, "run") /\ mx.linked[m] /\ mx.owner[m] = t /\ mx.hold[m] = 1
      /\ UNCHANGED <<isr, mutex, target>>
  BY DEF ReleaseOuter
<1>2. Becomes(Hand(Restored(k, free, t, anew), free, m)) /\ Goto(t, "post_sched")
  BY DEF ReleaseOuter, Restored
<1>3. mx \in MutexState /\ Sound(k, {}) /\ k \in KernelState
  BY IInvFacts
<1>4. n \in Thread /\ Contains(k.wait[m], n) /\ n # None
  BY <1>3, HeadFacts, PrioFacts DEF KernelState
<1>5. /\ Executes(t) /\ pc[t] = "run" /\ t = k.cur /\ k.stat[t] = "RUNNING"
      /\ t \notin Dead /\ ~Contains(k.wait[m], t)
  BY <1>1, ExecutingRuns DEF At
<1>6. k.stat[n] = "SUSPEND" /\ n # t
  BY <1>4, <1>5, IInvFacts
<1>7. LoopOK(k, y, None, {}, Dead)
  BY <1>4, GivenOK
<1>8. /\ free \in MutexState
      /\ free.owner = [mx.owner EXCEPT ![m] = None]
      /\ free.hold = [mx.hold EXCEPT ![m] = 0]
      /\ free.mprio = mx.mprio /\ free.ceiling = mx.ceiling
      /\ free.linked = mx.linked /\ free.pending = mx.pending
  <2>1. 0 \in 0 .. HoldMax
    BY PrioFacts
  <2> QED BY <1>3, <2>1 DEF MutexState
<1>9. /\ y.owner = [mx.owner EXCEPT ![m] = n] /\ y.hold = [mx.hold EXCEPT ![m] = 1]
      /\ y.ceiling = mx.ceiling /\ y.linked = mx.linked /\ y.pending = mx.pending
      /\ \A w \in WaitList : w # m => y.mprio[w] = mx.mprio[w]
  BY <1>3 DEF UpdateMutexPrio, MutexState
<1>10. y = [mx EXCEPT !.owner[m] = n, !.hold[m] = 1, !.mprio[m] = y.mprio[m]]
  BY <1>3 DEF UpdateMutexPrio, MutexState
<1> HIDE DEF x, n
<1>11. GetMutexPrio(y, t) = GetMutexPrio(free, t)
  <2>1. \A w \in WaitList : free.owner[w] = IF w = m THEN None ELSE mx.owner[w]
    BY <1>3, <1>8 DEF MutexState
  <2>2. \A w \in WaitList : y.owner[w] = IF w = m THEN n ELSE mx.owner[w]
    BY <1>3, <1>9 DEF MutexState
  <2>3. t # None
    BY PrioFacts
  <2> HIDE DEF y, free
  <2>4. Taken(y, t) = Taken(free, t)
    BY <1>6, <1>8, <1>9, <2>1, <2>2, <2>3 DEF Taken
  <2>5. \A w \in Taken(free, t) : w \in WaitList /\ w # m
    BY <2>1, <2>3 DEF Taken
  <2>6. \A w \in Taken(free, t) :
           y.mprio[w] = free.mprio[w] /\ y.ceiling[w] = free.ceiling[w]
    BY <1>8, <1>9, <2>5
  <2> QED BY <2>4, <2>6, GetMutexPrioSame
<1>12. Restored(k, free, t, anew) = r
  BY <1>11 DEF Restored
<1> HIDE DEF anew
<1>13. LoopOK(r, y, None, {}, Dead) /\ Reprioritised(r, y, k, y)
  <2>1. k.stat[t] # "SUSPEND"
    BY <1>5
  <2> QED BY <1>5, <1>7, <2>1, RestoredOK
<1> HIDE DEF r
<1>14. /\ r.cur = k.cur /\ r.nest = k.nest /\ r.stat = k.stat
       /\ r.timers = k.timers /\ r.error = k.error
       /\ \A w \in WaitList, u \in Thread : Contains(r.wait[w], u) <=> Contains(k.wait[w], u)
       /\ Sound(r, {})
  BY <1>13 DEF Reprioritised, LoopOK
<1>15. r.wait = k.wait
  <2>1. y \in MutexState /\ CurrentSound(k, {}) /\ t \notin {}
    BY <1>7 DEF LoopOK, Mutexes
  <2> HIDE DEF y
  <2> QED BY <1>3, <2>1, RestoredWaits DEF r
<1>16. Head(r.wait[m]) = n /\ Contains(r.wait[m], n) /\ r.stat[n] = "SUSPEND" /\ n # r.cur
  BY <1>4, <1>5, <1>6, <1>14, <1>15 DEF n
<1>17. ResumeThread(ListRemove(r, n), n) = q
  BY <1>4, <1>14, <1>16, ResumeUnlinked
<1> DEFINE given == [free EXCEPT !.owner[m] = n, !.hold[m] = 1, !.pending[n] = None]
           v == IF q.wait[m] = <<>> THEN NoPrio ELSE q.prio[Head(q.wait[m])]
<1>18. k' = q /\ mx' = UpdateMutexPrio(q, given, m)
  <2>1. Becomes(Hand(r, free, m))
    BY <1>2, <1>12
  <2>2. Hand(r, free, m) = Outcome(q, UpdateMutexPrio(q, given, m), None)
    BY <1>16, <1>17 DEF Hand
  <2> HIDE DEF q, given
  <2> QED BY <2>1, <2>2 DEF Becomes, Outcome
<1>19. mx' = z
  <2>1. UpdateMutexPrio(q, given, m) = [given EXCEPT !.mprio[m] = v]
    BY DEF UpdateMutexPrio
  <2>2. z = [[y EXCEPT !.pending[n] = None] EXCEPT !.mprio[m] = v]
    BY DEF UpdateMutexPrio
  <2> DEFINE w == y.mprio[m]
  <2> HIDE DEF q, v
  <2>3. y = [mx EXCEPT !.owner[m] = n, !.hold[m] = 1, !.mprio[m] = w]
    BY <1>10
  <2> HIDE DEF y, w
  <2>4. [given EXCEPT !.mprio[m] = v]
          = [mx EXCEPT !.owner[m] = n, !.hold[m] = 1, !.pending[n] = None, !.mprio[m] = v]
    BY <1>3, <1>4, ZenonT(60) DEF MutexState
  <2>5. [[y EXCEPT !.pending[n] = None] EXCEPT !.mprio[m] = v]
          = [mx EXCEPT !.owner[m] = n, !.hold[m] = 1, !.pending[n] = None, !.mprio[m] = v]
    BY <1>3, <1>4, <2>3, ZenonT(60) DEF MutexState
  <2> QED BY <1>18, <2>1, <2>2, <2>4, <2>5
<1>20. LoopOK(q, z, None, {}, Dead) /\ HandedOver(q, z, r, y, m, n)
  <2> HIDE DEF y
  <2>1. LoopOK(r, y, None, {}, Dead) /\ Contains(r.wait[m], n) /\ n # r.cur
    BY <1>13, <1>16
  <2> QED BY <1>4, <2>1, HandOverOK
<1> HIDE DEF q, z
<1>21. /\ LoopOK(k', mx', None, {}, Dead)
       /\ k'.cur = k.cur /\ k'.nest = k.nest /\ k'.stat[n] = "READY"
       /\ \A u \in Thread : u # n => k'.stat[u] = k.stat[u]
       /\ OffWaits(k', k, n) /\ k'.error = k.error
       /\ \A u : Contains(k'.timers, u) => Contains(k.timers, u)
       /\ mx'.owner = [mx.owner EXCEPT ![m] = n]
       /\ mx'.hold = [mx.hold EXCEPT ![m] = 1]
       /\ mx'.pending = [mx.pending EXCEPT ![n] = None]
  <2>1. /\ OnlyStat(q, r, n, "READY") /\ OffWaits(q, r, n) /\ q.error = r.error
        /\ \A u : Contains(q.timers, u) => Contains(r.timers, u)
        /\ z.owner = y.owner /\ z.hold = y.hold
        /\ z.pending = [y.pending EXCEPT ![n] = None]
    BY <1>20 DEF HandedOver
  <2> HIDE DEF y
  <2> QED BY <1>9, <1>14, <1>15, <1>18, <1>19, <1>20, <2>1 DEF OnlyStat, OffWaits
<1>22. Goes(t, "post_sched", None)
  <2>1. "post_sched" \in PC
    BY DEF PC
  <2> QED BY <1>1, <1>2, <2>1, GotoGoes
<1>23. ControlOK' /\ k'.nest = 0 /\ CurrentRuns' /\ IdleCanRun'
  <2>1. ControlOK'
    BY <1>1, <1>22 DEF IInv, ControlOK, Goes
  <2>2. k'.stat[k'.cur] = "RUNNING" /\ k'.nest = 0
    BY <1>5, <1>6, <1>21 DEF IInv
  <2>3. k'.stat[Idle] \in {"READY", "RUNNING"}
    BY <1>6, <1>21, IInvFacts DEF IInv, IdleCanRun
  <2> QED BY <2>1, <2>2, <2>3 DEF CurrentRuns, IdleCanRun
<1>24. \A w \in WaitList : /\ mx'.owner[w] = IF w = m THEN n ELSE mx.owner[w]
                           /\ mx'.hold[w] = IF w = m THEN 1 ELSE mx.hold[w]
  BY <1>3, <1>21 DEF MutexState
<1>25. HeldIfOwned'
  BY <1>4, <1>24 DEF IInv, HeldIfOwned
<1>26. DeadSame
  <2>1. n \notin Dead
    BY <1>4 DEF IInv, ThreadOK, Taking, Dead
  <2>2. \A u \in Dead : mx'.pending[u] = mx.pending[u] /\ k'.stat[u] = k.stat[u]
    BY <1>3, <1>21, <2>1 DEF Dead, MutexState
  <2>3. \A u \in Thread : /\ pc'[u] = "dead" <=> pc[u] = "dead"
                          /\ pc'[u] = "drop" => pc[u] = "drop"
    BY <1>5, <1>22 DEF Goes, SamePlace
  <2> QED BY <1>1, <1>21, <2>2, <2>3 DEF DeadSame
<1>27. ASSUME NEW u \in Thread PROVE ThreadOK(u)'
  <2>0. ThreadOK(u) /\ ThreadOK(t) /\ ThreadOK(n)
    BY <1>4 DEF IInv
  <2>1. CASE u = t
    <3>1. \A w \in WaitList : ~Contains(k'.wait[w], t)
      BY <1>1, <1>5, <1>21, ExecutingRuns DEF OffWaits
    <3>2. pc'[t] \notin Taking /\ mutex'[t] = None
      BY <1>22 DEF Goes, Taking
    <3> QED BY <2>1, <3>1, <3>2, OutsideOK
  <2>2. CASE u = n
    <3>1. mutex[n] = m /\ SamePlace(n)
      BY <1>4, <1>6, <1>22, <2>0 DEF ThreadOK, Goes
    <3>2. Freed(k', mx', n)
      BY <1>4, <1>21, <1>24, <3>1 DEF Freed, OffWaits
    <3> QED BY <2>0, <2>2, <3>1, <3>2, FreedOK
  <2>3. CASE u # t /\ u # n
    <3>1. pc'[u] = pc[u] /\ mutex'[u] = mutex[u]
      BY <1>22, <2>3 DEF Goes, SamePlace
    <3>2. Stays(k', mx', u)
      BY <1>1, <1>21, <1>24, <2>3 DEF Stays, OffWaits
    <3> QED BY <2>0, <3>1, <3>2, StaysOK
  <2> QED BY <2>1, <2>2, <2>3
<1>28. IInv'
  BY <1>21, <1>23, <1>25, <1>26, <1>27, LivingStep
<1> QED BY <1>4, <1>21, <1>22, <1>28 DEF n

-----------------------------------------------------------------------------
(* rt_schedule *)

\* rt_schedule, called on the way into rt_mutex_take or out of another function.
LEMMA ScheduleStep ==
  ASSUME IInv, NEW t \in Thread, TakeSchedule(t) \/ CallSchedule(t)
  PROVE  /\ IInv' /\ SameWaits(k', k) /\ mx' = mx /\ mutex' = mutex
         /\ \A u \in Thread : pc'[u] = "dead" <=> pc[u] = "dead"
<1>1. /\ Executes(t) /\ k' = Schedule(k)
      /\ isr' = isr /\ mx' = mx /\ mutex' = mutex /\ target' = target
      /\ \/ pc[t] = "take_sched" /\ Goto(t, "take_return")
         \/ pc[t] = "post_sched" /\ Goto(t, "run")
  BY DEF TakeSchedule, CallSchedule, At
<1>2. /\ Sound(k, {}) /\ CurrentSound(k, {}) /\ Mutexes(k, mx, None)
      /\ Asleep(k, mx, Dead) /\ k.nest = 0 /\ HeldIfOwned
  BY DEF IInv, LoopOK
<1>3. Sound(k', {}) /\ CurrentSound(k', {}) /\ AfterSchedule(k', k, {})
  BY <1>1, <1>2, ScheduleSound
<1>4. /\ k'.nest = k.nest /\ k'.prio = k.prio /\ k'.timers = k.timers
      /\ k'.wait = k.wait /\ k'.error = k.error
      /\ \A u \in Thread : IF k.stat[u] \in {"READY", "RUNNING"}
                           THEN k'.stat[u] \in {"READY", "RUNNING"}
                           ELSE k'.stat[u] = k.stat[u]
  BY <1>3 DEF AfterSchedule, SameWaits
<1>5. k'.stat[k'.cur] = "RUNNING"
  BY <1>2, <1>3, SomebodyReady DEF AfterSchedule
<1>6. LoopOK(k', mx', None, {}, Dead)
  <2>1. Mutexes(k', mx', None)
    BY <1>1, <1>2, <1>4, MutexesSame
  <2>2. Asleep(k', mx', Dead)
    BY <1>1, <1>2, <1>4 DEF Asleep
  <2> QED BY <1>3, <2>1, <2>2 DEF LoopOK
<1>7. /\ \A u \in Thread : u # t => pc'[u] = pc[u]
      /\ \/ pc[t] = "take_sched" /\ pc'[t] = "take_return"
         \/ pc[t] = "post_sched" /\ pc'[t] = "run"
      /\ pc' \in [Thread -> PC]
  BY <1>1 DEF IInv, ControlOK, Goto, PC
<1>8. ControlOK'
  BY <1>1, <1>7 DEF IInv, ControlOK
<1>9. CurrentRuns' /\ IdleCanRun' /\ HeldIfOwned' /\ k'.nest = 0
  BY <1>1, <1>2, <1>4, <1>5, IInvFacts DEF IInv, CurrentRuns, IdleCanRun, HeldIfOwned
<1>10. ASSUME NEW u \in Thread PROVE ThreadOK(u)'
  <2>1. ThreadOK(u) /\ mutex'[u] = mutex[u]
    BY <1>1 DEF IInv
  <2>2. Stays(k', mx', u)
    BY <1>1, <1>4 DEF Stays
  <2>3. CASE pc'[u] = pc[u] \/ (pc[u] \in Taking /\ pc'[u] \in Taking)
    BY <2>1, <2>2, <2>3, StaysOK
  <2>4. CASE pc[u] = "post_sched" /\ pc'[u] = "run"
    <3>1. \A w \in WaitList : ~Contains(k'.wait[w], u)
      BY <1>4, <2>1, <2>4 DEF ThreadOK, Taking
    <3>2. pc'[u] \notin Taking /\ mutex'[u] = None
      BY <2>1, <2>4 DEF ThreadOK, Taking
    <3> QED BY <3>1, <3>2, OutsideOK
  <2> QED BY <1>7, <2>3, <2>4 DEF Taking
<1>11. DeadSame
  <2>1. \A u \in Dead : k'.stat[u] = k.stat[u]
    BY <1>4 DEF Dead, IInv, DeadStay
  <2> QED BY <1>1, <1>4, <1>7, <2>1 DEF DeadSame
<1>12. IInv'
  BY <1>6, <1>8, <1>9, <1>10, <1>11, LivingStep
<1>13. SameWaits(k', k)
  BY <1>4 DEF SameWaits
<1> QED BY <1>1, <1>7, <1>12, <1>13

-----------------------------------------------------------------------------
(* Steps that wake threads *)

\* The threads of W are woken and told e, and the current one runs.
Wakes(W, e) ==
  /\ Sound(k', {}) /\ CurrentSound(k', {}) /\ KeepsOrder(k', k)
  /\ k'.nest = k.nest /\ k'.prio = k.prio
  /\ \A u \in Thread : Contains(k'.timers, u) => Contains(k.timers, u)
  /\ \A u \in Thread : IF k.stat[u] \in {"READY", "RUNNING"} \/ u \in W
                       THEN k'.stat[u] \in {"READY", "RUNNING"}
                       ELSE k'.stat[u] = k.stat[u]
  /\ \A w \in WaitList, u \in Thread :
        Contains(k'.wait[w], u) <=> Contains(k.wait[w], u) /\ u \notin W
  /\ \A u \in Thread : k'.error[u] = IF u \in W THEN e ELSE k.error[u]
  /\ CurrentRuns'

\* A step that wakes the threads of W with an error, and may detach mutexes that
\* nobody waits for then.
LEMMA WakeStep ==
  ASSUME IInv, NEW W \in SUBSET Thread, NEW e, e # "EOK", Wakes(W, e),
         \A u \in W : u \notin Dead,
         mx' \in MutexState, mx'.owner = mx.owner, mx'.hold = mx.hold,
         mx'.mprio = mx.mprio, mx'.pending = mx.pending,
         \A w \in WaitList : mx'.linked[w] => mx.linked[w],
         \A w \in WaitList, u \in Thread :
            Contains(k.wait[w], u) /\ u \notin W => mx'.linked[w],
         isr' \in {"none", "tick"}, UNCHANGED <<pc, mutex, target>>
  PROVE  IInv'
<1>1. /\ Sound(k, {}) /\ Queued(k, mx) /\ Ordered(k) /\ Known(k, mx)
      /\ Inherits(k, mx, None) /\ Asleep(k, mx, Dead) /\ k.nest = 0 /\ HeldIfOwned
  BY DEF IInv, LoopOK, Mutexes
<1>2. pc' = pc /\ mutex' = mutex /\ target' = target
  OBVIOUS
<1>3. Mutexes(k', mx', None)
  <2>1. Queued(k', mx')
    BY <1>1 DEF Wakes, Queued
  <2>2. Ordered(k')
    BY <1>1 DEF Wakes, KeepsOrder, Ordered
  <2>3. Known(k', mx')
    BY <1>1 DEF Wakes, Known
  <2>4. Inherits(k', mx', None)
    BY <1>1 DEF Wakes, Inherits
  <2> QED BY <2>1, <2>2, <2>3, <2>4 DEF Mutexes
<1>4. Asleep(k', mx', Dead)
  <2>1. ASSUME NEW u \in Thread \ Dead, k'.stat[u] = "SUSPEND", mx'.pending[u] # None
        PROVE  Contains(k'.wait[mx'.pending[u]], u)
    <3>1. u \notin W /\ k.stat[u] = "SUSPEND"
      BY <2>1 DEF Wakes
    <3>2. mx'.pending[u] = mx.pending[u] /\ mx'.pending[u] \in WaitList
      BY <2>1 DEF MutexState
    <3> QED BY <1>1, <2>1, <3>1, <3>2 DEF Asleep, Wakes
  <2> QED BY <1>1, <2>1 DEF Asleep
<1>5. LoopOK(k', mx', None, {}, Dead)
  BY <1>3, <1>4 DEF LoopOK, Wakes
<1>6. ControlOK'
  BY <1>2 DEF IInv, ControlOK
<1>7. k'.nest = 0 /\ CurrentRuns' /\ IdleCanRun' /\ HeldIfOwned'
  BY <1>1, IInvFacts DEF IInv, IdleCanRun, HeldIfOwned, Wakes
<1>8. ASSUME NEW u \in Thread PROVE ThreadOK(u)'
  <2>1. ThreadOK(u) /\ SamePlace(u) /\ mutex'[u] = mutex[u] /\ pc'[u] = pc[u]
    BY <1>2 DEF IInv, SamePlace
  <2>2. CASE u \in W
    <3>1. Freed(k', mx', u)
      BY <2>2 DEF Freed, Wakes
    <3> QED BY <2>1, <3>1, FreedOK
  <2>3. CASE u \notin W
    <3>1. Stays(k', mx', u)
      BY <2>3 DEF Stays, Wakes
    <3> QED BY <2>1, <3>1, StaysOK
  <2> QED BY <2>2, <2>3
<1>9. DeadSame
  <2>1. \A u \in Dead : u \in Thread /\ u \notin W /\ k.stat[u] \in {"SUSPEND", "CLOSE"}
    BY DEF IInv, DeadStay, Dead
  <2>2. \A u \in Dead : k'.stat[u] = k.stat[u]
    BY <2>1 DEF Wakes
  <2>3. \A u \in Dead : Contains(k'.timers, u) => Contains(k.timers, u)
    BY <2>1 DEF Wakes
  <2> QED BY <1>2, <2>2, <2>3 DEF DeadSame
<1> QED BY <1>5, <1>6, <1>7, <1>8, <1>9, LivingStep

\* rt_mutex_detach turns every waiter away.
LEMMA DetachStep ==
  ASSUME IInv, NEW t \in Thread, NEW m \in WaitList, Detach(t, m)
  PROVE  /\ IInv' /\ mx'.owner = mx.owner /\ mx'.hold = mx.hold
         /\ Wakes({x \in Thread : Contains(k.wait[m], x)}, "ERROR")
         /\ UNCHANGED <<pc, mutex>>
<1> DEFINE X == {x \in Thread : Contains(k.wait[m], x)}
<1>1. /\ At(t, "run") /\ k' = IpcListResumeAll(k, m)
      /\ mx' = [mx EXCEPT !.linked[m] = FALSE]
      /\ UNCHANGED <<isr, pc, mutex, target>>
  BY DEF Detach
<1>2. mx \in MutexState /\ Sound(k, {}) /\ CurrentSound(k, {}) /\ Queued(k, mx)
  BY IInvFacts
<1>3. t = k.cur /\ k.stat[t] = "RUNNING" /\ \A w \in WaitList : ~Contains(k.wait[w], t)
  BY <1>1, ExecutingRuns DEF At
<1>4. Sound(k', {}) /\ AllWoken(k', k, X, "ERROR") /\ KeepsOrder(k', k)
  BY <1>1, <1>2, ResumeAllSound
<1>5. /\ mx' \in MutexState /\ mx'.owner = mx.owner /\ mx'.hold = mx.hold
      /\ mx'.mprio = mx.mprio /\ mx'.pending = mx.pending
      /\ \A w \in WaitList : mx'.linked[w] = (mx.linked[w] /\ w # m)
  BY <1>1, <1>2 DEF MutexState
<1>6. \A u \in Thread : u \in X <=> Contains(k.wait[m], u)
  OBVIOUS
<1>7. X \in SUBSET Thread
  OBVIOUS
<1> HIDE DEF X
<1>8. k'.cur = k.cur /\ t \notin X /\ k'.stat[t] = "RUNNING"
  BY <1>3, <1>4, <1>6 DEF AllWoken
<1>9. CurrentSound(k', {})
  BY <1>2, <1>3, <1>4, <1>8 DEF AllWoken, CurrentSound
<1>10. CurrentRuns'
  BY <1>3, <1>8 DEF CurrentRuns
<1>11. Wakes(X, "ERROR")
  <2>1. \A u \in Thread : IF k.stat[u] \in {"READY", "RUNNING"} \/ u \in X
                          THEN k'.stat[u] \in {"READY", "RUNNING"}
                          ELSE k'.stat[u] = k.stat[u]
    BY <1>4 DEF AllWoken
  <2> QED BY <1>4, <1>9, <1>10, <2>1 DEF AllWoken, Wakes
<1>12. \A u \in X : u \notin Dead
  BY <1>6, <1>7 DEF IInv, ThreadOK, Taking, Dead
<1>13. \A w \in WaitList, u \in Thread :
          Contains(k.wait[w], u) /\ u \notin X => mx'.linked[w]
  BY <1>2, <1>5, <1>6 DEF Queued
<1>14. isr' \in {"none", "tick"} /\ UNCHANGED <<pc, mutex, target>>
  BY <1>1 DEF IInv, ControlOK
<1>15. \A w \in WaitList : mx'.linked[w] => mx.linked[w]
  BY <1>5
<1>16. IInv'
  BY <1>5, <1>7, <1>11, <1>12, <1>13, <1>14, <1>15, WakeStep
<1> QED BY <1>5, <1>11, <1>14, <1>16 DEF X

\* One step of the SysTick handler wakes at most one thread, of a timeout.
LEMMA InterruptStep ==
  ASSUME IInv, Interrupt
  PROVE  /\ IInv' /\ mx' = mx /\ UNCHANGED <<pc, mutex>>
         /\ \E W \in SUBSET Thread :
              /\ Wakes(W, "ETIMEOUT")
              /\ \A t \in W : k.stat[t] = "SUSPEND" /\ t \notin Dead
              /\ \A t, u \in W : t = u
<1>1. TickStep /\ UNCHANGED <<mx, pc, mutex, target>>
  BY DEF Interrupt
<1>2. mx \in MutexState /\ Sound(k, {}) /\ CurrentSound(k, {}) /\ Queued(k, mx)
  BY IInvFacts
<1>3. /\ Sound(k', {}) /\ CurrentSound(k', {})
      /\ \E W \in SUBSET Thread :
           /\ Progress(k', k, {}, W)
           /\ \A t \in W : Contains(k.timers, t) /\ k.stat[t] = "SUSPEND"
           /\ \A t, u \in W : t = u
      /\ isr' \in {"none", "tick"}
  BY <1>1, <1>2, TickStepSound
<1>4. KeepsOrder(k', k)
  BY <1>1, <1>2, TickStepOrder
<1>5. PICK W \in SUBSET Thread :
        /\ Progress(k', k, {}, W)
        /\ \A t \in W : Contains(k.timers, t) /\ k.stat[t] = "SUSPEND"
        /\ \A t, u \in W : t = u
  BY <1>3
<1>6. CurrentRuns'
  BY <1>1, <1>5 DEF IInv, CurrentRuns, Progress
<1>7. Wakes(W, "ETIMEOUT")
  BY <1>3, <1>4, <1>5, <1>6 DEF Progress, TimedOut, Wakes
<1>8. \A u \in W : u \notin Dead
  BY <1>5 DEF IInv, DeadStay, Dead
<1>9. /\ mx' \in MutexState /\ mx'.owner = mx.owner /\ mx'.hold = mx.hold
      /\ mx'.mprio = mx.mprio /\ mx'.pending = mx.pending
      /\ \A w \in WaitList : mx'.linked[w] => mx.linked[w]
      /\ \A w \in WaitList, u \in Thread : Contains(k.wait[w], u) => mx'.linked[w]
  BY <1>1, <1>2 DEF Queued
<1>10. IInv'
  BY <1>1, <1>3, <1>7, <1>8, <1>9, WakeStep
<1> QED BY <1>1, <1>5, <1>7, <1>8, <1>10

-----------------------------------------------------------------------------
(* rt_mutex_take that waits *)

\* o is a record of the three fields of an Outcome and no other.
IsOutcome(o) == o = Outcome(o.k, o.mx, o.next)

\* One call of _thread_update_priority yields an Outcome.
LEMMA UpdateOneIsOutcome ==
  ASSUME NEW s, NEW x, NEW t, NEW p
  PROVE  IsOutcome(UpdateOne(s, x, t, p))
<1>1. \A r, y, n : IsOutcome(Outcome(r, y, n))
  BY DEF IsOutcome, Outcome
<1>2. PICK r, y, n : UpdateOne(s, x, t, p) = Outcome(r, y, n)
  BY DEF UpdateOne
<1> QED BY <1>1, <1>2

\* So does _thread_update_priority.
LEMMA UpdateIsOutcome ==
  ASSUME NEW s, NEW x, NEW t, NEW p
  PROVE  IsOutcome(UpdateThreadPrio(s, x, t, p))
<1>1. PICK calls : /\ calls[0] = UpdateOne(s, x, t, p)
                   /\ \A n \in 1 .. Depth : calls[n] = NextCall(calls[n - 1])
                   /\ calls[Depth] = UpdateThreadPrio(s, x, t, p)
  BY Calls
<1> DEFINE Holds == {n \in 0 .. Depth : IsOutcome(calls[n])}
<1>0. Depth \in Nat
  BY MutexAssumption
<1>2. 0 \in Holds
  BY <1>0, <1>1, UpdateOneIsOutcome
<1>3. ASSUME NEW n \in 0 .. Depth - 1, n \in Holds PROVE n + 1 \in Holds
  <2>1. n + 1 \in 1 .. Depth /\ n + 1 \in 0 .. Depth /\ (n + 1) - 1 = n
    BY <1>0
  <2>2. calls[n + 1] = NextCall(calls[n])
    BY <1>1, <2>1
  <2>3. IsOutcome(NextCall(calls[n]))
    BY <1>3, UpdateOneIsOutcome DEF NextCall
  <2> QED BY <2>1, <2>2, <2>3
<1>4. Depth \in Holds
  <2> HIDE DEF Holds
  <2>1. \A n \in 0 .. Depth : n \in Holds
    BY <1>0, <1>2, <1>3, SetInduction
  <2> QED BY <1>0, <2>1
<1> QED BY <1>1, <1>4

\* rt_mutex_take and rt_mutex_drop_thread leave an Outcome.
LEMMA EndsInOutcome ==
  ASSUME NEW s, NEW x, NEW m, NEW t
  PROVE  IsOutcome(Enqueue(s, x, m, t)) /\ IsOutcome(Leave(s, x, m, t))
<1>1. \A r, y, n : IsOutcome(Outcome(r, y, n))
  BY DEF IsOutcome, Outcome
<1>2. IsOutcome(Enqueue(s, x, m, t))
  BY <1>1, UpdateIsOutcome DEF Enqueue
<1>3. \A y : IsOutcome(UpdateOwnerPrio(s, y, m))
  BY <1>1, UpdateIsOutcome DEF UpdateOwnerPrio
<1>4. IsOutcome(Leave(s, x, m, t))
  BY <1>1, <1>3 DEF Leave
<1> QED BY <1>2, <1>4

\* From k, mx to r, y the thread t has suspended itself on the list of m.
Entered(r, y, t, m) ==
  /\ OnWait(r, k, m, t) /\ r.cur = k.cur /\ r.nest = k.nest
  /\ r.stat[t] = "SUSPEND" /\ \A u \in Thread : u # t => r.stat[u] = k.stat[u]
  /\ \A u \in Thread : r.error[u] = IF u = t THEN "EOK" ELSE k.error[u]
  /\ \A u \in Thread : Contains(r.timers, u) => Contains(k.timers, u) \/ u = t
  /\ y.owner = mx.owner /\ y.hold = mx.hold
  /\ y.pending = [mx.pending EXCEPT ![t] = m]

\* t has been put on the list of m, with the mutexes as they were.
LEMMA SuspendOK ==
  ASSUME IInv, NEW t \in Thread, NEW m \in WaitList, At(t, "run")
  PROVE  LET r == IpcListSuspend([k EXCEPT !.error[t] = "EOK"], m, t, "PRIO")
         IN  /\ Sound(r, {}) /\ CurrentSound(r, {}) /\ r.prio = k.prio
             /\ Ordered(r) /\ r.stat[t] = "SUSPEND"
             /\ Entered(r, [mx EXCEPT !.pending[t] = m], t, m)
<1> DEFINE e == [k EXCEPT !.error[t] = "EOK"]
           q == SuspendThread(e, t)
           r == WaitInsert(q, m, t, "PRIO")
           y == [mx EXCEPT !.pending[t] = m]
<1>0. "EOK" \in Error /\ mx \in MutexState /\ Ordered(k)
  BY IInvFacts DEF Error
<1>1. t = k.cur /\ k.stat[t] = "RUNNING" /\ \A w \in WaitList : ~Contains(k.wait[w], t)
  BY ExecutingRuns DEF At
<1>2. /\ LoopOK(e, mx, None, {}, Dead)
      /\ e.cur = k.cur /\ e.nest = k.nest /\ e.stat = k.stat
      /\ e.timers = k.timers /\ e.wait = k.wait /\ e.prio = k.prio
      /\ \A u \in Thread : e.error[u] = IF u = t THEN "EOK" ELSE k.error[u]
  BY <1>0, ErrorOK
<1> HIDE DEF e
<1>3. Sound(e, {}) /\ CurrentSound(e, {}) /\ e.stat[t] \in {"READY", "RUNNING"} /\ t \notin {}
  BY <1>1, <1>2 DEF LoopOK
<1>4. /\ Sound(q, {}) /\ OnlyStat(q, e, t, "SUSPEND")
      /\ SameWaits(q, e) /\ q.tick = e.tick
      /\ \A u : Contains(q.timers, u) <=> Contains(e.timers, u)
  BY <1>3, SuspendThreadSound
<1> HIDE DEF q
<1>5. /\ q.cur = k.cur /\ q.nest = k.nest /\ q.prio = k.prio /\ q.stat[t] = "SUSPEND"
      /\ \A u \in Thread : u # t => q.stat[u] = k.stat[u]
      /\ q.wait = k.wait /\ q.error = e.error
  BY <1>2, <1>4 DEF OnlyStat, SameWaits
<1>6. q.stat[t] = "SUSPEND" /\ \A w \in WaitList : ~Contains(q.wait[w], t)
  BY <1>1, <1>5
<1>7. /\ Sound(r, {}) /\ SameThreads(r, q) /\ SameClock(r, q)
      /\ r.timers = q.timers /\ r.error = q.error
      /\ OnWait(r, q, m, t)
  BY <1>3, <1>4, <1>6, WaitInsertSound
<1>8. Sorted(r.wait[m], q.prio)
  BY <1>0, <1>4, <1>5, WaitInsertSorted DEF Ordered
<1>9. \A w \in WaitList : w # m => r.wait[w] = q.wait[w]
  BY <1>4 DEF WaitInsert, Sound, KernelState
<1> HIDE DEF r
<1>10. Ordered(r) /\ r.prio = k.prio
  BY <1>0, <1>5, <1>7, <1>8, <1>9 DEF Ordered, SameThreads
<1>11. CurrentSound(r, {})
  BY <1>1, <1>3, <1>2, <1>5, <1>7 DEF CurrentSound, SameThreads
<1>12. /\ y.owner = mx.owner /\ y.hold = mx.hold
       /\ y.pending = [mx.pending EXCEPT ![t] = m]
  BY <1>0 DEF MutexState
<1> HIDE DEF y
<1>13. Entered(r, y, t, m)
  BY <1>2, <1>4, <1>5, <1>7, <1>12 DEF Entered, OnWait, SameThreads
<1>14. IpcListSuspend(e, m, t, "PRIO") = r
  BY DEF IpcListSuspend, r, q
<1> QED BY <1>5, <1>6, <1>7, <1>10, <1>11, <1>13, <1>14 DEF e, y, SameThreads

\* t waits for m, and the owner has inherited its priority.
LEMMA EnqueueOK ==
  ASSUME IInv, NEW t \in Thread, NEW m \in WaitList, At(t, "run"),
         mx.linked[m], mx.owner[m] \notin {None, t}
  PROVE  LET o == Enqueue(k, mx, m, t)
         IN  LoopOK(o.k, o.mx, o.next, {}, Dead) /\ Entered(o.k, o.mx, t, m)
<1> DEFINE p == k.prio[t]
           owner == mx.owner[m]
           r == IpcListSuspend([k EXCEPT !.error[t] = "EOK"], m, t, "PRIO")
           y == [mx EXCEPT !.pending[t] = m]
           z == [y EXCEPT !.mprio[m] = p]
           o == Enqueue(k, mx, m, t)
<1>1. /\ mx \in MutexState /\ Sound(k, {}) /\ k \in KernelState
      /\ Queued(k, mx) /\ Known(k, mx) /\ Inherits(k, mx, None)
      /\ Asleep(k, mx, Dead)
  BY IInvFacts DEF IInv, LoopOK
<1>2. owner \in Thread /\ owner # t /\ owner \notin Dead /\ owner # None
  BY <1>1 DEF MutexState, Asleep
<1>3. p \in Prio /\ p \in 0 .. NoPrio /\ p \in Nat /\ k.prio[owner] \in Nat
  BY <1>1, <1>2, PrioFacts DEF KernelState
<1>4. /\ y \in MutexState /\ y.owner = mx.owner /\ y.hold = mx.hold
      /\ y.pending = [mx.pending EXCEPT ![t] = m]
      /\ y.mprio = mx.mprio /\ y.linked = mx.linked
  BY <1>1 DEF MutexState
<1>5. o = IF p >= mx.mprio[m] THEN Outcome(r, y, None)
          ELSE IF p < k.prio[owner] THEN UpdateThreadPrio(r, z, owner, p)
               ELSE Outcome(r, z, None)
  BY DEF Enqueue
<1>6. /\ Sound(r, {}) /\ CurrentSound(r, {}) /\ r.prio = k.prio
      /\ Ordered(r) /\ r.stat[t] = "SUSPEND"
      /\ Entered(r, y, t, m)
  BY SuspendOK
<1> HIDE DEF p, r
<1>7. /\ z \in MutexState /\ z.owner = mx.owner /\ z.hold = mx.hold
      /\ z.pending = y.pending /\ z.linked = mx.linked
      /\ \A w \in WaitList : z.mprio[w] = IF w = m THEN p ELSE mx.mprio[w]
  <2> HIDE DEF y
  <2> QED BY <1>3, <1>4 DEF MutexState
<1> HIDE DEF y, z, o, owner
<1>8. \A v \in WaitList : mx.mprio[v] \in Nat
  BY <1>1, PrioFacts DEF MutexState
<1>9. \A u \in Thread : k.prio[u] \in Nat
  BY <1>1, PrioFacts DEF KernelState
<1>10. \A u \in Thread : y.pending[u] = IF u = t THEN m ELSE mx.pending[u]
  BY <1>1, <1>4 DEF MutexState
<1>11. /\ \A w \in WaitList, u \in Thread :
             Contains(r.wait[w], u) <=> Contains(k.wait[w], u) \/ (w = m /\ u = t)
       /\ \A u \in Thread : u # t => r.stat[u] = k.stat[u]
       /\ \A w \in WaitList : ~Contains(k.wait[w], t)
  <2>1. \A w \in WaitList : ~Contains(k.wait[w], t)
    BY ExecutingRuns DEF At
  <2> QED BY <1>6, <2>1 DEF Entered, OnWait
<1>12. Asleep(r, y, Dead) /\ Asleep(r, z, Dead)
  <2>1. ASSUME NEW u \in Thread \ Dead, r.stat[u] = "SUSPEND", y.pending[u] # None
        PROVE  Contains(r.wait[y.pending[u]], u)
    <3>1. CASE u = t
      BY <1>10, <1>11, <3>1
    <3>2. CASE u # t
      <4>1. y.pending[u] = mx.pending[u] /\ k.stat[u] = "SUSPEND" /\ mx.pending[u] \in WaitList
        BY <1>1, <1>10, <1>11, <2>1, <3>2 DEF MutexState
      <4> QED BY <1>1, <1>11, <2>1, <4>1 DEF Asleep
    <3> QED BY <3>1, <3>2
  <2>2. \A w \in WaitList : mx.owner[w] \notin Dead
    BY <1>1 DEF Asleep
  <2> QED BY <1>4, <1>7, <2>1, <2>2 DEF Asleep
<1>13. Queued(r, y) /\ Queued(r, z)
  BY <1>1, <1>2, <1>4, <1>7, <1>10, <1>11 DEF Queued, owner
<1>14. Entered(r, z, t, m)
  BY <1>6, <1>7, <1>4 DEF Entered
<1>15. CASE p >= mx.mprio[m]
  <2>1. o.k = r /\ o.mx = y /\ o.next = None
    BY <1>5, <1>15 DEF Outcome
  <2>2. Known(r, y)
    BY <1>1, <1>4, <1>6, <1>11, <1>15 DEF Known, p
  <2>3. Inherits(r, y, None)
    BY <1>1, <1>4, <1>6 DEF Inherits
  <2>4. LoopOK(r, y, None, {}, Dead)
    BY <1>4, <1>6, <1>12, <1>13, <2>2, <2>3 DEF LoopOK, Mutexes
  <2> QED BY <1>6, <2>1, <2>4 DEF o
<1>16. CASE ~(p >= mx.mprio[m])
  <2>0. p < mx.mprio[m] /\ p <= mx.mprio[m]
    BY <1>3, <1>8, <1>16
  <2>1. Known(r, z)
    <3>1. ASSUME NEW w \in WaitList, NEW u \in Thread, Contains(r.wait[w], u)
          PROVE  z.mprio[w] <= r.prio[u]
      <4>1. CASE w # m
        BY <1>1, <1>6, <1>7, <1>11, <3>1, <4>1 DEF Known
      <4>2. CASE w = m /\ u = t
        BY <1>3, <1>6, <1>7, <4>2 DEF p
      <4>3. CASE w = m /\ u # t
        <5>1. mx.mprio[m] <= k.prio[u]
          BY <1>1, <1>11, <3>1, <4>3 DEF Known
        <5>2. p <= k.prio[u]
          BY <1>3, <1>8, <1>9, <2>0, <5>1
        <5> QED BY <1>6, <1>7, <4>3, <5>2
      <4> QED BY <4>1, <4>2, <4>3
    <3> QED BY <3>1 DEF Known
  <2>2. Inherits(r, z, owner)
    BY <1>1, <1>6, <1>7 DEF Inherits, owner
  <2>3. LoopOK(r, z, owner, {}, Dead)
    BY <1>2, <1>6, <1>7, <1>12, <1>13, <2>1, <2>2 DEF LoopOK, Mutexes
  <2>4. CASE p < k.prio[owner]
    <3>1. o = UpdateThreadPrio(r, z, owner, p)
      BY <1>5, <1>16, <2>4
    <3>2. Fits(z, owner, p)
      <4>1. ASSUME NEW w \in Taken(z, owner) PROVE p <= z.mprio[w]
        <5>1. w \in WaitList /\ mx.linked[w] /\ mx.owner[w] = owner
          BY <1>7, <4>1 DEF Taken
        <5>2. CASE w = m
          BY <1>3, <1>7, <5>2
        <5>3. CASE w # m
          <6>1. k.prio[owner] <= mx.mprio[w]
            BY <1>1, <1>2, <5>1 DEF Inherits
          <6>2. p <= mx.mprio[w]
            BY <1>3, <1>8, <2>4, <5>1, <6>1
          <6> QED BY <1>7, <5>1, <5>3, <6>2
        <5> QED BY <5>2, <5>3
      <4> QED BY <1>3, <4>1 DEF Fits
    <3>3. Updated(UpdateThreadPrio(r, z, owner, p), r, z, {}, Dead)
      BY <1>2, <2>3, <3>2, UpdateThreadPrioOK
    <3>4. LoopOK(o.k, o.mx, o.next, {}, Dead) /\ Reprioritised(o.k, o.mx, r, z)
      BY <3>1, <3>3 DEF Updated
    <3>5. Entered(o.k, o.mx, t, m)
      BY <1>14, <3>4 DEF Entered, Reprioritised, OnWait
    <3> QED BY <3>4, <3>5 DEF o
  <2>5. CASE ~(p < k.prio[owner])
    <3>1. o.k = r /\ o.mx = z /\ o.next = None
      BY <1>5, <1>16, <2>5 DEF Outcome
    <3>2. Inherits(r, z, None)
      <4>1. ASSUME NEW w \in WaitList, z.linked[w], z.owner[w] # None
            PROVE  r.prio[z.owner[w]] <= z.mprio[w]
        <5>1. CASE w = m
          BY <1>3, <1>6, <1>7, <2>5, <5>1 DEF owner
        <5>2. CASE w # m
          BY <1>1, <1>6, <1>7, <4>1, <5>2 DEF Inherits
        <5> QED BY <5>1, <5>2
      <4> QED BY <4>1 DEF Inherits
    <3>3. LoopOK(r, z, None, {}, Dead)
      BY <2>3, <3>2 DEF LoopOK, Mutexes
    <3> QED BY <1>14, <3>1, <3>3 DEF o
  <2> QED BY <2>4, <2>5
<1> QED BY <1>15, <1>16

\* The timer of a thread that waits is started.
LEMMA TimerStartOK ==
  ASSUME NEW s, NEW x, NEW t \in Thread, NEW d \in Int, NEW D,
         LoopOK(s, x, None, {}, D), s.stat[t] = "SUSPEND"
  PROVE  LET r == TimerStart(s, t, d)
         IN  /\ LoopOK(r, x, None, {}, D)
             /\ r.cur = s.cur /\ r.nest = s.nest /\ r.stat = s.stat
             /\ SameWaits(r, s)
             /\ \A u : Contains(r.timers, u) <=> Contains(s.timers, u) \/ u = t
<1> DEFINE r == TimerStart(s, t, d)
<1>1. Sound(s, {}) /\ t \notin {}
  BY DEF LoopOK
<1>2. /\ Sound(r, {}) /\ SameThreads(r, s)
      /\ SameWaits(r, s) /\ r.tick = s.tick
      /\ \A u : Contains(r.timers, u) <=> Contains(s.timers, u) \/ u = t
  BY <1>1, TimerStartSound
<1> HIDE DEF r
<1>3. /\ r.cur = s.cur /\ r.nest = s.nest /\ r.stat = s.stat /\ r.prio = s.prio
      /\ r.wait = s.wait
  BY <1>2 DEF SameThreads, SameWaits
<1>4. Mutexes(r, x, None)
  BY <1>3, MutexesSame DEF LoopOK
<1>5. LoopOK(r, x, None, {}, D)
  BY <1>2, <1>3, <1>4 DEF LoopOK, CurrentSound, Asleep
<1> QED BY <1>2, <1>3, <1>5 DEF r

\* rt_mutex_take that waits, for ever or with a timeout.
LEMMA TakeWaitStep ==
  ASSUME IInv, NEW t \in Thread, NEW m \in WaitList, TakeWait(t, m)
  PROVE  IInv' /\ Entered(k', mx', t, m) /\ Goes(t, "take_sched", m)
<1> DEFINE o == Enqueue(k, mx, m, t)
<1>1. /\ At(t, "run") /\ mx.linked[m] /\ t # Idle /\ mx.owner[m] \notin {None, t}
      /\ Goto(t, "take_sched") /\ mutex' = [mutex EXCEPT ![t] = m]
      /\ isr' = isr /\ target' = target
      /\ \E d \in Timeouts \ {NoWait} : Becomes(Armed(o, t, d))
  BY DEF TakeWait
<1>2. PICK d \in Timeouts : Becomes(Armed(o, t, d))
  BY <1>1
<1>3. LoopOK(o.k, o.mx, o.next, {}, Dead) /\ Entered(o.k, o.mx, t, m)
  BY <1>1, EnqueueOK
<1>4. IsOutcome(o)
  BY EndsInOutcome
<1>5. d \in Int
  BY MutexAssumption DEF Forever, NoWait, TickHalf
<1>6. t = k.cur /\ k.stat[t] = "RUNNING" /\ t \notin Dead /\ mutex[t] = None
  BY <1>1, ExecutingRuns, GotoGoes DEF At, IInv, ThreadOK
<1> HIDE DEF o
<1>7. /\ mx' = o.mx /\ o.next = None
      /\ k' = IF d > 0 THEN TimerStart(o.k, t, d) ELSE o.k
  BY <1>2, <1>4 DEF Armed, Becomes, IsOutcome, Outcome
<1>8. LoopOK(k', mx', None, {}, Dead) /\ Entered(k', mx', t, m)
  <2>1. CASE d > 0
    <3>1. o.k.stat[t] = "SUSPEND" /\ LoopOK(o.k, o.mx, None, {}, Dead)
      BY <1>3, <1>7 DEF Entered
    <3> DEFINE r == TimerStart(o.k, t, d)
    <3>2. /\ LoopOK(r, o.mx, None, {}, Dead)
          /\ r.cur = o.k.cur /\ r.nest = o.k.nest /\ r.stat = o.k.stat
          /\ SameWaits(r, o.k)
          /\ \A u : Contains(r.timers, u) <=> Contains(o.k.timers, u) \/ u = t
      BY <1>5, <3>1, TimerStartOK
    <3>3. k' = r
      BY <1>7, <2>1
    <3> HIDE DEF r
    <3> QED BY <1>3, <1>7, <3>2, <3>3 DEF Entered, SameWaits, OnWait
  <2>2. CASE ~(d > 0)
    BY <1>3, <1>7, <2>2
  <2> QED BY <2>1, <2>2
<1>9. Goes(t, "take_sched", m)
  BY <1>1 DEF IInv, ControlOK, Goto, Goes, SamePlace, PC
<1>10. ControlOK'
  BY <1>1, <1>9 DEF IInv, ControlOK, Goes
<1>11. k'.nest = 0 /\ CurrentRuns' /\ IdleCanRun' /\ HeldIfOwned'
  <2>1. k'.cur = t /\ pc'[t] = "take_sched" /\ k'.nest = 0
    BY <1>6, <1>8, <1>9 DEF Entered, Goes, IInv
  <2>2. k'.stat[Idle] \in {"READY", "RUNNING"}
    BY <1>1, <1>8, IInvFacts DEF Entered, IInv, IdleCanRun
  <2>3. HeldIfOwned'
    BY <1>8 DEF Entered, IInv, HeldIfOwned
  <2> QED BY <2>1, <2>2, <2>3 DEF CurrentRuns, IdleCanRun
<1>12. ASSUME NEW u \in Thread PROVE ThreadOK(u)'
  <2>1. CASE u = t
    <3>1. /\ Contains(k'.wait[m], t) /\ k'.error[t] = "EOK"
          /\ \A w \in WaitList : Contains(k'.wait[w], t) => w = m
      BY <1>1, <1>8, ExecutingRuns DEF Entered, OnWait, At
    <3>2. mutex'[t] = m /\ pc'[t] = "take_sched"
      BY <1>9 DEF Goes
    <3> QED BY <2>1, <3>1, <3>2 DEF ThreadOK, Taking
  <2>2. CASE u # t
    <3>1. ThreadOK(u) /\ pc'[u] = pc[u] /\ mutex'[u] = mutex[u]
      BY <1>9, <2>2 DEF IInv, Goes, SamePlace
    <3>2. Stays(k', mx', u)
      BY <1>8, <2>2 DEF Entered, OnWait, Stays
    <3> QED BY <3>1, <3>2, StaysOK
  <2> QED BY <2>1, <2>2
<1>13. DeadSame
  <2>1. \A u \in Thread : /\ pc'[u] = "dead" <=> pc[u] = "dead"
                          /\ pc'[u] = "drop" => pc[u] = "drop" /\ target'[u] = target[u]
    BY <1>1, <1>6, <1>9 DEF Goes, SamePlace, Dead
  <2>2. mx.pending \in [Thread -> WaitList \cup {None}]
    BY IInvFacts DEF MutexState
  <2>3. \A u \in Dead : /\ k'.stat[u] = k.stat[u] /\ mx'.pending[u] = mx.pending[u]
                        /\ Contains(k'.timers, u) => Contains(k.timers, u)
    BY <1>6, <1>8, <2>2 DEF Entered, Dead
  <2> QED BY <2>1, <2>3 DEF DeadSame
<1>14. IInv'
  BY <1>8, <1>10, <1>11, <1>12, <1>13, LivingStep
<1> QED BY <1>8, <1>9, <1>14

-----------------------------------------------------------------------------
(* Sleeping and deleting *)

\* rt_thread_sleep of a thread that has no mutex left in pending_object.
LEMMA SleepStep ==
  ASSUME IInv, NEW t \in Thread, Sleep(t), mx.pending[t] = None
  PROVE  IInv' /\ SameWaits(k', k) /\ mx' = mx /\ Goes(t, "post_sched", None)
<1>1. PICK d \in Delays : k' = TimerStart(SuspendThread(k, t), t, d)
  BY DEF Sleep
<1> DEFINE q == SuspendThread(k, t)
<1>2. /\ At(t, "run") /\ t \in Sleeper /\ Goto(t, "post_sched")
      /\ isr' = isr /\ mx' = mx /\ mutex' = mutex /\ target' = target
  BY DEF Sleep
<1>3. t = k.cur /\ k.stat[t] = "RUNNING" /\ t \notin Dead
  BY <1>2, ExecutingRuns DEF At
<1>4. d \in Int /\ t # Idle
  BY <1>2, MutexAssumption DEF TickHalf
<1>5. /\ Sound(k, {}) /\ CurrentSound(k, {}) /\ Mutexes(k, mx, None)
      /\ Asleep(k, mx, Dead) /\ k.nest = 0 /\ HeldIfOwned /\ t \notin {}
      /\ k.stat[t] \in {"READY", "RUNNING"}
  BY <1>3 DEF IInv, LoopOK
<1>6. /\ Sound(q, {}) /\ OnlyStat(q, k, t, "SUSPEND")
      /\ SameWaits(q, k) /\ q.tick = k.tick
      /\ \A u : Contains(q.timers, u) <=> Contains(k.timers, u)
  BY <1>5, SuspendThreadSound
<1> HIDE DEF q
<1>7. /\ q.cur = k.cur /\ q.nest = k.nest /\ q.prio = k.prio /\ q.stat[t] = "SUSPEND"
      /\ \A u \in Thread : u # t => q.stat[u] = k.stat[u]
      /\ q.wait = k.wait /\ q.error = k.error
  BY <1>6 DEF OnlyStat, SameWaits
<1>8. LoopOK(q, mx, None, {}, Dead)
  <2>1. Mutexes(q, mx, None)
    BY <1>5, <1>7, MutexesSame
  <2>2. Asleep(q, mx, Dead)
    BY <1>5, <1>7 DEF Asleep
  <2>3. CurrentSound(q, {})
    BY <1>3, <1>5, <1>7 DEF CurrentSound
  <2> QED BY <1>6, <2>1, <2>2, <2>3 DEF LoopOK
<1> DEFINE r == TimerStart(q, t, d)
<1>9. /\ LoopOK(r, mx, None, {}, Dead)
      /\ r.cur = q.cur /\ r.nest = q.nest /\ r.stat = q.stat
      /\ SameWaits(r, q)
      /\ \A u : Contains(r.timers, u) <=> Contains(q.timers, u) \/ u = t
  <2>1. d \in Int /\ q.stat[t] = "SUSPEND"
    BY <1>4, <1>7
  <2> QED BY <1>8, <2>1, TimerStartOK, ZenonT(40)
<1>10. k' = r
  BY <1>1 DEF q
<1> HIDE DEF r
<1>11. /\ LoopOK(k', mx', None, {}, Dead) /\ k'.cur = k.cur /\ k'.nest = k.nest
       /\ \A u \in Thread : u # t => k'.stat[u] = k.stat[u]
       /\ k'.wait = k.wait /\ k'.error = k.error
       /\ \A u \in Thread : u # t /\ Contains(k'.timers, u) => Contains(k.timers, u)
  BY <1>2, <1>6, <1>7, <1>9, <1>10 DEF SameWaits
<1>12. Goes(t, "post_sched", None) /\ pc[t] = "run" /\ mutex[t] = None
  <2>1. "post_sched" \in PC
    BY DEF PC
  <2> QED BY <1>2, <2>1, GotoGoes
<1>13. ControlOK'
  BY <1>2, <1>12 DEF IInv, ControlOK, Goes
<1>14. k'.nest = 0 /\ CurrentRuns' /\ IdleCanRun' /\ HeldIfOwned'
  <2>1. k'.cur = t /\ pc'[t] = "post_sched" /\ k'.nest = 0
    BY <1>3, <1>5, <1>11, <1>12 DEF Goes
  <2>2. k'.stat[Idle] \in {"READY", "RUNNING"}
    BY <1>4, <1>11, IInvFacts DEF IInv, IdleCanRun
  <2> QED BY <1>2, <1>5, <2>1, <2>2 DEF CurrentRuns, IdleCanRun, HeldIfOwned
<1>15. ASSUME NEW u \in Thread PROVE ThreadOK(u)'
  <2>1. CASE u = t
    <3>1. \A w \in WaitList : ~Contains(k'.wait[w], t)
      BY <1>2, <1>11, ExecutingRuns DEF At
    <3>2. pc'[t] \notin Taking /\ mutex'[t] = None
      BY <1>12 DEF Goes, Taking
    <3> QED BY <2>1, <3>1, <3>2, OutsideOK
  <2>2. CASE u # t
    <3>1. ThreadOK(u) /\ pc'[u] = pc[u] /\ mutex'[u] = mutex[u]
      BY <1>12, <2>2 DEF IInv, Goes, SamePlace
    <3>2. Stays(k', mx', u)
      BY <1>2, <1>11, <2>2 DEF Stays
    <3> QED BY <3>1, <3>2, StaysOK
  <2> QED BY <2>1, <2>2
<1>16. DeadSame
  <2>1. \A u \in Thread : /\ pc'[u] = "dead" <=> pc[u] = "dead"
                          /\ pc'[u] = "drop" => pc[u] = "drop" /\ target'[u] = target[u]
    BY <1>2, <1>12 DEF Goes, SamePlace
  <2>2. \A u \in Dead : /\ k'.stat[u] = k.stat[u] /\ mx'.pending[u] = mx.pending[u]
                        /\ Contains(k'.timers, u) => Contains(k.timers, u)
    BY <1>2, <1>3, <1>11 DEF Dead
  <2> QED BY <2>1, <2>2 DEF DeadSame
<1>17. IInv'
  BY <1>11, <1>13, <1>14, <1>15, <1>16, LivingStep
<1> QED BY <1>2, <1>11, <1>12, <1>17 DEF SameWaits

\* The first half of rt_thread_delete: the thread u that waits for a mutex is off
\* its list and dead.
LEMMA DeleteUnlinkStep ==
  ASSUME IInv, NEW t \in Thread, NEW u \in Thread, DeleteUnlink(t, u)
  PROVE  /\ IInv' /\ OffWaits(k', k, u) /\ k'.error = k.error
         /\ mx' = mx /\ mutex' = mutex
         /\ u # t /\ Contains(k.wait[mx.pending[u]], u) /\ pc'[u] = "dead"
         /\ mx.pending[u] \in WaitList
         /\ \A x \in Thread \ {u} : pc'[x] = "dead" <=> pc[x] = "dead"
<1> DEFINE m == mx.pending[u]
<1>1. /\ At(t, "run") /\ u # t /\ m \in WaitList /\ Contains(k.wait[m], u)
      /\ ~Contains(k.timers, u) /\ \A w \in WaitList : mx.owner[w] # u
      /\ k' = RemoveThread(k, u)
      /\ pc' = [pc EXCEPT ![t] = "drop", ![u] = "dead"]
      /\ target' = [target EXCEPT ![t] = u]
      /\ isr' = isr /\ mx' = mx /\ mutex' = mutex
  BY MutexAssumption DEF DeleteUnlink
<1>2. /\ mx \in MutexState /\ Sound(k, {}) /\ CurrentSound(k, {})
      /\ Queued(k, mx) /\ Ordered(k) /\ Known(k, mx) /\ Inherits(k, mx, None)
      /\ Asleep(k, mx, Dead) /\ k.nest = 0 /\ HeldIfOwned
  BY IInvFacts DEF IInv, LoopOK
<1>3. /\ t = k.cur /\ k.stat[t] = "RUNNING" /\ t \notin Dead /\ pc[t] = "run"
      /\ \A w \in WaitList : ~Contains(k.wait[w], t)
  BY <1>1, ExecutingRuns DEF At
<1>4. /\ k.stat[u] = "SUSPEND" /\ pc[u] \in Taking
  BY <1>1, <1>2, IInvFacts DEF IInv, ThreadOK
<1>5. /\ SameThreads(k', k) /\ k'.timers = k.timers /\ k'.error = k.error
  BY <1>1, <1>2, UnlinkFacts
<1>6. OffWaits(k', k, u) /\ KeepsOrder(k', k)
  <2>1. /\ OffWaits(ListRemove(k, u), k, u) /\ k'.wait = ListRemove(k, u).wait
        /\ KeepsOrder(k', k)
    BY <1>1, <1>2, UnlinkWaits, UnlinkOrder
  <2> QED BY <2>1 DEF OffWaits
<1>7. /\ k'.cur = k.cur /\ k'.nest = k.nest /\ k'.prio = k.prio /\ k'.stat = k.stat
  BY <1>5 DEF SameThreads
<1>8. Sound(k', {})
  <2>1. Sound(k', {} \cup {u})
    BY <1>1, <1>2, RemoveThreadSound
  <2>2. \A x \in Thread : x \in {} \cup {u} /\ x \notin {} => k'.stat[x] \notin {"READY", "CLOSE"}
    BY <1>4, <1>7
  <2>3. {} \subseteq {} \cup {u}
    OBVIOUS
  <2> QED BY <2>1, <2>2, <2>3, SoundShrink
<1>9. Mutexes(k', mx', None)
  <2>1. Queued(k', mx) /\ Known(k', mx)
    BY <1>2, <1>6, <1>7 DEF OffWaits, Queued, Known
  <2>2. Ordered(k')
    BY <1>2, <1>6, <1>7 DEF KeepsOrder, Ordered
  <2>3. Inherits(k', mx, None)
    BY <1>2, <1>7 DEF Inherits
  <2> QED BY <1>1, <1>2, <2>1, <2>2, <2>3 DEF Mutexes
<1>10. /\ pc' \in [Thread -> PC]
       /\ \A x \in Thread : pc'[x] = IF x = u THEN "dead" ELSE IF x = t THEN "drop" ELSE pc[x]
       /\ target' \in [Thread -> Thread]
       /\ \A x \in Thread : target'[x] = IF x = t THEN u ELSE target[x]
  BY <1>1 DEF IInv, ControlOK, PC
<1>11. Dead' = Dead \cup {u}
  BY <1>3, <1>10 DEF Dead
<1>12. Asleep(k', mx', Dead')
  <2>1. \A x \in Thread \ (Dead \cup {u}) :
           k'.stat[x] = "SUSPEND" /\ mx.pending[x] # None
             => Contains(k'.wait[mx.pending[x]], x)
    BY <1>2, <1>6, <1>7 DEF Asleep, MutexState, OffWaits
  <2>2. \A w \in WaitList : mx.owner[w] \notin Dead \cup {u}
    BY <1>1, <1>2 DEF Asleep
  <2> QED BY <1>1, <1>11, <2>1, <2>2 DEF Asleep
<1>13. LoopOK(k', mx', None, {}, Dead')
  BY <1>2, <1>7, <1>8, <1>9, <1>12 DEF LoopOK, CurrentSound
<1>14. ControlOK'
  BY <1>1, <1>10 DEF IInv, ControlOK
<1>15. k'.nest = 0 /\ CurrentRuns' /\ IdleCanRun' /\ HeldIfOwned'
  BY <1>1, <1>2, <1>3, <1>7 DEF IInv, CurrentRuns, IdleCanRun, HeldIfOwned
<1>16. ASSUME NEW x \in Thread PROVE ThreadOK(x)'
  <2>1. CASE x = t
    <3>1. \A w \in WaitList : ~Contains(k'.wait[w], t)
      BY <1>3, <1>6 DEF OffWaits
    <3>2. pc'[t] \notin Taking /\ mutex'[t] = None
      BY <1>1, <1>3, <1>10 DEF IInv, ThreadOK, Taking
    <3> QED BY <2>1, <3>1, <3>2, OutsideOK
  <2>2. CASE x = u
    <3>1. \A w \in WaitList : ~Contains(k'.wait[w], u)
      BY <1>6 DEF OffWaits
    <3>2. pc'[u] = "dead" /\ pc'[u] \notin Taking
      BY <1>10 DEF Taking
    <3> QED BY <2>2, <3>1, <3>2, OutsideOK
  <2>3. CASE x # t /\ x # u
    <3>1. ThreadOK(x) /\ pc'[x] = pc[x] /\ mutex'[x] = mutex[x]
      BY <1>1, <1>10, <2>3 DEF IInv
    <3>2. Stays(k', mx', x)
      BY <1>1, <1>5, <1>6, <1>7, <2>3 DEF Stays, OffWaits
    <3> QED BY <3>1, <3>2, StaysOK
  <2> QED BY <2>1, <2>2, <2>3
<1>17. DeadStay'
  <2>1. ASSUME NEW x \in Thread, pc'[x] = "dead"
        PROVE  k'.stat[x] \in {"SUSPEND", "CLOSE"} /\ ~Contains(k'.timers, x)
    BY <1>1, <1>4, <1>5, <1>7, <1>10, <2>1 DEF IInv, DeadStay
  <2>2. \A x \in Thread : pc[x] = "drop" => target[x] \in Thread /\ target[x] # u
    BY <1>4 DEF IInv, ControlOK, DeadStay, Taking
  <2>3. ASSUME NEW x \in Thread, pc'[x] = "drop"
        PROVE  /\ pc'[target'[x]] = "dead" /\ k'.stat[target'[x]] = "SUSPEND"
               /\ mx'.pending[target'[x]] \in WaitList
               /\ \A y \in Thread : pc'[y] = "drop" /\ target'[y] = target'[x] => y = x
    <3>1. CASE x = t
      <4>1. target'[x] = u
        BY <1>10, <3>1
      <4>2. \A y \in Thread : pc'[y] = "drop" /\ target'[y] = u => y = t
        BY <1>10, <2>2
      <4> QED BY <1>1, <1>4, <1>7, <1>10, <3>1, <4>1, <4>2
    <3>2. CASE x # t
      <4>1. /\ pc[x] = "drop" /\ target'[x] = target[x] /\ target[x] # u
            /\ target[x] \in Thread
        BY <1>10, <2>2, <2>3, <3>2
      <4>2. /\ pc[target[x]] = "dead" /\ k.stat[target[x]] = "SUSPEND"
            /\ mx.pending[target[x]] \in WaitList
            /\ \A y \in Thread : pc[y] = "drop" /\ target[y] = target[x] => y = x
        BY <4>1 DEF IInv, DeadStay
      <4>3. pc'[target[x]] = "dead"
        BY <1>3, <1>10, <4>1, <4>2
      <4>4. \A y \in Thread : pc'[y] = "drop" /\ target'[y] = target'[x] => y = x
        BY <1>10, <4>1, <4>2
      <4> QED BY <1>1, <1>7, <4>1, <4>2, <4>3, <4>4
    <3> QED BY <3>1, <3>2
  <2> QED BY <2>1, <2>3 DEF DeadStay
<1>18. IInv'
  BY <1>13, <1>14, <1>15, <1>16, <1>17 DEF IInv
<1> QED BY <1>1, <1>3, <1>5, <1>6, <1>10, <1>18

\* A closed thread is queued for the idle thread to free.
LEMMA DefunctSoundly ==
  ASSUME NEW s, NEW u \in Thread, Sound(s, {u}), s.stat[u] = "CLOSE"
  PROVE  LET r == [s EXCEPT !.defunct = <<u>> \o @]
         IN  /\ Sound(r, {}) /\ SameThreads(r, s) /\ SameWaits(r, s)
             /\ r.timers = s.timers
<1> DEFINE new == <<u>> \o s.defunct
           r == [s EXCEPT !.defunct = new]
<1>1. s \in KernelState
  BY DEF Sound
<1>2. /\ new \in Seq(Thread) /\ IsInjective(new)
      /\ \A x : Contains(new, x) <=> Contains(s.defunct, x) \/ x = u
  <2>1. /\ s.defunct \in Seq(Thread) /\ IsInjective(s.defunct)
        /\ ~Contains(s.defunct, u)
    BY DEF Sound, KernelState, ListsSound, DefunctSound
  <2> QED BY <2>1, ConsKeepsOne
<1>3. r = [s EXCEPT !.defunct = <<u>> \o @]
  OBVIOUS
<1> HIDE DEF new
<1>4. /\ r \in KernelState
      /\ r.ready = s.ready /\ r.group = s.group /\ r.wait = s.wait
      /\ r.defunct = new /\ r.prio = s.prio /\ r.timers = s.timers
      /\ r.cur = s.cur /\ r.nest = s.nest /\ r.stat = s.stat /\ r.error = s.error
  BY <1>1, <1>2 DEF KernelState
<1> HIDE DEF r
<1>5. ListsSound(r)
  BY <1>2, <1>4 DEF Sound, ListsSound
<1>6. ReadySound(r, {}) /\ WaitSound(r, {}) /\ TimersSound(r, {})
  BY <1>4 DEF Sound, ReadySound, WaitSound, TimersSound
<1>7. DefunctSound(r, {})
  BY <1>2, <1>4 DEF Sound, DefunctSound
<1>8. Sound(r, {}) /\ SameThreads(r, s) /\ SameWaits(r, s)
  BY <1>4, <1>5, <1>6, <1>7 DEF Sound, SameThreads, SameWaits
<1> QED BY <1>3, <1>4, <1>8

\* A thread that is deleted, off its wait list, is closed and off all lists.
LEMMA CloseOK ==
  ASSUME IInv, NEW u \in Dead, k.stat[u] = "SUSPEND"
  PROVE  LET r == ListRemove(TimerStop([k EXCEPT !.stat[u] = "CLOSE"], u), u)
         IN  /\ LoopOK(r, mx, None, {u}, Dead)
             /\ r.cur = k.cur /\ r.nest = k.nest /\ r.error = k.error
             /\ r.stat[u] = "CLOSE"
             /\ \A x \in Thread : x # u => r.stat[x] = k.stat[x]
             /\ \A w \in WaitList, x \in Thread :
                   Contains(r.wait[w], x) <=> Contains(k.wait[w], x)
             /\ \A x : Contains(r.timers, x) => Contains(k.timers, x)
<1> DEFINE c == [k EXCEPT !.stat[u] = "CLOSE"]
           q == TimerStop(c, u)
           r == ListRemove(q, u)
<1>1. /\ u \in Thread /\ ~Contains(k.timers, u)
      /\ \A w \in WaitList : ~Contains(k.wait[w], u)
  BY DEF Dead, IInv, DeadStay, ThreadOK, Taking
<1>2. /\ mx \in MutexState /\ Sound(k, {}) /\ CurrentSound(k, {}) /\ k \in KernelState
      /\ Queued(k, mx) /\ Ordered(k) /\ Known(k, mx) /\ Inherits(k, mx, None)
      /\ Asleep(k, mx, Dead)
  BY IInvFacts DEF IInv, LoopOK
<1>3. Sound(k, {u})
  <2>1. Sound(k, {} \cup {u})
    BY <1>1, <1>2, SoundOff
  <2>2. {} \cup {u} = {u}
    OBVIOUS
  <2> QED BY <2>1, <2>2
<1>4. Sound(c, {u})
  <2>1. "CLOSE" \in Stat /\ u \in {u}
    BY DEF Stat
  <2> QED BY <1>1, <1>3, <2>1, SoundStat
<1>5. /\ c.cur = k.cur /\ c.nest = k.nest /\ c.prio = k.prio /\ c.wait = k.wait
      /\ c.error = k.error /\ c.timers = k.timers /\ c.stat[u] = "CLOSE"
      /\ \A x \in Thread : x # u => c.stat[x] = k.stat[x]
  BY <1>1, <1>2 DEF KernelState
<1> HIDE DEF c
<1>6. /\ Sound(q, {u}) /\ SameThreads(q, c)
      /\ q.group = c.group
      /\ SameWaits(q, c) /\ q.tick = c.tick
      /\ \A x : Contains(q.timers, x) <=> Contains(c.timers, x) /\ x # u
  BY <1>1, <1>4, TimerStopSound
<1> HIDE DEF q
<1>7. Sound(r, {u})
  <2>1. q.stat[u] # "READY" /\ ~Contains(q.timers, u)
    BY <1>5, <1>6 DEF SameThreads
  <2>2. Sound(r, {u} \cup {u})
    BY <1>1, <1>6, <2>1, ListRemoveSound
  <2>3. {u} \cup {u} = {u}
    OBVIOUS
  <2> QED BY <2>2, <2>3
<1>8. SameThreads(r, q) /\ r.timers = q.timers /\ r.error = q.error
  BY <1>1, <1>6, UnlinkFacts
<1>9. OffWaits(r, q, u) /\ KeepsOrder(r, q)
  BY <1>1, <1>6, UnlinkWaits, UnlinkOrder
<1> HIDE DEF r
<1>10. /\ r.cur = k.cur /\ r.nest = k.nest /\ r.error = k.error /\ r.prio = k.prio
       /\ r.stat = c.stat
       /\ \A x : Contains(r.timers, x) => Contains(k.timers, x)
  BY <1>5, <1>6, <1>8 DEF SameThreads, SameWaits
<1>11. \A w \in WaitList, x \in Thread :
          Contains(r.wait[w], x) <=> Contains(k.wait[w], x)
  BY <1>1, <1>5, <1>6, <1>9 DEF OffWaits, SameWaits
<1>12. Mutexes(r, mx, None)
  <2>1. Queued(r, mx) /\ Known(r, mx)
    BY <1>2, <1>10, <1>11 DEF Queued, Known
  <2>2. Ordered(r)
    BY <1>2, <1>5, <1>6, <1>9, <1>10 DEF KeepsOrder, Ordered, SameWaits
  <2>3. Inherits(r, mx, None)
    BY <1>2, <1>10 DEF Inherits
  <2> QED BY <1>2, <2>1, <2>2, <2>3 DEF Mutexes
<1>13. Asleep(r, mx, Dead)
  <2>1. \A x \in Thread \ Dead : r.stat[x] = k.stat[x]
    BY <1>5, <1>10
  <2> QED BY <1>2, <1>11, <2>1 DEF Asleep, MutexState
<1>14. CurrentSound(r, {u})
  <2>1. k.cur # u /\ k.cur \in Thread
    <3>1. pc[u] = "dead"
      BY DEF Dead
    <3> QED BY <3>1, IInvFacts DEF IInv, CurrentRuns
  <2>2. \A x \in Thread : r.stat[x] = IF x = u THEN "CLOSE" ELSE k.stat[x]
    BY <1>5, <1>10
  <2> QED BY <1>2, <1>10, <2>1, <2>2 DEF CurrentSound
<1>15. LoopOK(r, mx, None, {u}, Dead)
  BY <1>7, <1>12, <1>13, <1>14 DEF LoopOK
<1> QED BY <1>5, <1>10, <1>11, <1>15 DEF r, q, c

\* The second half of rt_thread_delete: the owner of the mutex the thread waited
\* for gives its priority back.
LEMMA DropThreadStep ==
  ASSUME IInv, NEW t \in Thread, DropThread(t)
  PROVE  /\ IInv' /\ mx'.owner = mx.owner /\ mx'.hold = mx.hold
         /\ k'.error = k.error /\ Goes(t, "run", None) /\ pc[t] = "drop"
         /\ \A w \in WaitList, x \in Thread :
               Contains(k'.wait[w], x) <=> Contains(k.wait[w], x)
<1> DEFINE u == target[t]
           m == mx.pending[u]
           q == ListRemove(TimerStop([k EXCEPT !.stat[u] = "CLOSE"], u), u)
           left == Leave(q, mx, m, u)
<1>1. /\ At(t, "drop") /\ mx.owner[m] # None /\ Goto(t, "run")
      /\ target' = [target EXCEPT ![t] = t] /\ isr' = isr /\ mutex' = mutex
  BY DEF DropThread
<1>2. Becomes([left EXCEPT !.mx.pending[u] = None, !.k.defunct = <<u>> \o @])
  BY DEF DropThread
<1>3. /\ t = k.cur /\ k.stat[t] = "RUNNING" /\ t \notin Dead /\ pc[t] = "drop"
      /\ \A w \in WaitList : ~Contains(k.wait[w], t)
  BY <1>1, ExecutingRuns DEF At
<1>4. /\ u \in Thread /\ u \in Dead /\ k.stat[u] = "SUSPEND" /\ m \in WaitList
      /\ \A x \in Thread : pc[x] = "drop" /\ target[x] = u => x = t
  BY <1>3 DEF IInv, ControlOK, DeadStay, Dead
<1>5. IsOutcome(left)
  BY EndsInOutcome
<1> HIDE DEF u, m
<1>6. /\ LoopOK(q, mx, None, {u}, Dead)
      /\ q.cur = k.cur /\ q.nest = k.nest /\ q.error = k.error
      /\ q.stat[u] = "CLOSE"
      /\ \A x \in Thread : x # u => q.stat[x] = k.stat[x]
      /\ \A w \in WaitList, x \in Thread :
            Contains(q.wait[w], x) <=> Contains(k.wait[w], x)
      /\ \A x : Contains(q.timers, x) => Contains(k.timers, x)
  BY <1>4, CloseOK
<1> HIDE DEF q
<1>7. Updated(left, q, mx, {u}, Dead)
  <2>1. {u} \subseteq Dead
    BY <1>4
  <2> QED BY <1>1, <1>4, <1>6, <2>1, LeaveOK
<1> HIDE DEF left
<1> DEFINE r == [left.k EXCEPT !.defunct = <<u>> \o @]
           y == [left.mx EXCEPT !.pending[u] = None]
<1>8. k' = r /\ mx' = y /\ left.next = None
  BY <1>2, <1>5 DEF Becomes, IsOutcome, Outcome
<1>9. LoopOK(left.k, left.mx, None, {u}, Dead) /\ Reprioritised(left.k, left.mx, q, mx)
  BY <1>7, <1>8 DEF Updated
<1>10. /\ Sound(left.k, {u}) /\ left.k.stat[u] = "CLOSE" /\ left.mx \in MutexState
       /\ CurrentSound(left.k, {u}) /\ Mutexes(left.k, left.mx, None)
       /\ Asleep(left.k, left.mx, Dead)
  BY <1>6, <1>9 DEF LoopOK, Mutexes, Reprioritised
<1>11. /\ Sound(r, {}) /\ SameThreads(r, left.k) /\ SameWaits(r, left.k)
       /\ r.timers = left.k.timers
  BY <1>4, <1>10, DefunctSoundly
<1>12. /\ y \in MutexState /\ y.owner = left.mx.owner /\ y.hold = left.mx.hold
       /\ y.mprio = left.mx.mprio /\ y.linked = left.mx.linked
       /\ \A x \in Thread : y.pending[x] = IF x = u THEN None ELSE left.mx.pending[x]
  BY <1>10 DEF MutexState
<1> HIDE DEF r, y
<1>13. /\ r.cur = k.cur /\ r.nest = k.nest /\ r.error = k.error
       /\ r.wait = left.k.wait /\ r.prio = left.k.prio /\ r.stat = left.k.stat
       /\ r.stat[u] = "CLOSE"
       /\ \A x \in Thread : x # u => r.stat[x] = k.stat[x]
       /\ \A w \in WaitList, x \in Thread :
             Contains(r.wait[w], x) <=> Contains(k.wait[w], x)
       /\ \A x : Contains(r.timers, x) => Contains(k.timers, x)
  BY <1>6, <1>9, <1>11 DEF SameThreads, SameWaits, Reprioritised
<1>14. y.owner = mx.owner /\ y.hold = mx.hold /\ left.mx.pending = mx.pending
  BY <1>9, <1>12 DEF Reprioritised
<1>15. Mutexes(r, y, None)
  <2>1. \A w \in WaitList : ~Contains(r.wait[w], u)
    BY <1>4, <1>13 DEF IInv, ThreadOK, Taking, Dead
  <2>2. Queued(r, y)
    BY <1>10, <1>12, <1>13, <2>1 DEF Mutexes, Queued
  <2>3. Ordered(r) /\ Known(r, y) /\ Inherits(r, y, None)
    BY <1>10, <1>12, <1>13 DEF Mutexes, Ordered, Known, Inherits
  <2> QED BY <1>12, <2>2, <2>3 DEF Mutexes
<1>16. Asleep(r, y, Dead)
  <2>1. ASSUME NEW x \in Thread \ Dead, r.stat[x] = "SUSPEND", y.pending[x] # None
        PROVE  Contains(r.wait[y.pending[x]], x)
    BY <1>4, <1>10, <1>12, <1>13, <2>1 DEF Asleep
  <2>2. \A w \in WaitList : y.owner[w] \notin Dead
    BY <1>10, <1>12 DEF Asleep
  <2> QED BY <2>1, <2>2 DEF Asleep
<1>17. LoopOK(k', mx', None, {}, Dead)
  <2>1. CurrentSound(r, {})
    BY <1>10, <1>11 DEF CurrentSound, SameThreads
  <2> QED BY <1>8, <1>11, <1>15, <1>16, <2>1 DEF LoopOK
<1>18. Goes(t, "run", None)
  BY <1>1, <1>3 DEF IInv, ControlOK, Goto, Goes, SamePlace, PC, ThreadOK
<1>19. /\ target' \in [Thread -> Thread]
       /\ \A x \in Thread : x # t => target'[x] = target[x]
  BY <1>1 DEF IInv, ControlOK
<1>20. ControlOK'
  BY <1>1, <1>18, <1>19 DEF IInv, ControlOK, Goes
<1>21. k'.nest = 0 /\ CurrentRuns' /\ IdleCanRun' /\ HeldIfOwned'
  <2>1. k'.stat[k'.cur] = "RUNNING" /\ k'.nest = 0
    BY <1>3, <1>4, <1>8, <1>13 DEF IInv
  <2>2. k'.stat[Idle] \in {"READY", "RUNNING"}
    BY <1>4, <1>8, <1>13, IInvFacts DEF IInv, IdleCanRun
  <2>3. HeldIfOwned'
    BY <1>8, <1>14 DEF IInv, HeldIfOwned
  <2> QED BY <2>1, <2>2, <2>3 DEF CurrentRuns, IdleCanRun
<1>22. ASSUME NEW x \in Thread PROVE ThreadOK(x)'
  <2>1. CASE x = t
    <3>1. \A w \in WaitList : ~Contains(k'.wait[w], t)
      BY <1>3, <1>8, <1>13
    <3>2. pc'[t] \notin Taking /\ mutex'[t] = None
      BY <1>18 DEF Goes, Taking
    <3> QED BY <2>1, <3>1, <3>2, OutsideOK
  <2>2. CASE x # t
    <3>1. ThreadOK(x) /\ pc'[x] = pc[x] /\ mutex'[x] = mutex[x]
      BY <1>18, <2>2 DEF IInv, Goes, SamePlace
    <3>2. Stays(k', mx', x)
      BY <1>4, <1>8, <1>13, <1>14 DEF Stays
    <3> QED BY <3>1, <3>2, StaysOK
  <2> QED BY <2>1, <2>2
<1>23. \A x \in Thread : x # t => pc'[x] = pc[x]
  BY <1>18 DEF Goes, SamePlace
<1>24. pc'[t] = "run"
  BY <1>18 DEF Goes
<1>25. DeadStay'
  <2>1. ASSUME NEW x \in Thread, pc'[x] = "dead"
        PROVE  k'.stat[x] \in {"SUSPEND", "CLOSE"} /\ ~Contains(k'.timers, x)
    <3>1. pc[x] = "dead"
      BY <1>23, <1>24, <2>1
    <3>2. k.stat[x] \in {"SUSPEND", "CLOSE"} /\ ~Contains(k.timers, x)
      BY <3>1 DEF IInv, DeadStay
    <3> QED BY <1>8, <1>13, <3>2
  <2>2. ASSUME NEW x \in Thread, pc'[x] = "drop"
        PROVE  /\ pc'[target'[x]] = "dead" /\ k'.stat[target'[x]] = "SUSPEND"
               /\ mx'.pending[target'[x]] \in WaitList
               /\ \A z \in Thread : pc'[z] = "drop" /\ target'[z] = target'[x] => z = x
    <3>1. x # t /\ pc[x] = "drop" /\ target'[x] = target[x] /\ target[x] \in Thread
      BY <1>19, <1>23, <1>24, <2>2 DEF IInv, ControlOK
    <3>2. target[x] # u
      BY <1>4, <3>1
    <3>3. /\ pc[target[x]] = "dead" /\ k.stat[target[x]] = "SUSPEND"
          /\ mx.pending[target[x]] \in WaitList
          /\ \A z \in Thread : pc[z] = "drop" /\ target[z] = target[x] => z = x
      BY <3>1 DEF IInv, DeadStay
    <3>4. target[x] # t
      BY <1>3, <3>3
    <3>5. pc'[target[x]] = "dead" /\ k'.stat[target[x]] = "SUSPEND"
      BY <1>8, <1>13, <1>23, <3>1, <3>2, <3>3, <3>4
    <3>6. mx'.pending[target[x]] \in WaitList
      BY <1>8, <1>12, <1>14, <3>1, <3>2, <3>3
    <3>7. \A z \in Thread : pc'[z] = "drop" /\ target'[z] = target'[x] => z = x
      BY <1>19, <1>23, <1>24, <3>1, <3>3
    <3> QED BY <3>1, <3>5, <3>6, <3>7
  <2> QED BY <2>1, <2>2 DEF DeadStay
<1>26. Dead' = Dead
  BY <1>3, <1>23, <1>24 DEF Dead
<1>27. IInv'
  BY <1>17, <1>20, <1>21, <1>22, <1>25, <1>26 DEF IInv
<1> QED BY <1>3, <1>8, <1>13, <1>14, <1>18, <1>27

-----------------------------------------------------------------------------
(* The theorems *)

\* The threads have been started and nobody has called rt_mutex_take.
LEMMA InitIInv ==
  ASSUME Init
  PROVE  IInv
<1>1. PICK cur \in Thread, live \in Users :
         k = KernelStart(Thread, cur, InitPrio) /\ mx = Free(live)
  BY DEF Init
<1>2. /\ isr = "none" /\ pc = [t \in Thread |-> "run"]
      /\ mutex = [t \in Thread |-> None] /\ target = [t \in Thread |-> t]
  BY DEF Init
<1>3. Thread \in SUBSET Thread /\ Idle \in Thread /\ InitPrio \in [Thread -> Prio]
  BY KernelAssumption, MutexAssumption
<1>4. /\ Sound(k, {}) /\ CurrentSound(k, {})
      /\ k.cur = cur /\ k.stat[cur] = "RUNNING"
      /\ k.stat[Idle] \in {"READY", "RUNNING"}
      /\ \A t \in Thread : k.stat[t] \in {"READY", "RUNNING"}
      /\ k.timers = <<>> /\ \A w \in WaitList : k.wait[w] = <<>>
      /\ k.nest = 0 /\ \A t \in Thread : k.error[t] = "EOK"
  BY <1>1, <1>3, KernelStartSound
<1>5. \A w \in WaitList, t \in Thread : ~Contains(k.wait[w], t)
  BY <1>4, EmptyFacts
<1>6. /\ mx.owner = [m \in WaitList |-> None] /\ mx.hold = [m \in WaitList |-> 0]
      /\ mx.pending = [t \in Thread |-> None]
      /\ mx \in MutexState
  <2>1. 0 \in 0 .. HoldMax /\ NoPrio \in 0 .. NoPrio
    BY PrioFacts
  <2> QED BY <1>1, <2>1 DEF Free, MutexState
<1>7. Mutexes(k, mx, None)
  <2>1. Ordered(k)
    BY <1>4 DEF Ordered, Sorted
  <2> QED BY <1>5, <1>6, <2>1 DEF Mutexes, Queued, Known, Inherits
<1>8. Dead = {} /\ ControlOK
  BY <1>2 DEF Dead, ControlOK, PC
<1>9. LoopOK(k, mx, None, {}, Dead)
  BY <1>4, <1>6, <1>7, <1>8 DEF LoopOK, Asleep
<1>10. CurrentRuns /\ IdleCanRun /\ HeldIfOwned
  BY <1>4, <1>6 DEF CurrentRuns, IdleCanRun, HeldIfOwned
<1>11. (\A t \in Thread : ThreadOK(t)) /\ DeadStay
  BY <1>2, <1>5 DEF ThreadOK, DeadStay, Taking
<1> QED BY <1>4, <1>8, <1>9, <1>10, <1>11 DEF IInv

\* Every step keeps the invariant, as long as no thread sleeps with a mutex left
\* in pending_object.
LEMMA NextStep ==
  ASSUME ~AnySleep, IInv, [Next]_mvars
  PROVE  IInv'
<1>1. CASE Interrupt
  BY <1>1, InterruptStep
<1>2. ASSUME NEW t \in Thread, ThreadStep(t)
      PROVE  IInv'
  <2>1. CASE TakeSchedule(t) \/ CallSchedule(t)
    BY <2>1, ScheduleStep
  <2>2. CASE TakeGranted(t)
    BY <2>2, TakeGrantedStep
  <2>3. CASE TakeFailed(t)
    BY <2>3, TakeFailedStep
  <2>4. CASE Sleep(t)
    <3>1. mx.pending[t] = None
      BY <2>4 DEF Sleep
    <3> QED BY <2>4, <3>1, SleepStep
  <2>5. CASE DropThread(t)
    BY <2>5, DropThreadStep
  <2>6. CASE \E u \in Thread : DeleteUnlink(t, u)
    BY <2>6, DeleteUnlinkStep
  <2>7. ASSUME NEW m \in WaitList,
               \/ TakeFree(t, m) \/ TakeAgain(t, m)
               \/ TakeRefused(t, m) \/ TakeWait(t, m)
               \/ ReleaseRefused(t, m) \/ ReleaseInner(t, m)
               \/ ReleaseOuter(t, m) \/ SetPrioCeiling(t, m)
               \/ Detach(t, m)
        PROVE  IInv'
    <3>1. CASE TakeFree(t, m)
      BY <3>1, TakeFreeStep
    <3>2. CASE TakeAgain(t, m)
      BY <3>2, TakeAgainStep
    <3>3. CASE TakeRefused(t, m) \/ ReleaseRefused(t, m)
      BY <3>3, RefusedStep
    <3>4. CASE TakeWait(t, m)
      BY <3>4, TakeWaitStep
    <3>5. CASE ReleaseInner(t, m)
      BY <3>5, ReleaseInnerStep
    <3>6. CASE ReleaseOuter(t, m) /\ k.wait[m] = <<>>
      BY <3>6, ReleaseFreeStep
    <3>7. CASE ReleaseOuter(t, m) /\ k.wait[m] # <<>>
      BY <3>7, ReleaseHandStep
    <3>8. CASE SetPrioCeiling(t, m)
      BY <3>8, SetPrioCeilingStep
    <3>9. CASE Detach(t, m)
      BY <3>9, DetachStep
    <3> QED BY <2>7, <3>1, <3>2, <3>3, <3>4, <3>5, <3>6, <3>7, <3>8, <3>9
  <2> QED BY <1>2, <2>1, <2>2, <2>3, <2>4, <2>5, <2>6, <2>7 DEF ThreadStep
<1>3. CASE UNCHANGED mvars
  <2>1. /\ k' = k /\ isr' = isr /\ mx' = mx /\ pc' = pc /\ mutex' = mutex
        /\ target' = target
    BY <1>3 DEF mvars
  <2>2. ControlOK' /\ CurrentRuns' /\ IdleCanRun' /\ DeadStay' /\ HeldIfOwned'
        /\ Dead' = Dead
    BY <2>1 DEF IInv, ControlOK, CurrentRuns, IdleCanRun, DeadStay, HeldIfOwned, Dead
  <2>3. \A t \in Thread : ThreadOK(t)'
    BY <2>1 DEF IInv, ThreadOK
  <2> QED BY <2>1, <2>2, <2>3 DEF IInv
<1> QED BY <1>1, <1>2, <1>3 DEF Next

\* The inductive invariant: the kernel record is sound, the wait lists are in
\* the order of the priorities, mutex->priority is never behind a waiter nor an
\* owner behind it, and a thread is on a list exactly while its take waits.
THEOREM Invariance == ~AnySleep => (Spec => []IInv)
<1> SUFFICES ASSUME ~AnySleep PROVE Spec => []IInv
  OBVIOUS
<1>1. Init => IInv
  BY InitIInv
<1>2. IInv /\ [Next]_mvars => IInv'
  BY NextStep
<1> QED BY <1>1, <1>2, PTL DEF Spec

\* The kernel record, the mutexes and the program counters keep their types.
THEOREM TypeCorrect == ~AnySleep => (Spec => []TypeOK)
<1>1. IInv => TypeOK
  BY DEF IInv, ControlOK, LoopOK, Mutexes, Sound, TypeOK
<1> QED BY <1>1, Invariance, PTL

\* The lists stay in the order of the priorities the waiters have now, whoever
\* inherits what along whatever chain of owners.
THEOREM ListsInOrder == ~AnySleep => (Spec => []QueuedByPriority)
<1>1. ASSUME IInv PROVE QueuedByPriority
  <2>1. Ordered(k) /\ \A m \in WaitList : k.wait[m] \in Seq(Thread)
    BY <1>1, IInvFacts DEF KernelState
  <2> QED BY <2>1 DEF QueuedByPriority, Ordered, Sorted
<1>2. IInv => QueuedByPriority
  BY <1>1
<1> QED BY <1>2, Invariance, PTL

\* No priority inversion, along chains of any length.
THEOREM NoInversionEver == ~AnySleep => (Spec => []NoInversion)
<1>1. ASSUME IInv, NEW m \in WaitList, NEW t \in Thread, Contains(k.wait[m], t)
      PROVE  mx.owner[m] # None /\ k.prio[mx.owner[m]] <= k.prio[t]
  <2>1. /\ mx \in MutexState /\ k \in KernelState
        /\ Queued(k, mx) /\ Known(k, mx) /\ Inherits(k, mx, None)
    BY <1>1, IInvFacts
  <2>2. mx.linked[m] /\ mx.owner[m] # None /\ mx.owner[m] \in Thread
    BY <1>1, <2>1 DEF Queued, MutexState
  <2>3. mx.mprio[m] <= k.prio[t] /\ k.prio[mx.owner[m]] <= mx.mprio[m]
    BY <1>1, <2>1, <2>2 DEF Known, Inherits
  <2>4. mx.mprio[m] \in Nat /\ k.prio[t] \in Nat /\ k.prio[mx.owner[m]] \in Nat
    BY <2>1, <2>2, PrioFacts DEF MutexState, KernelState
  <2> QED BY <2>2, <2>3, <2>4
<1>2. IInv => NoInversion
  BY <1>1 DEF NoInversion
<1> QED BY <1>2, Invariance, PTL

\* A thread is on the list of a mutex exactly while its rt_mutex_take of this
\* mutex waits.
THEOREM OnlyTakersWaitEver == ~AnySleep => (Spec => []OnlyTakersWait)
<1>1. ASSUME IInv, NEW m \in WaitList, NEW t \in Thread, Contains(k.wait[m], t)
      PROVE  /\ mutex[t] = m /\ pc[t] \in {"take_sched", "take_return"}
             /\ mx.pending[t] = m /\ k.stat[t] = "SUSPEND"
             /\ IsInjective(k.wait[m])
  <2>1. mx.pending[t] = m /\ k.stat[t] = "SUSPEND"
    BY <1>1, IInvFacts DEF Queued
  <2>2. IsInjective(k.wait[m])
    BY <1>1, IInvFacts DEF Sound, ListsSound
  <2>3. mutex[t] = m /\ pc[t] \in Taking
    BY <1>1 DEF IInv, ThreadOK
  <2> QED BY <2>1, <2>2, <2>3 DEF Taking
<1>2. IInv => OnlyTakersWait
  BY <1>1 DEF OnlyTakersWait
<1> QED BY <1>2, Invariance, PTL

-----------------------------------------------------------------------------
(* What the callers of a mutex see *)

\* Nothing happens to the lock of m.
Idles(m) ==
  /\ mx'.owner[m] = mx.owner[m] /\ mx'.hold[m] = mx.hold[m]
  /\ \A t \in Thread : CallOf(m, t)' = CallOf(m, t)

\* Only the call of t changes, to c.
Turns(m, t, c) ==
  /\ mx'.owner[m] = mx.owner[m] /\ mx'.hold[m] = mx.hold[m]
  /\ CallOf(m, t)' = c
  /\ \A u \in Thread : u # t => CallOf(m, u)' = CallOf(m, u)

\* What each step is for the lock of m.
Implements(m) == Lock(m)!Next \/ UNCHANGED Lock(m)!lvars

\* The lock of m stutters.
LEMMA IdlesImplement ==
  ASSUME NEW m \in WaitList, Idles(m)
  PROVE  Implements(m)
<1>1. \A t \in Thread : CallOf(m, t)' = CallOf(m, t)
  BY DEF Idles
<1>2. [t \in Thread |-> CallOf(m, t)]' = [t \in Thread |-> CallOf(m, t)]
  BY <1>1
<1> QED BY <1>2 DEF Idles, Implements, Lock!lvars

\* One call of the lock turns.
LEMMA TurnsBecome ==
  ASSUME NEW m \in WaitList, NEW t \in Thread, NEW c, Turns(m, t, c)
  PROVE  /\ Lock(m)!Become(t, c)
         /\ UNCHANGED <<mx.owner[m], mx.hold[m]>>
<1>1. /\ CallOf(m, t)' = c
      /\ \A u \in Thread : u # t => CallOf(m, u)' = CallOf(m, u)
  BY DEF Turns
<1>2. [u \in Thread |-> CallOf(m, u)]' = [[u \in Thread |-> CallOf(m, u)] EXCEPT ![t] = c]
  BY <1>1
<1> QED BY <1>2 DEF Turns, Lock!Become

\* A thread for which nothing changes.
LEMMA CallSame ==
  ASSUME NEW m \in WaitList, NEW t \in Thread,
         Contains(k'.wait[m], t) <=> Contains(k.wait[m], t),
         mutex'[t] = mutex[t], pc'[t] = "dead" <=> pc[t] = "dead",
         k'.error[t] = k.error[t]
  PROVE  CallOf(m, t)' = CallOf(m, t)
BY DEF CallOf

\* A thread in no rt_mutex_take of m.
LEMMA CallNone ==
  ASSUME NEW m \in WaitList, NEW t \in Thread,
         ~Contains(k.wait[m], t), mutex[t] # m
  PROVE  CallOf(m, t) = "none"
BY DEF CallOf

\* The same after the step.
LEMMA CallNoneNext ==
  ASSUME NEW m \in WaitList, NEW t \in Thread,
         ~Contains(k'.wait[m], t), mutex'[t] # m
  PROVE  CallOf(m, t)' = "none"
BY DEF CallOf

\* A thread that executes outside of rt_mutex_take calls nothing.
LEMMA CallerFree ==
  ASSUME IInv, NEW m \in WaitList, NEW t \in Thread, Executes(t),
         pc[t] \in {"run", "drop", "post_sched"}
  PROVE  /\ CallOf(m, t) = "none" /\ mutex[t] = None
         /\ \A w \in WaitList : ~Contains(k.wait[w], t)
<1>1. mutex[t] = None /\ \A w \in WaitList : ~Contains(k.wait[w], t)
  BY DEF IInv, ThreadOK, Taking
<1>2. mutex[t] # m
  BY <1>1, PrioFacts
<1> QED BY <1>1, <1>2, CallNone

\* A steady step that ends in no call is seen by none but the thread itself.
LEMMA SteadyCalls ==
  ASSUME IInv, NEW m \in WaitList, NEW t \in Thread, NEW c \in {"run", "post_sched"},
         Executes(t), pc[t] \in {"run", "take_return"}, Steady(t), Goes(t, c, None)
  PROVE  /\ CallOf(m, t)' = "none"
         /\ \A u \in Thread : u # t => CallOf(m, u)' = CallOf(m, u)
<1>1. \A w \in WaitList : ~Contains(k.wait[w], t)
  BY ExecutingRuns
<1>2. ~Contains(k'.wait[m], t) /\ mutex'[t] # m
  BY <1>1, PrioFacts DEF Steady, Goes
<1>3. CallOf(m, t)' = "none"
  BY <1>2, CallNoneNext
<1>4. ASSUME NEW u \in Thread, u # t PROVE CallOf(m, u)' = CallOf(m, u)
  <2>1. /\ Contains(k'.wait[m], u) <=> Contains(k.wait[m], u)
        /\ mutex'[u] = mutex[u] /\ pc'[u] = pc[u] /\ k'.error[u] = k.error[u]
    BY <1>4 DEF Steady, Goes, SamePlace
  <2> QED BY <2>1, CallSame
<1> QED BY <1>3, <1>4

\* One that starts in no call is seen by none.
LEMMA SteadyIdles ==
  ASSUME IInv, NEW m \in WaitList, NEW t \in Thread, NEW c \in {"run", "post_sched"},
         Executes(t), pc[t] = "run", Steady(t), Goes(t, c, None)
  PROVE  \A u \in Thread : CallOf(m, u)' = CallOf(m, u)
<1>1. CallOf(m, t) = "none"
  BY CallerFree
<1>2. /\ CallOf(m, t)' = "none"
      /\ \A u \in Thread : u # t => CallOf(m, u)' = CallOf(m, u)
  BY SteadyCalls
<1> QED BY <1>1, <1>2

\* Nor is one that moves no thread.
LEMMA NowhereIdles ==
  ASSUME IInv, NEW m \in WaitList, NEW t \in Thread, At(t, "run"), Steady(t),
         UNCHANGED <<isr, pc, mutex>>
  PROVE  CallOf(m, t) = "none" /\ \A u \in Thread : CallOf(m, u)' = CallOf(m, u)
<1>1. Goes(t, "run", None) /\ Executes(t) /\ pc[t] = "run" /\ mutex[t] = None
  BY GoesNowhere
<1>2. \A u \in Thread : CallOf(m, u)' = CallOf(m, u)
  BY <1>1, SteadyIdles
<1>3. CallOf(m, t) = "none"
  BY <1>1, CallerFree
<1> QED BY <1>2, <1>3

-----------------------------------------------------------------------------
(* Each step is one of the lock's *)

\* rt_mutex_take of a free mutex is Take.
LEMMA TakeFreeLocks ==
  ASSUME IInv, NEW w \in WaitList, NEW t \in Thread, NEW m \in WaitList, TakeFree(t, m)
  PROVE  Implements(w)
<1>1. /\ Steady(t) /\ mx'.owner = [mx.owner EXCEPT ![m] = t]
      /\ mx'.hold = [mx.hold EXCEPT ![m] = 1]
  BY TakeFreeStep
<1>2. At(t, "run") /\ mx.owner[m] = None /\ UNCHANGED <<isr, pc, mutex>>
  BY DEF TakeFree
<1>3. CallOf(w, t) = "none" /\ \A u \in Thread : CallOf(w, u)' = CallOf(w, u)
  BY <1>1, <1>2, NowhereIdles
<1>4. mx \in MutexState
  BY IInvFacts
<1>5. \A v \in WaitList : /\ mx'.owner[v] = IF v = m THEN t ELSE mx.owner[v]
                          /\ mx'.hold[v] = IF v = m THEN 1 ELSE mx.hold[v]
  BY <1>1, <1>4 DEF MutexState
<1>6. CASE w # m
  <2>1. Idles(w)
    BY <1>3, <1>5, <1>6 DEF Idles
  <2> QED BY <2>1, IdlesImplement
<1>7. CASE w = m
  <2>1. [u \in Thread |-> CallOf(m, u)]' = [u \in Thread |-> CallOf(m, u)]
    BY <1>3, <1>7
  <2>2. Lock(m)!Take(t)
    BY <1>2, <1>3, <1>5, <1>7, <2>1 DEF Lock!Take
  <2>3. Lock(m)!Next
    BY <2>2 DEF Lock!Next
  <2> QED BY <1>7, <2>3 DEF Implements
<1> QED BY <1>6, <1>7

\* rt_mutex_take of a mutex the thread has is Again, up to the limit.
LEMMA TakeAgainLocks ==
  ASSUME IInv, NEW w \in WaitList, NEW t \in Thread, NEW m \in WaitList, TakeAgain(t, m)
  PROVE  Implements(w)
<1>1. /\ Steady(t) /\ mx'.owner = mx.owner
      /\ mx'.hold = [mx.hold EXCEPT ![m] = IF @ < HoldMax THEN @ + 1 ELSE @]
  BY TakeAgainStep
<1>2. At(t, "run") /\ mx.owner[m] = t /\ UNCHANGED <<isr, pc, mutex>>
  BY DEF TakeAgain
<1>3. CallOf(w, t) = "none" /\ \A u \in Thread : CallOf(w, u)' = CallOf(w, u)
  BY <1>1, <1>2, NowhereIdles
<1>4. mx \in MutexState
  BY IInvFacts
<1>5. \A v \in WaitList :
         mx'.hold[v] = IF v = m /\ mx.hold[m] < HoldMax THEN mx.hold[m] + 1 ELSE mx.hold[v]
  BY <1>1, <1>4 DEF MutexState
<1>6. CASE ~(w = m /\ mx.hold[m] < HoldMax)
  <2>1. Idles(w)
    BY <1>1, <1>3, <1>5, <1>6 DEF Idles
  <2> QED BY <2>1, IdlesImplement
<1>7. CASE w = m /\ mx.hold[m] < HoldMax
  <2>1. [u \in Thread |-> CallOf(m, u)]' = [u \in Thread |-> CallOf(m, u)]
    BY <1>3, <1>7
  <2>2. Lock(m)!Again(t)
    BY <1>1, <1>2, <1>3, <1>5, <1>7, <2>1 DEF Lock!Again
  <2>3. Lock(m)!Next
    BY <2>2 DEF Lock!Next
  <2> QED BY <1>7, <2>3 DEF Implements
<1> QED BY <1>6, <1>7

\* A take or release that is refused, or a new ceiling, is nothing.
LEMMA RefusedLocks ==
  ASSUME IInv, NEW w \in WaitList, NEW t \in Thread, NEW m \in WaitList,
         TakeRefused(t, m) \/ ReleaseRefused(t, m) \/ SetPrioCeiling(t, m)
  PROVE  Implements(w)
<1>1. Steady(t) /\ mx'.owner = mx.owner /\ mx'.hold = mx.hold
  BY RefusedStep, SetPrioCeilingStep
<1>2. At(t, "run") /\ UNCHANGED <<isr, pc, mutex>>
  BY DEF TakeRefused, ReleaseRefused, SetPrioCeiling
<1>3. \A u \in Thread : CallOf(w, u)' = CallOf(w, u)
  BY <1>1, <1>2, NowhereIdles
<1>4. Idles(w)
  BY <1>1, <1>3 DEF Idles
<1> QED BY <1>4, IdlesImplement

\* rt_mutex_release of a mutex held more than once is Release.
LEMMA ReleaseInnerLocks ==
  ASSUME IInv, NEW w \in WaitList, NEW t \in Thread, NEW m \in WaitList, ReleaseInner(t, m)
  PROVE  Implements(w)
<1>1. /\ Steady(t) /\ mx'.owner = mx.owner
      /\ mx'.hold = [mx.hold EXCEPT ![m] = @ - 1]
  BY ReleaseInnerStep
<1>2. At(t, "run") /\ mx.owner[m] = t /\ mx.hold[m] > 1 /\ UNCHANGED <<isr, pc, mutex>>
  BY DEF ReleaseInner
<1>3. CallOf(w, t) = "none" /\ \A u \in Thread : CallOf(w, u)' = CallOf(w, u)
  BY <1>1, <1>2, NowhereIdles
<1>4. mx \in MutexState
  BY IInvFacts
<1>5. \A v \in WaitList : mx'.hold[v] = IF v = m THEN mx.hold[m] - 1 ELSE mx.hold[v]
  BY <1>1, <1>4 DEF MutexState
<1>6. CASE w # m
  <2>1. Idles(w)
    BY <1>1, <1>3, <1>5, <1>6 DEF Idles
  <2> QED BY <2>1, IdlesImplement
<1>7. CASE w = m
  <2>1. [u \in Thread |-> CallOf(m, u)]' = [u \in Thread |-> CallOf(m, u)]
    BY <1>3, <1>7
  <2>2. Lock(m)!Release(t)
    BY <1>1, <1>2, <1>3, <1>5, <1>7, <2>1 DEF Lock!Release
  <2>3. Lock(m)!Next
    BY <2>2 DEF Lock!Next
  <2> QED BY <1>7, <2>3 DEF Implements
<1> QED BY <1>6, <1>7

\* So is the last release, with nobody waiting.
LEMMA ReleaseFreeLocks ==
  ASSUME IInv, NEW w \in WaitList, NEW t \in Thread, NEW m \in WaitList,
         ReleaseOuter(t, m), k.wait[m] = <<>>
  PROVE  Implements(w)
<1>1. /\ Steady(t)
      /\ Goes(t, "run", None) \/ Goes(t, "post_sched", None)
      /\ mx'.owner = [mx.owner EXCEPT ![m] = None]
      /\ mx'.hold = [mx.hold EXCEPT ![m] = 0]
  BY ReleaseFreeStep
<1>2. Executes(t) /\ pc[t] = "run" /\ mx.owner[m] = t /\ mx.hold[m] = 1
  BY DEF ReleaseOuter, At
<1>3. CallOf(w, t) = "none" /\ \A u \in Thread : CallOf(w, u)' = CallOf(w, u)
  <2>1. CallOf(w, t) = "none"
    BY <1>2, CallerFree
  <2>2. PICK c \in {"run", "post_sched"} : Goes(t, c, None)
    BY <1>1
  <2>3. \A u \in Thread : CallOf(w, u)' = CallOf(w, u)
    BY <1>1, <1>2, <2>2, SteadyIdles
  <2> QED BY <2>1, <2>3
<1>4. mx \in MutexState
  BY IInvFacts
<1>5. \A v \in WaitList : /\ mx'.owner[v] = IF v = m THEN None ELSE mx.owner[v]
                          /\ mx'.hold[v] = IF v = m THEN 0 ELSE mx.hold[v]
  BY <1>1, <1>4 DEF MutexState
<1>6. CASE w # m
  <2>1. Idles(w)
    BY <1>3, <1>5, <1>6 DEF Idles
  <2> QED BY <2>1, IdlesImplement
<1>7. CASE w = m
  <2>1. [u \in Thread |-> CallOf(m, u)]' = [u \in Thread |-> CallOf(m, u)]
    BY <1>3, <1>7
  <2>2. \A u \in Thread : CallOf(m, u) # "waiting"
    BY EmptyFacts DEF CallOf
  <2>3. Lock(m)!Waiting = {}
    BY <2>2 DEF Lock!Waiting
  <2>4. Lock(m)!Release(t)
    BY <1>2, <1>3, <1>5, <1>7, <2>1, <2>3 DEF Lock!Release
  <2>5. Lock(m)!Next
    BY <2>4 DEF Lock!Next
  <2> QED BY <1>7, <2>5 DEF Implements
<1> QED BY <1>6, <1>7

\* A release that hands the mutex over is Release as well.
LEMMA ReleaseHandLocks ==
  ASSUME IInv, NEW w \in WaitList, NEW t \in Thread, NEW m \in WaitList,
         ReleaseOuter(t, m), k.wait[m] # <<>>
  PROVE  Implements(w)
<1>1. PICK n \in Thread :
         /\ Contains(k.wait[m], n)
         /\ OffWaits(k', k, n) /\ k'.error = k.error
         /\ Goes(t, "post_sched", None)
         /\ mx'.owner = [mx.owner EXCEPT ![m] = n]
         /\ mx'.hold = [mx.hold EXCEPT ![m] = 1]
  BY ReleaseHandStep
<1>2. Executes(t) /\ pc[t] = "run" /\ mx.owner[m] = t /\ mx.hold[m] = 1
  BY DEF ReleaseOuter, At
<1>3. /\ CallOf(w, t) = "none" /\ CallOf(m, t) = "none" /\ mutex[t] = None
      /\ \A v \in WaitList : ~Contains(k.wait[v], t)
  BY <1>2, CallerFree
<1>4. mutex[n] = m /\ pc[n] \in Taking /\ k.error[n] = "EOK" /\ n # t
  BY <1>1, <1>3 DEF IInv, ThreadOK
<1>5. \A v \in WaitList : /\ mx'.owner[v] = IF v = m THEN n ELSE mx.owner[v]
                          /\ mx'.hold[v] = IF v = m THEN 1 ELSE mx.hold[v]
  BY <1>1, IInvFacts DEF MutexState
<1>6. ASSUME NEW u \in Thread, u # n
      PROVE  CallOf(w, u)' = CallOf(w, u)
  <2>1. Contains(k'.wait[w], u) <=> Contains(k.wait[w], u)
    BY <1>1, <1>6 DEF OffWaits
  <2>2. mutex'[u] = mutex[u] /\ (pc'[u] = "dead" <=> pc[u] = "dead")
    BY <1>1, <1>2, <1>3 DEF Goes, SamePlace
  <2> QED BY <1>1, <2>1, <2>2, CallSame
<1>7. ~Contains(k'.wait[w], n) /\ mutex'[n] = m /\ pc'[n] # "dead"
  BY <1>1, <1>4 DEF OffWaits, Goes, SamePlace, Taking
<1>8. CASE w # m
  <2>1. ~Contains(k.wait[w], n)
    BY <1>1, <1>4, <1>8 DEF IInv, ThreadOK
  <2>2. CallOf(w, n) = "none" /\ CallOf(w, n)' = "none"
    BY <1>1, <1>4, <1>7, <1>8, <2>1, CallNone, CallNoneNext
  <2>3. Idles(w)
    BY <1>1, <1>5, <1>6, <1>8, <2>2 DEF Idles
  <2> QED BY <2>3, IdlesImplement
<1>9. CASE w = m
  <2>1. CallOf(m, n)' = "granted" /\ CallOf(m, n) = "waiting"
    BY <1>1, <1>4, <1>7, <1>9 DEF CallOf
  <2>2. [u \in Thread |-> CallOf(m, u)]'
          = [[u \in Thread |-> CallOf(m, u)] EXCEPT ![n] = "granted"]
    BY <1>6, <1>9, <2>1
  <2>3. mx'.owner[m] = n /\ mx'.hold[m] = mx.hold[m]
    BY <1>2, <1>5
  <2>4. mx'.owner[m] \in Lock(m)!Waiting
    BY <1>1, <2>1, <2>3 DEF Lock!Waiting
  <2>5. Lock(m)!Become(mx'.owner[m], "granted")
    BY <2>2, <2>3 DEF Lock!Become
  <2>6. Lock(m)!Release(t)
    BY <1>2, <1>3, <2>3, <2>4, <2>5 DEF Lock!Release
  <2>7. Lock(m)!Next
    BY <2>6 DEF Lock!Next
  <2> QED BY <1>9, <2>7 DEF Implements
<1> QED BY <1>8, <1>9

\* The return of rt_mutex_take, with or without the mutex, is Return.
LEMMA ReturnLocks ==
  ASSUME IInv, NEW w \in WaitList, NEW t \in Thread, TakeGranted(t) \/ TakeFailed(t)
  PROVE  Implements(w)
<1>1. /\ Steady(t) /\ Goes(t, "run", None) /\ mx'.owner = mx.owner /\ mx'.hold = mx.hold
  BY TakeGrantedStep, TakeFailedStep
<1>2. Executes(t) /\ pc[t] = "take_return"
  BY DEF TakeGranted, TakeFailed, At
<1>3. \A v \in WaitList : ~Contains(k.wait[v], t)
  BY <1>2, ExecutingRuns
<1>4. /\ CallOf(w, t)' = "none"
      /\ \A u \in Thread : u # t => CallOf(w, u)' = CallOf(w, u)
  BY <1>1, <1>2, SteadyCalls
<1>5. CASE mutex[t] # w
  <2>1. CallOf(w, t) = "none"
    BY <1>3, <1>5, CallNone
  <2>2. Idles(w)
    BY <1>1, <1>4, <2>1 DEF Idles
  <2> QED BY <2>2, IdlesImplement
<1>6. CASE mutex[t] = w
  <2>1. \/ CallOf(w, t) = "refused"
        \/ CallOf(w, t) = "granted" /\ mx.owner[w] = t
    BY <1>2, <1>3, <1>6 DEF CallOf, IInv, ThreadOK, Taking
  <2>2. Turns(w, t, "none")
    BY <1>1, <1>4 DEF Turns
  <2>3. /\ Lock(w)!Become(t, "none")
        /\ UNCHANGED <<mx.owner[w], mx.hold[w]>>
    BY <2>2, TurnsBecome
  <2>4. Lock(w)!Return(t)
    BY <2>1, <2>3 DEF Lock!Return
  <2>5. Lock(w)!Next
    BY <2>4 DEF Lock!Next
  <2> QED BY <2>5 DEF Implements
<1> QED BY <1>5, <1>6

\* rt_mutex_take that waits is Wait.
LEMMA TakeWaitLocks ==
  ASSUME IInv, NEW w \in WaitList, NEW t \in Thread, NEW m \in WaitList, TakeWait(t, m)
  PROVE  Implements(w)
<1>1. Entered(k', mx', t, m) /\ Goes(t, "take_sched", m)
  BY TakeWaitStep
<1>2. Executes(t) /\ pc[t] = "run" /\ mx.owner[m] \notin {None, t}
  BY DEF TakeWait, At
<1>3. /\ CallOf(w, t) = "none" /\ CallOf(m, t) = "none" /\ mutex[t] = None
      /\ \A v \in WaitList : ~Contains(k.wait[v], t)
  BY <1>2, CallerFree
<1>4. mx'.owner = mx.owner /\ mx'.hold = mx.hold
  BY <1>1 DEF Entered
<1>5. ASSUME NEW u \in Thread, u # t
      PROVE  CallOf(w, u)' = CallOf(w, u)
  <2>1. Contains(k'.wait[w], u) <=> Contains(k.wait[w], u)
    BY <1>1, <1>5 DEF Entered, OnWait
  <2>2. mutex'[u] = mutex[u] /\ pc'[u] = pc[u] /\ k'.error[u] = k.error[u]
    BY <1>1, <1>5 DEF Goes, SamePlace, Entered
  <2> QED BY <2>1, <2>2, CallSame
<1>6. CASE w # m
  <2>1. ~Contains(k'.wait[w], t) /\ mutex'[t] # w
    BY <1>1, <1>3, <1>6 DEF Entered, OnWait, Goes
  <2>2. CallOf(w, t)' = "none"
    BY <2>1, CallNoneNext
  <2>3. Idles(w)
    BY <1>3, <1>4, <1>5, <2>2 DEF Idles
  <2> QED BY <2>3, IdlesImplement
<1>7. CASE w = m
  <2>1. CallOf(m, t)' = "waiting"
    BY <1>1 DEF Entered, OnWait, CallOf
  <2>2. Turns(m, t, "waiting")
    BY <1>4, <1>5, <1>7, <2>1 DEF Turns
  <2>3. /\ Lock(m)!Become(t, "waiting")
        /\ UNCHANGED <<mx.owner[m], mx.hold[m]>>
    BY <2>2, TurnsBecome
  <2>4. Lock(m)!Wait(t)
    BY <1>2, <1>3, <2>3 DEF Lock!Wait
  <2>5. Lock(m)!Next
    BY <2>4 DEF Lock!Next
  <2> QED BY <1>7, <2>5 DEF Implements
<1> QED BY <1>6, <1>7

\* rt_schedule, rt_thread_sleep and the end of rt_thread_delete are nothing.
LEMMA OtherLocks ==
  ASSUME IInv, NEW w \in WaitList, NEW t \in Thread,
         \/ TakeSchedule(t) \/ CallSchedule(t) \/ DropThread(t)
         \/ Sleep(t) /\ mx.pending[t] = None
  PROVE  Implements(w)
<1> DEFINE Unseen ==
      /\ mx'.owner = mx.owner /\ mx'.hold = mx.hold /\ k'.error = k.error
      /\ \A u \in Thread : /\ Contains(k'.wait[w], u) <=> Contains(k.wait[w], u)
                           /\ mutex'[u] = mutex[u]
                           /\ pc'[u] = "dead" <=> pc[u] = "dead"
<1>1. ASSUME TakeSchedule(t) \/ CallSchedule(t) PROVE Unseen
  BY <1>1, ScheduleStep DEF SameWaits
<1>2. ASSUME DropThread(t) PROVE Unseen
  <2>1. /\ mx'.owner = mx.owner /\ mx'.hold = mx.hold
        /\ k'.error = k.error /\ Goes(t, "run", None) /\ pc[t] = "drop"
        /\ \A v \in WaitList, x \in Thread :
              Contains(k'.wait[v], x) <=> Contains(k.wait[v], x)
    BY <1>2, DropThreadStep
  <2>2. mutex[t] = None
    BY <2>1 DEF IInv, ThreadOK
  <2> QED BY <2>1, <2>2 DEF Goes, SamePlace
<1>3. ASSUME Sleep(t), mx.pending[t] = None PROVE Unseen
  <2>1. SameWaits(k', k) /\ mx' = mx /\ Goes(t, "post_sched", None)
    BY <1>3, SleepStep
  <2>2. pc[t] = "run" /\ mutex[t] = None
    BY <1>3 DEF Sleep, At, IInv, ThreadOK
  <2> QED BY <2>1, <2>2 DEF Goes, SamePlace, SameWaits
<1>4. Unseen
  BY <1>1, <1>2, <1>3
<1>5. \A u \in Thread : CallOf(w, u)' = CallOf(w, u)
  BY <1>4, CallSame
<1>6. Idles(w)
  BY <1>4, <1>5 DEF Idles
<1> QED BY <1>6, IdlesImplement

\* A waiter that is deleted is refused.
LEMMA DeleteLocks ==
  ASSUME IInv, NEW w \in WaitList, NEW t \in Thread, NEW u \in Thread, DeleteUnlink(t, u)
  PROVE  Implements(w)
<1>1. /\ OffWaits(k', k, u) /\ k'.error = k.error
      /\ mx' = mx /\ mutex' = mutex
      /\ u # t /\ Contains(k.wait[mx.pending[u]], u) /\ pc'[u] = "dead"
      /\ mx.pending[u] \in WaitList
      /\ \A x \in Thread \ {u} : pc'[x] = "dead" <=> pc[x] = "dead"
  BY DeleteUnlinkStep
<1>2. PICK m \in WaitList : m = mx.pending[u]
  BY <1>1
<1>3. Contains(k.wait[m], u) /\ mutex[u] = m
  BY <1>1, <1>2 DEF IInv, ThreadOK
<1>4. ASSUME NEW x \in Thread, x # u
      PROVE  CallOf(w, x)' = CallOf(w, x)
  <2>1. Contains(k'.wait[w], x) <=> Contains(k.wait[w], x)
    BY <1>1, <1>4 DEF OffWaits
  <2>2. mutex'[x] = mutex[x] /\ (pc'[x] = "dead" <=> pc[x] = "dead")
    BY <1>1, <1>4
  <2> QED BY <1>1, <2>1, <2>2, CallSame
<1>5. ~Contains(k'.wait[w], u) /\ mutex'[u] = m
  BY <1>1, <1>3 DEF OffWaits
<1>6. CASE w # m
  <2>1. ~Contains(k.wait[w], u)
    BY <1>3, <1>6 DEF IInv, ThreadOK
  <2>2. CallOf(w, u) = "none" /\ CallOf(w, u)' = "none"
    BY <1>3, <1>5, <1>6, <2>1, CallNone, CallNoneNext
  <2>3. Idles(w)
    BY <1>1, <1>4, <2>2 DEF Idles
  <2> QED BY <2>3, IdlesImplement
<1>7. CASE w = m
  <2>1. CallOf(m, u)' = "refused" /\ CallOf(m, u) = "waiting"
    BY <1>1, <1>3, <1>5, <1>7 DEF CallOf
  <2>2. Turns(m, u, "refused")
    BY <1>1, <1>4, <1>7, <2>1 DEF Turns
  <2>3. /\ Lock(m)!Become(u, "refused")
        /\ UNCHANGED <<mx.owner[m], mx.hold[m]>>
    BY <2>2, TurnsBecome
  <2>4. Lock(m)!Refuse(u)
    BY <2>1, <2>3 DEF Lock!Refuse
  <2>5. Lock(m)!Next
    BY <2>4 DEF Lock!Next
  <2> QED BY <1>7, <2>5 DEF Implements
<1> QED BY <1>6, <1>7

\* What becomes of the calls when the threads of W are woken with an error.
LEMMA WakesCalls ==
  ASSUME IInv, NEW w \in WaitList, NEW W \in SUBSET Thread, NEW e, e # "EOK",
         Wakes(W, e), UNCHANGED <<pc, mutex>>, NEW t \in Thread,
         t \in W => k.stat[t] = "SUSPEND" /\ t \notin Dead
  PROVE  CallOf(w, t)' = IF t \in W /\ CallOf(w, t) = "waiting" THEN "refused"
                                                               ELSE CallOf(w, t)
<1>1. /\ Contains(k'.wait[w], t) <=> Contains(k.wait[w], t) /\ t \notin W
      /\ k'.error[t] = IF t \in W THEN e ELSE k.error[t]
      /\ pc'[t] = pc[t] /\ mutex'[t] = mutex[t]
  BY DEF Wakes
<1>2. CASE t \notin W
  BY <1>1, <1>2, CallSame
<1>3. CASE t \in W /\ Contains(k.wait[w], t)
  <2>1. mutex[t] = w
    BY <1>3 DEF IInv, ThreadOK
  <2> QED BY <1>1, <1>3, <2>1 DEF CallOf
<1>4. CASE t \in W /\ ~Contains(k.wait[w], t)
  <2>1. mutex[t] # w
    <3>1. ThreadOK(t) /\ pc[t] \in PC /\ pc[t] # "dead" /\ k.stat[t] = "SUSPEND"
      BY <1>4 DEF IInv, ControlOK, Dead
    <3>2. CASE pc[t] \in Taking
      BY <1>4, <3>1, <3>2 DEF ThreadOK
    <3>3. CASE pc[t] \notin Taking
      <4>1. mutex[t] = None
        BY <3>1, <3>3 DEF ThreadOK, PC, Taking
      <4> QED BY <4>1, PrioFacts
    <3> QED BY <3>2, <3>3
  <2>2. CallOf(w, t) = "none" /\ CallOf(w, t)' = "none"
    BY <1>1, <1>4, <2>1, CallNone, CallNoneNext
  <2> QED BY <2>2
<1> QED BY <1>2, <1>3, <1>4

\* rt_mutex_detach is TurnAway.
LEMMA DetachLocks ==
  ASSUME IInv, NEW w \in WaitList, NEW t \in Thread, NEW m \in WaitList, Detach(t, m)
  PROVE  Implements(w)
<1>1. PICK X \in SUBSET Thread :
         /\ X = {x \in Thread : Contains(k.wait[m], x)}
         /\ mx'.owner = mx.owner /\ mx'.hold = mx.hold
         /\ Wakes(X, "ERROR")
         /\ UNCHANGED <<pc, mutex>>
  BY DetachStep
<1>2. \A x \in Thread : x \in X <=> Contains(k.wait[m], x)
  BY <1>1
<1>3. \A x \in X : k.stat[x] = "SUSPEND" /\ x \notin Dead /\ mutex[x] = m
  BY <1>2, IInvFacts DEF IInv, ThreadOK, Taking, Dead
<1>4. \A x \in Thread :
         CallOf(w, x)' = IF x \in X /\ CallOf(w, x) = "waiting" THEN "refused"
                                                                ELSE CallOf(w, x)
  BY <1>1, <1>3, WakesCalls
<1>5. \A x \in Thread : CallOf(w, x) = "waiting" <=> Contains(k.wait[w], x)
  BY DEF CallOf
<1>6. CASE w # m
  <2>1. \A x \in X : CallOf(w, x) # "waiting"
    BY <1>3, <1>5, <1>6 DEF IInv, ThreadOK
  <2>2. Idles(w)
    BY <1>1, <1>4, <2>1 DEF Idles
  <2> QED BY <2>2, IdlesImplement
<1>7. CASE w = m
  <2>1. \A x \in Thread : x \in Lock(m)!Waiting <=> CallOf(m, x) = "waiting"
    BY DEF Lock!Waiting
  <2>2. \A x \in Thread :
           CallOf(m, x)' = IF x \in Lock(m)!Waiting THEN "refused" ELSE CallOf(m, x)
    BY <1>2, <1>4, <1>5, <1>7, <2>1
  <2>3. Lock(m)!TurnAway
    BY <1>1, <2>2 DEF Lock!TurnAway
  <2>4. Lock(m)!Next
    BY <2>3 DEF Lock!Next
  <2> QED BY <1>7, <2>4 DEF Implements
<1> QED BY <1>6, <1>7

\* A timeout refuses the waiter it hits; the rest of the tick is nothing.
LEMMA InterruptLocks ==
  ASSUME IInv, NEW w \in WaitList, Interrupt
  PROVE  Implements(w)
<1>1. PICK W \in SUBSET Thread :
         /\ Wakes(W, "ETIMEOUT")
         /\ \A t \in W : k.stat[t] = "SUSPEND" /\ t \notin Dead
         /\ \A t, u \in W : t = u
  BY InterruptStep
<1>2. mx' = mx /\ UNCHANGED <<pc, mutex>>
  BY InterruptStep
<1>3. \A x \in Thread :
         CallOf(w, x)' = IF x \in W /\ CallOf(w, x) = "waiting" THEN "refused"
                                                                ELSE CallOf(w, x)
  BY <1>1, <1>2, WakesCalls
<1>4. CASE \A x \in W : CallOf(w, x) # "waiting"
  <2>1. Idles(w)
    BY <1>2, <1>3, <1>4 DEF Idles
  <2> QED BY <2>1, IdlesImplement
<1>5. ASSUME NEW t \in W, CallOf(w, t) = "waiting"
      PROVE  Implements(w)
  <2>1. \A x \in W : x = t
    BY <1>1
  <2>2. Turns(w, t, "refused")
    BY <1>2, <1>3, <1>5, <2>1 DEF Turns
  <2>3. /\ Lock(w)!Become(t, "refused")
        /\ UNCHANGED <<mx.owner[w], mx.hold[w]>>
    BY <2>2, TurnsBecome
  <2>4. Lock(w)!Refuse(t)
    BY <1>5, <2>3 DEF Lock!Refuse
  <2>5. Lock(w)!Next
    BY <2>4 DEF Lock!Next
  <2> QED BY <2>5 DEF Implements
<1> QED BY <1>4, <1>5

\* Every step of the system is one of the lock's or is not seen by it.
LEMMA NextLocks ==
  ASSUME ~AnySleep, IInv, [Next]_mvars, NEW w \in WaitList
  PROVE  Implements(w)
<1>1. CASE Interrupt
  BY <1>1, InterruptLocks
<1>2. ASSUME NEW t \in Thread, ThreadStep(t)
      PROVE  Implements(w)
  <2>1. CASE TakeSchedule(t) \/ CallSchedule(t) \/ DropThread(t)
    BY <2>1, OtherLocks
  <2>2. CASE TakeGranted(t) \/ TakeFailed(t)
    BY <2>2, ReturnLocks
  <2>3. CASE Sleep(t)
    <3>1. mx.pending[t] = None
      BY <2>3 DEF Sleep
    <3> QED BY <2>3, <3>1, OtherLocks
  <2>4. CASE \E u \in Thread : DeleteUnlink(t, u)
    BY <2>4, DeleteLocks
  <2>5. ASSUME NEW m \in WaitList,
               \/ TakeFree(t, m) \/ TakeAgain(t, m)
               \/ TakeRefused(t, m) \/ TakeWait(t, m)
               \/ ReleaseRefused(t, m) \/ ReleaseInner(t, m)
               \/ ReleaseOuter(t, m) \/ SetPrioCeiling(t, m)
               \/ Detach(t, m)
        PROVE  Implements(w)
    <3>1. CASE TakeFree(t, m)
      BY <3>1, TakeFreeLocks
    <3>2. CASE TakeAgain(t, m)
      BY <3>2, TakeAgainLocks
    <3>3. CASE TakeRefused(t, m) \/ ReleaseRefused(t, m) \/ SetPrioCeiling(t, m)
      BY <3>3, RefusedLocks
    <3>4. CASE TakeWait(t, m)
      BY <3>4, TakeWaitLocks
    <3>5. CASE ReleaseInner(t, m)
      BY <3>5, ReleaseInnerLocks
    <3>6. CASE ReleaseOuter(t, m) /\ k.wait[m] = <<>>
      BY <3>6, ReleaseFreeLocks
    <3>7. CASE ReleaseOuter(t, m) /\ k.wait[m] # <<>>
      BY <3>7, ReleaseHandLocks
    <3>8. CASE Detach(t, m)
      BY <3>8, DetachLocks
    <3> QED BY <2>5, <3>1, <3>2, <3>3, <3>4, <3>5, <3>6, <3>7, <3>8
  <2> QED BY <1>2, <2>1, <2>2, <2>3, <2>4, <2>5 DEF ThreadStep
<1>3. CASE UNCHANGED mvars
  <2>1. k' = k /\ mx' = mx /\ pc' = pc /\ mutex' = mutex
    BY <1>3 DEF mvars
  <2>2. Idles(w)
    BY <2>1 DEF Idles, CallOf
  <2> QED BY <2>2, IdlesImplement
<1> QED BY <1>1, <1>2, <1>3 DEF Next

\* Every mutex implements a recursive lock, whatever hand-overs, timeouts,
\* deletions and detaches happen meanwhile: the thread whose rt_mutex_take
\* returns RT_EOK is its owner.
THEOREM Refinement == ~AnySleep => (Spec => IsLock)
<1> SUFFICES ASSUME ~AnySleep PROVE Spec => IsLock
  OBVIOUS
<1>1. ASSUME Init, NEW m \in WaitList PROVE Lock(m)!Init
  <2>1. mx.owner[m] = None /\ mx.hold[m] = 0
    BY <1>1 DEF Init, Free
  <2>2. \A t \in Thread : ~Contains(k.wait[m], t) /\ mutex[t] # m
    <3>1. \A t \in Thread : mutex[t] = None
      BY <1>1 DEF Init
    <3>2. k.wait[m] = <<>>
      BY <1>1 DEF Init, KernelStart
    <3> QED BY <3>1, <3>2, PrioFacts, EmptyFacts
  <2>3. \A t \in Thread : CallOf(m, t) = "none"
    BY <2>2, CallNone
  <2> QED BY <2>1, <2>3 DEF Lock!Init
<1>2. Init => \A m \in WaitList : Lock(m)!Init
  BY <1>1
<1>3. IInv /\ [Next]_mvars
        => [\A m \in WaitList : Lock(m)!Next \/ UNCHANGED Lock(m)!lvars]_mvars
  BY NextLocks DEF Implements
<1> QED BY <1>2, <1>3, Invariance, PTL DEF Spec, IsLock

=============================================================================
