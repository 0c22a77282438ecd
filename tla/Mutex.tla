--------------------------------- MODULE Mutex ---------------------------------
(***************************************************************************)
(* The mutexes of ipc.c with priority inheritance and priority ceilings,   *)
(* on top of the kernel core. The elements of WaitList are the mutexes.    *)
(* A function that changes priorities takes the kernel record s and the    *)
(* record x of the mutexes to an Outcome, so that functions compose as in  *)
(* C.                                                                      *)
(***************************************************************************)
EXTENDS Ipc

CONSTANTS
  None,        \* RT_NULL for a thread or a mutex
  HoldMax,     \* RT_MUTEX_HOLD_MAX, 255 in the code
  Depth,       \* bound on the calls _thread_update_priority makes of itself
  Timeouts,    \* the timeouts rt_mutex_take is called with
  Users,       \* the sets of mutexes that may be initialised together
  Ceilings,    \* the ceilings rt_mutex_setprioceiling may set
  Full,        \* the mutexes that are taken again, given a ceiling, detached,
               \* and whose waiters are deleted
  Mortal,      \* the threads that may be deleted while they wait
  Sleeper,     \* the threads that also sleep
  Delays,      \* the tick counts they sleep for
  AnySleep,    \* BOOLEAN: a thread sleeps even after a take that timed out
  InitPrio     \* thread->init_priority

ASSUME MutexAssumption ==
  /\ None \notin Thread \cup WaitList
  /\ HoldMax \in Nat \ {0} /\ Depth \in Nat
  /\ Timeouts \subseteq {Forever, NoWait} \cup 1 .. TickHalf - 1
  /\ Delays \subseteq 1 .. TickHalf - 1
  /\ Ceilings \subseteq Prio
  /\ Users \subseteq SUBSET WaitList /\ Full \subseteq WaitList
  /\ Mortal \subseteq Thread \ {Idle} /\ Sleeper \subseteq Thread \ {Idle}
  /\ AnySleep \in BOOLEAN
  /\ InitPrio \in [Thread -> Prio] /\ InitPrio[Idle] = PrioMax - 1

VARIABLES
  mx,       \* the mutexes, see MutexState
  pc,       \* where each thread is
  mutex,    \* the mutex of the rt_mutex_take it is in
  target    \* the thread it is deleting

mvars == <<k, isr, mx, pc, mutex, target>>

PC == {"run", "take_sched", "take_return", "post_sched", "drop", "dead"}

\* 0xff as a priority: behind all others
NoPrio == PrioMax

MutexState ==
  [ owner   : [WaitList -> Thread \cup {None}],
    hold    : [WaitList -> 0 .. HoldMax],
    mprio   : [WaitList -> 0 .. NoPrio],      \* mutex->priority
    ceiling : [WaitList -> 0 .. NoPrio],      \* mutex->ceiling_priority
    linked  : [WaitList -> BOOLEAN],          \* initialised and not detached
    pending : [Thread -> WaitList \cup {None}] ]   \* thread->pending_object

\* next is the owner whose priority is changed next, None at the end.
Outcome(s, x, next) == [k |-> s, mx |-> x, next |-> next]

\* What a step leaves behind. A chain of owners that takes more than Depth
\* calls has no end in the model.
Becomes(o) == o.next = None /\ k' = o.k /\ mx' = o.mx

At(t, c) == Executes(t) /\ pc[t] = c

Goto(t, c) == pc' = [pc EXCEPT ![t] = c]

-----------------------------------------------------------------------------
(* Priorities *)

\* thread->taken_object_list
Taken(x, t) == {m \in WaitList : x.linked[m] /\ x.owner[m] = t}

UpdateMutexPrio(s, x, m) ==
  [x EXCEPT !.mprio[m] = IF s.wait[m] = <<>> THEN NoPrio
                                            ELSE s.prio[Head(s.wait[m])]]

GetMutexPrio(x, t) ==
  Min({InitPrio[t]} \cup {x.mprio[m] : m \in Taken(x, t)}
                    \cup {x.ceiling[m] : m \in Taken(x, t)})

RequeueTwice(s, m, t) == WaitInsert(s, m, t, "PRIO")   \* mutant: not unlinked

Requeue(s, m, t) == WaitInsert(ListRemove(s, t), m, t, "PRIO")

\* One call of _thread_update_priority, up to the one for the owner of the
\* mutex that t waits for. With no owner the code follows a null pointer; the
\* model stops.
UpdateOne(s, x, t, p) ==
  LET changed == SetPriority(s, t, p)
      m       == x.pending[t]
      queued  == Requeue(changed, m, t)
      known   == UpdateMutexPrio(queued, x, m)
      o       == x.owner[m]
  IN  IF s.stat[t] # "SUSPEND" \/ m = None THEN Outcome(changed, x, None)
      ELSE IF o = None \/ GetMutexPrio(known, o) = queued.prio[o]
           THEN Outcome(queued, known, None)
           ELSE Outcome(queued, known, o)

\* mutant: the owner of the mutex the thread waits for is left alone
UpdateThreadPrioOneStep(s, x, t, p) == Outcome(SetPriority(s, t, p), x, None)

\* Along the chain of owners that wait for a mutex themselves.
UpdateThreadPrio(s, x, t, p) ==
  LET calls[n \in 0 .. Depth] ==
        IF n = 0 THEN UpdateOne(s, x, t, p)
        ELSE LET c == calls[n - 1]
             IN  IF c.next = None THEN c
                 ELSE UpdateOne(c.k, c.mx, c.next, GetMutexPrio(c.mx, c.next))
  IN  calls[Depth]

UpdateOwnerPrio(s, x, m) ==
  LET o == x.owner[m]
      p == GetMutexPrio(x, o)
  IN  IF p = s.prio[o] THEN Outcome(s, x, None) ELSE UpdateThreadPrio(s, x, o, p)

\* t has left the wait list of m without getting it.
Leave(s, x, m, t) ==
  LET updated == UpdateMutexPrio(s, x, m)
  IN  IF s.prio[x.owner[m]] = s.prio[t] THEN UpdateOwnerPrio(s, updated, m)
                                        ELSE Outcome(s, updated, None)

-----------------------------------------------------------------------------
(* rt_mutex_take. The idle thread does not block. *)

TakeFree(t, m) ==
  /\ At(t, "run") /\ mx.linked[m]
  /\ mx.owner[m] = None
  /\ LET told  == [k EXCEPT !.error[t] = "EOK"]
         taken == [mx EXCEPT !.owner[m] = t, !.hold[m] = 1, !.mprio[m] = NoPrio]
     IN  Becomes(IF mx.ceiling[m] < k.prio[t]
                 THEN UpdateThreadPrio(told, taken, t, mx.ceiling[m])
                 ELSE Outcome(told, taken, None))
  /\ UNCHANGED <<isr, pc, mutex, target>>

\* mutants: another thread's mutex is taken again; there is no limit
TakeAgainAny(t, m) ==
  /\ At(t, "run") /\ mx.linked[m] /\ m \in Full
  /\ mx.owner[m] # None
  /\ k' = [k EXCEPT !.error[t] = "EOK"]
  /\ mx' = [mx EXCEPT !.hold[m] = IF @ < HoldMax THEN @ + 1 ELSE @]
  /\ UNCHANGED <<isr, pc, mutex, target>>

TakeAgainPastLimit(t, m) ==
  /\ At(t, "run") /\ mx.linked[m] /\ m \in Full
  /\ mx.owner[m] = t
  /\ k' = [k EXCEPT !.error[t] = "EOK"]
  /\ mx' = [mx EXCEPT !.hold[m] = @ + 1]
  /\ UNCHANGED <<isr, pc, mutex, target>>

\* Beyond the limit the take fails with -RT_EFULL.
TakeAgain(t, m) ==
  /\ At(t, "run") /\ mx.linked[m] /\ m \in Full
  /\ mx.owner[m] = t
  /\ k' = [k EXCEPT !.error[t] = "EOK"]
  /\ mx' = [mx EXCEPT !.hold[m] = IF @ < HoldMax THEN @ + 1 ELSE @]
  /\ UNCHANGED <<isr, pc, mutex, target>>

TakeRefused(t, m) ==
  /\ At(t, "run") /\ mx.linked[m]
  /\ mx.owner[m] \notin {None, t} /\ NoWait \in Timeouts
  /\ k' = [k EXCEPT !.error[t] = "ETIMEOUT"]
  /\ UNCHANGED <<isr, mx, pc, mutex, target>>

\* The owner inherits the priority of a waiter ahead of it.
Enqueue(s, x, m, t) ==
  LET p      == s.prio[t]
      waits  == IpcListSuspend([s EXCEPT !.error[t] = "EOK"], m, t, "PRIO")
      known  == [x EXCEPT !.pending[t] = m]
      raised == [known EXCEPT !.mprio[m] = p]
  IN  IF p >= x.mprio[m] THEN Outcome(waits, known, None)
      ELSE IF p < s.prio[x.owner[m]]
           THEN UpdateThreadPrio(waits, raised, x.owner[m], p)
           ELSE Outcome(waits, raised, None)

Armed(o, t, timeout) ==
  IF timeout > 0 THEN [o EXCEPT !.k = TimerStart(o.k, t, timeout)] ELSE o

TakeWait(t, m) ==
  /\ At(t, "run") /\ mx.linked[m] /\ t # Idle
  /\ mx.owner[m] \notin {None, t}
  /\ \E timeout \in Timeouts \ {NoWait} :
       Becomes(Armed(Enqueue(k, mx, m, t), t, timeout))
  /\ Goto(t, "take_sched")
  /\ mutex' = [mutex EXCEPT ![t] = m]
  /\ UNCHANGED <<isr, target>>

TakeSchedule(t) ==
  /\ At(t, "take_sched")
  /\ k' = Schedule(k)
  /\ Goto(t, "take_return")
  /\ UNCHANGED <<isr, mx, mutex, target>>

Return(t) == Goto(t, "run") /\ mutex' = [mutex EXCEPT ![t] = None]

TakeGranted(t) ==
  /\ At(t, "take_return")
  /\ k.error[t] = "EOK"
  /\ Return(t)
  /\ UNCHANGED <<k, isr, mx, target>>

\* Without an owner the code follows a null pointer; the model stops.
TakeFailed(t) ==
  /\ At(t, "take_return")
  /\ k.error[t] # "EOK"
  /\ mx.owner[mutex[t]] # None
  /\ Becomes(Leave(k, mx, mutex[t], t))
  /\ Return(t)
  /\ UNCHANGED <<isr, target>>

-----------------------------------------------------------------------------
(* rt_mutex_release *)

ReleaseRefused(t, m) ==
  /\ At(t, "run") /\ mx.linked[m]
  /\ mx.owner[m] # t
  /\ k' = [k EXCEPT !.error[t] = "ERROR"]
  /\ UNCHANGED <<isr, mx, pc, mutex, target>>

ReleaseInner(t, m) ==
  /\ At(t, "run") /\ mx.linked[m]
  /\ mx.owner[m] = t /\ mx.hold[m] > 1
  /\ mx' = [mx EXCEPT !.hold[m] = @ - 1]
  /\ UNCHANGED <<k, isr, pc, mutex, target>>

\* The first waiter becomes the owner.
Hand(s, x, m) ==
  LET n     == Head(s.wait[m])
      woken == ResumeThread(ListRemove(s, n), n)
      given == [x EXCEPT !.owner[m] = n, !.hold[m] = 1, !.pending[n] = None]
  IN  Outcome(woken, UpdateMutexPrio(woken, given, m), None)

\* The priority of the releasing thread is worked out anew if it may have
\* come from this mutex.
ReleaseOuter(t, m) ==
  /\ At(t, "run") /\ mx.linked[m]
  /\ mx.owner[m] = t /\ mx.hold[m] = 1
  /\ LET free     == [mx EXCEPT !.owner[m] = None, !.hold[m] = 0]
         inherits == mx.ceiling[m] # NoPrio \/ k.prio[t] = mx.mprio[m]
         restored == IF inherits THEN SetPriority(k, t, GetMutexPrio(free, t))
                                 ELSE k
     IN  IF k.wait[m] # <<>>
         THEN Becomes(Hand(restored, free, m)) /\ Goto(t, "post_sched")
         ELSE /\ Becomes(Outcome(restored, [free EXCEPT !.mprio[m] = NoPrio], None))
              /\ IF inherits THEN Goto(t, "post_sched") ELSE UNCHANGED pc
  /\ UNCHANGED <<isr, mutex, target>>

-----------------------------------------------------------------------------
(* rt_mutex_setprioceiling, rt_mutex_detach: neither calls rt_schedule.    *)

SetPrioCeiling(t, m) ==
  /\ At(t, "run") /\ mx.linked[m] /\ m \in Full
  /\ \E c \in Ceilings :
       LET set == [mx EXCEPT !.ceiling[m] = c]
       IN  Becomes(IF mx.owner[m] = None THEN Outcome(k, set, None)
                                         ELSE UpdateOwnerPrio(k, set, m))
  /\ UNCHANGED <<isr, pc, mutex, target>>

\* mutex->owner stays what it was: the threads it wakes read it.
Detach(t, m) ==
  /\ At(t, "run") /\ mx.linked[m] /\ m \in Full
  /\ k' = IpcListResumeAll(k, m)
  /\ mx' = [mx EXCEPT !.linked[m] = FALSE]
  /\ UNCHANGED <<isr, pc, mutex, target>>

-----------------------------------------------------------------------------
(* What else threads do: sleep (in one step, without thread->error, which  *)
(* rt_mutex_take resets), and delete a thread that waits for a mutex       *)
(* without a timeout and has none (rt_thread_delete, rt_mutex_drop_thread).*)

Sleep(t) ==
  /\ At(t, "run") /\ t \in Sleeper
  /\ AnySleep \/ mx.pending[t] = None
  /\ \E d \in Delays : k' = TimerStart(SuspendThread(k, t), t, d)
  /\ Goto(t, "post_sched")
  /\ UNCHANGED <<isr, mx, mutex, target>>

DeleteUnlink(t, u) ==
  /\ At(t, "run")
  /\ u \in Mortal \ {t}
  /\ mx.pending[u] \in Full /\ Contains(k.wait[mx.pending[u]], u)
  /\ ~Contains(k.timers, u) /\ \A m \in WaitList : mx.owner[m] # u
  /\ k' = RemoveThread(k, u)
  /\ pc' = [pc EXCEPT ![t] = "drop", ![u] = "dead"]
  /\ target' = [target EXCEPT ![t] = u]
  /\ UNCHANGED <<isr, mx, mutex>>

DropThread(t) ==
  LET u      == target[t]
      m      == mx.pending[u]
      closed == TimerStop([k EXCEPT !.stat[u] = "CLOSE"], u)
      left   == Leave(ListRemove(closed, u), mx, m, u)
  IN
  /\ At(t, "drop")
  /\ mx.owner[m] # None
  /\ Becomes([left EXCEPT !.mx.pending[u] = None, !.k.defunct = <<u>> \o @])
  /\ Goto(t, "run")
  /\ target' = [target EXCEPT ![t] = t]
  /\ UNCHANGED <<isr, mutex>>

CallSchedule(t) ==
  /\ At(t, "post_sched")
  /\ k' = Schedule(k)
  /\ Goto(t, "run")
  /\ UNCHANGED <<isr, mx, mutex, target>>

Interrupt == TickStep /\ UNCHANGED <<mx, pc, mutex, target>>

-----------------------------------------------------------------------------
ThreadStep(t) ==
  \/ TakeSchedule(t) \/ TakeGranted(t) \/ TakeFailed(t)
  \/ Sleep(t) \/ DropThread(t) \/ CallSchedule(t)
  \/ \E u \in Thread : DeleteUnlink(t, u)
  \/ \E m \in WaitList : \/ TakeFree(t, m) \/ TakeAgain(t, m)
                         \/ TakeRefused(t, m) \/ TakeWait(t, m)
                         \/ ReleaseRefused(t, m) \/ ReleaseInner(t, m)
                         \/ ReleaseOuter(t, m) \/ SetPrioCeiling(t, m)
                         \/ Detach(t, m)

Free(live) ==
        [ owner   |-> [m \in WaitList |-> None],
          hold    |-> [m \in WaitList |-> 0],
          mprio   |-> [m \in WaitList |-> NoPrio],
          ceiling |-> [m \in WaitList |-> NoPrio],
          linked  |-> [m \in WaitList |-> m \in live],
          pending |-> [t \in Thread |-> None] ]

Init ==
  /\ \E cur \in Thread, live \in Users :
       /\ \A t \in Thread : InitPrio[cur] <= InitPrio[t]
       /\ k = KernelStart(Thread, cur, InitPrio)
       /\ mx = Free(live)
  /\ isr = "none"
  /\ pc = [t \in Thread |-> "run"]
  /\ mutex = [t \in Thread |-> None]
  /\ target = [t \in Thread |-> t]

Next == Interrupt \/ \E t \in Thread : ThreadStep(t)

Spec == Init /\ [][Next]_mvars
-----------------------------------------------------------------------------
(* Properties *)

\* The kernel fields, the mutex fields and the program counters have their
\* types.
TypeOK ==
  /\ k \in KernelState
  /\ mx \in MutexState
  /\ isr \in {"none", "tick"}
  /\ pc \in [Thread -> PC]
  /\ mutex \in [Thread -> WaitList \cup {None}]
  /\ target \in [Thread -> Thread]

\* No priority inversion: along every chain of owners and waiters, through
\* hand-overs, timeouts, deletions and ceilings, the owner of a mutex is not
\* behind any thread that waits for it.
NoInversion ==
  \A m \in WaitList, t \in Thread :
    Contains(k.wait[m], t) =>
      mx.owner[m] # None /\ k.prio[mx.owner[m]] <= k.prio[t]

\* The mutex goes to the foremost waiter: the list is in the order of the
\* priorities the waiters have now, inherited while they waited or not.
QueuedByPriority ==
  \A m \in WaitList : \A i, j \in DOMAIN k.wait[m] :
     i < j => k.prio[k.wait[m][i]] <= k.prio[k.wait[m][j]]

\* A thread is on the wait list of a mutex exactly while it is suspended in
\* rt_mutex_take of this mutex; changing its priority moves it on this list
\* and on no other.
OnlyTakersWait ==
  \A m \in WaitList, t \in Thread :
    Contains(k.wait[m], t) =>
      /\ mutex[t] = m /\ pc[t] \in {"take_sched", "take_return"}
      /\ mx.pending[t] = m /\ k.stat[t] = "SUSPEND"
      /\ IsInjective(k.wait[m])

\* What the caller of rt_mutex_take(m) sees (RecursiveLock).
CallOf(m, t) ==
  IF Contains(k.wait[m], t) THEN "waiting"
  ELSE IF mutex[t] # m THEN "none"
  ELSE IF pc[t] # "dead" /\ k.error[t] = "EOK" THEN "granted"
  ELSE "refused"

Lock(m) == INSTANCE RecursiveLock
             WITH owner <- mx.owner[m], depth <- mx.hold[m],
                  call <- [t \in Thread |-> CallOf(m, t)]

\* Every mutex implements a recursive lock: the thread whose take returns
\* RT_EOK is the owner until it has released as often, whatever timeouts,
\* deletions and detaches happen meanwhile.
IsLock ==
  /\ \A m \in WaitList : Lock(m)!Init
  /\ [][\A m \in WaitList : Lock(m)!Next \/ UNCHANGED Lock(m)!lvars]_mvars

\* "should change the priority of mutex owner thread" (ipc.c,
\* _rt_mutex_take): a take that failed finds an owner whose priority to read.
FailedTakeFindsOwner ==
  \A t \in Thread :
    (At(t, "take_return") /\ k.error[t] # "EOK") => mx.owner[mutex[t]] # None

=============================================================================
