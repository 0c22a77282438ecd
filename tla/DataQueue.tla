------------------------------- MODULE DataQueue -------------------------------
(***************************************************************************)
(* The data queue of drivers/ipc/dataqueue.c: a circular array of items,   *)
(* with threads that wait to push and threads that wait to pop. A woken    *)
(* thread tests the queue again, and waits with its whole timeout again.   *)
(* evt_notify, which the caller may supply, is left out.                   *)
(***************************************************************************)
EXTENDS Waiting

CONSTANTS
  ByThread,   \* what threads push: pointers and sizes
  ByIsr,      \* what handlers push
  Size,       \* queue->size
  Lwm         \* queue->lwm, the low water mark

ASSUME DataQueueAssumption ==
  Size \in Nat \ {0} /\ Lwm \in 0 .. Size - 1

VARIABLES
  q,          \* the queue, see QueueState
  op          \* each thread's request, and what came of it

qvars == <<q, op>>

Item == ByThread \cup ByIsr
NoItem == "no item"       \* a slot that has been popped or never filled

QueueState ==
  [ slot  : [0 .. Size - 1 -> Item \cup {NoItem}],
    put   : 0 .. Size - 1,
    get   : 0 .. Size - 1,
    empty : BOOLEAN,
    full  : BOOLEAN ]

QueuePC == {"queue_wait", "queue_woken", "queue_sched", "queue_return",
            "reset_lock", "pop_test", "pop_wake", "push_test", "push_wake",
            "reset_sched"}

Op(at, x) == [at |-> at, item |-> x]
Idles == Op("none", NoItem)

QueueLen(d) ==
  IF d.empty THEN 0
  ELSE IF d.put > d.get THEN d.put - d.get ELSE Size + d.put - d.get

-----------------------------------------------------------------------------
(* The array *)

\* mutant: a queue that has become full is not marked
EnterUnmarked(d, x) ==
  [d EXCEPT !.slot[d.put] = x, !.put = (d.put + 1) % Size, !.empty = FALSE]

Enter(d, x) ==
  LET put == (d.put + 1) % Size IN
  [d EXCEPT !.slot[d.put] = x, !.put = put, !.empty = FALSE,
            !.full = d.full \/ put = d.get]

Leave(d) ==
  LET get == (d.get + 1) % Size IN
  [d EXCEPT !.slot[d.get] = NoItem, !.get = get, !.full = FALSE,
            !.empty = d.empty \/ d.put = get]

Emptied == [slot |-> [i \in 0 .. Size - 1 |-> NoItem], put |-> 0, get |-> 0,
            empty |-> TRUE, full |-> FALSE]

-----------------------------------------------------------------------------
(* rt_data_queue_push and rt_data_queue_pop: the part with interrupts      *)
(* disabled, at the first try and at each one after a wait.                *)

\* mutant: a writer is woken only by the pop that reaches the mark
WakePusherAtMark(s, d) ==
  IF QueueLen(d) = Lwm THEN ResumeFirst(s, "push") ELSE s

WakePusher(s, d) == IF QueueLen(d) <= Lwm THEN ResumeFirst(s, "push") ELSE s

\* The call has gone through; it schedules if it has woken a thread.
Through(t, done, x, woken) ==
  /\ k' = woken
  /\ op' = [op EXCEPT ![t] = Op(done, x)]
  /\ left' = [left EXCEPT ![t] = 0]
  /\ Goto(t, IF woken = k THEN "queue_return" ELSE "queue_sched")

Refused(t) ==
  /\ op' = [op EXCEPT ![t] = Op("refused", NoItem)]
  /\ left' = [left EXCEPT ![t] = 0]
  /\ Goto(t, "queue_return")
  /\ UNCHANGED <<k, q>>

Await(t, w, doing, x, timeout) ==
  /\ k' = AwaitLast(k, w, t, timeout)
  /\ op' = [op EXCEPT ![t] = Op(doing, x)]
  /\ left' = [left EXCEPT ![t] = timeout]
  /\ Goto(t, "queue_wait")
  /\ UNCHANGED q

TryPush(t, x, timeout) ==
  \/ /\ ~q.full
     /\ q' = Enter(q, x)
     /\ Through(t, "pushed", x, ResumeFirst(k, "pop"))
  \/ q.full /\ timeout = NoWait /\ Refused(t)
  \/ q.full /\ timeout # NoWait /\ Await(t, "push", "pushing", x, timeout)

TryPop(t, timeout) ==
  \/ /\ ~q.empty
     /\ q' = Leave(q)
     /\ Through(t, "popped", q.slot[q.get], WakePusher(k, Leave(q)))
  \/ q.empty /\ timeout = NoWait /\ Refused(t)
  \/ q.empty /\ timeout # NoWait /\ Await(t, "pop", "popping", NoItem, timeout)

Push(t) ==
  /\ Calls(t, "queue")
  /\ \E x \in ByThread, timeout \in Retried[t] : TryPush(t, x, timeout)
  /\ UNCHANGED <<isr, live>>

Pop(t) ==
  /\ Calls(t, "queue")
  /\ \E timeout \in Retried[t] : TryPop(t, timeout)
  /\ UNCHANGED <<isr, live>>

QueueSchedule(t) ==
  /\ \/ ScheduleIn(t, "queue_wait", "queue_woken")
     \/ ScheduleIn(t, "queue_sched", "queue_return")
  /\ UNCHANGED <<wvars, qvars>>

\* thread->error is settled when the thread is woken.
QueueWoken(t) ==
  /\ At(t, "queue_woken")
  /\ IF k.error[t] # "EOK" THEN Refused(t)
     ELSE IF op[t].at = "pushing" THEN TryPush(t, op[t].item, left[t])
     ELSE TryPop(t, left[t])
  /\ UNCHANGED <<isr, live>>

QueueReturn(t) ==
  /\ At(t, "queue_return")
  /\ op' = [op EXCEPT ![t] = Idles]
  /\ Back(t)
  /\ UNCHANGED <<isr, wvars, q>>

\* Handlers push and pop without a timeout.
Scheduled(woken) == IF woken = k THEN k ELSE Schedule(woken)

IsrPush ==
  /\ IsrCalls("queue") /\ ~q.full
  /\ \E x \in ByIsr : q' = Enter(q, x)
  /\ k' = Scheduled(ResumeFirst(k, "pop"))
  /\ UNCHANGED <<isr, pc, wvars, op>>

IsrPop ==
  /\ IsrCalls("queue") /\ ~q.empty
  /\ q' = Leave(q)
  /\ k' = Scheduled(WakePusher(k, Leave(q)))
  /\ UNCHANGED <<isr, pc, wvars, op>>

-----------------------------------------------------------------------------
(* rt_data_queue_reset, and rt_data_queue_deinit: from whose beginning no- *)
(* body calls a function on the queue. The waiters are turned away with    *)
(* the scheduler locked.                                                   *)

ResetStart(t) ==
  /\ Calls(t, "queue")
  /\ q' = Emptied
  /\ live' \in {live, live \ {"queue"}}
  /\ Goto(t, "reset_lock")
  /\ UNCHANGED <<k, isr, left, op>>

ResetLock(t) ==
  /\ At(t, "reset_lock")
  /\ k' = [k EXCEPT !.nest = @ + 1]
  /\ Goto(t, "pop_test")
  /\ UNCHANGED <<isr, wvars, qvars>>

ResetDrain(t) ==
  /\ \/ DrainTest(t, "pop", "pop_test", "pop_wake", "push_test")
     \/ DrainWake(t, "pop", "pop_test", "pop_wake")
     \/ DrainTest(t, "push", "push_test", "push_wake", "reset_sched")
     \/ DrainWake(t, "push", "push_test", "push_wake")
  /\ UNCHANGED <<wvars, qvars>>

\* rt_exit_critical schedules, and then the reset schedules once more.
ResetUnlock(t) ==
  /\ At(t, "reset_sched")
  /\ IF k.nest > 0
     THEN k' = [k EXCEPT !.nest = @ - 1] /\ UNCHANGED pc
     ELSE k' = Schedule(k) /\ Goto(t, "sched")
  /\ UNCHANGED <<isr, wvars, qvars>>

-----------------------------------------------------------------------------
QueueStep(t) ==
  \/ Push(t) \/ Pop(t) \/ QueueSchedule(t) \/ QueueWoken(t) \/ QueueReturn(t)
  \/ ResetStart(t) \/ ResetLock(t) \/ ResetDrain(t) \/ ResetUnlock(t)

QueueNext == IsrPush \/ IsrPop \/ \E t \in Thread : QueueStep(t)

\* rt_data_queue_init
QueueInit == q = Emptied /\ op = [t \in Thread |-> Idles]

QueueTypeOK ==
  /\ q \in QueueState
  /\ op \in [Thread -> [at : {"none", "pushing", "popping", "pushed", "popped",
                              "refused"},
                        item : Item \cup {NoItem}]]
-----------------------------------------------------------------------------
(* Properties *)

Items == [i \in 1 .. QueueLen(q) |-> q.slot[(q.get + i - 1) % Size]]

\* Where a thread's rt_data_queue_push or rt_data_queue_pop is.
DataCall(t) ==
  IF op[t].at \in {"none", "popping", "refused"} THEN [at |-> op[t].at] ELSE op[t]

Queue == INSTANCE BoundedQueue
         WITH queue <- Items, call <- [t \in Thread |-> DataCall(t)]

\* The data queue implements the bounded queue: an item is popped once and in
\* the order of the pushes, however threads and handlers race for the place
\* or the item a waiter has been woken for, and whatever times out or resets.
IsBoundedQueue == Queue!Spec

\* Every item in the queue has woken a reader, and every place at or below the
\* low water mark a writer, or nobody waits: no wake-up is missed. (The code
\* wakes writers with as many items left as the mark says, not only with fewer.)
QueueWakesSuffice ==
  LET len == QueueLen(q)
      coming(w, doing) ==
        Cardinality({t \in Thread :
          /\ OnItsWay(t, w, {"queue_wait", "queue_woken"})
          /\ op[t].at = doing})
  IN  /\ k.wait["pop"] = <<>> \/ len <= coming("pop", "popping")
      /\ \/ k.wait["push"] = <<>> \/ len > Lwm
         \/ Lwm + 1 - len <= coming("push", "pushing")
         \/ \E t \in Thread : pc[t] \in {"reset_lock", "pop_test", "pop_wake",
                                         "push_test", "push_wake"}

=============================================================================
