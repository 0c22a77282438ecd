-------------------------------- MODULE MemPool --------------------------------
(***************************************************************************)
(* The memory pools of mempool.c: blocks of one size in a linked list, and *)
(* threads that wait for one. A free block is not handed to a waiter: it   *)
(* is woken, and has to win the block against whoever comes first.         *)
(***************************************************************************)
EXTENDS Waiting

CONSTANT PoolSize       \* mp->block_total_count

ASSUME MemPoolAssumption == PoolSize \in Nat \ {0}

VARIABLES
  list,       \* mp->block_list
  count,      \* mp->block_free_count
  got,        \* what rt_mp_alloc returns to each thread
  before      \* before_sleep

pvars == <<list, count, got, before>>

PoolBlock == 1 .. PoolSize
RT_NULL == 0

PoolPC == {"alloc_sched", "alloc_woken", "alloc_retry", "alloc_return",
           "pool_test", "pool_wake"}

-----------------------------------------------------------------------------
(* rt_mp_alloc: the part with interrupts disabled, at the first try and at *)
(* each one after a wait, with the time that is left.                      *)

\* The locals are dead where the call has nothing to wait for any more.
Finish(t) ==
  /\ left' = [left EXCEPT ![t] = 0]
  /\ before' = [before EXCEPT ![t] = 0]
  /\ Goto(t, "alloc_return")

\* mutant: the block stays on the list
TakeNoUnlink(t) ==
  /\ count > 0
  /\ count' = count - 1 /\ list' = list
  /\ got' = [got EXCEPT ![t] = Head(list)]
  /\ Finish(t)
  /\ UNCHANGED k

Take(t) ==
  /\ count > 0
  /\ count' = count - 1 /\ list' = Tail(list)
  /\ got' = [got EXCEPT ![t] = Head(list)]
  /\ Finish(t)
  /\ UNCHANGED k

NoneLeft(t, time) ==
  /\ count = 0 /\ time = NoWait
  /\ Finish(t)
  /\ UNCHANGED <<k, list, count, got>>

\* The last to come is the first to be woken.
AwaitBlock(t, time) ==
  /\ count = 0 /\ time # NoWait
  /\ k' = AwaitFirst(k, "pool", t, time)
  /\ left' = [left EXCEPT ![t] = time]
  /\ before' = [before EXCEPT ![t] = IF time > 0 THEN k.tick ELSE 0]
  /\ Goto(t, "alloc_sched")
  /\ UNCHANGED <<list, count, got>>

Try(t, time) == Take(t) \/ NoneLeft(t, time) \/ AwaitBlock(t, time)

Alloc(t) ==
  /\ Calls(t, "pool")
  /\ \E time \in Retried[t] : Try(t, time)
  /\ UNCHANGED <<isr, live>>

AllocSchedule(t) ==
  ScheduleIn(t, "alloc_sched", "alloc_woken") /\ UNCHANGED <<wvars, pvars>>

TimeLeft(t) ==
  LET rest == left[t] - TicksFrom(before[t], k.tick) IN
  IF left[t] > 0 THEN (IF rest < 0 THEN 0 ELSE rest) ELSE left[t]

\* rt_tick_get is called before interrupts are disabled again.
AllocWoken(t) ==
  /\ At(t, "alloc_woken")
  /\ IF k.error[t] # "EOK"
     THEN Finish(t)
     ELSE /\ left' = [left EXCEPT ![t] = TimeLeft(t)]
          /\ Goto(t, "alloc_retry")
          /\ UNCHANGED before
  /\ UNCHANGED <<k, isr, live, list, count, got>>

AllocRetry(t) ==
  /\ At(t, "alloc_retry")
  /\ Try(t, left[t])
  /\ UNCHANGED <<isr, live>>

AllocReturn(t) ==
  /\ At(t, "alloc_return")
  /\ got' = [got EXCEPT ![t] = RT_NULL]
  /\ Back(t)
  /\ UNCHANGED <<isr, wvars, list, count, before>>

IsrAlloc ==
  /\ IsrCalls("pool") /\ count > 0
  /\ count' = count - 1 /\ list' = Tail(list)
  /\ UNCHANGED <<k, isr, pc, wvars, got, before>>

-----------------------------------------------------------------------------
(* rt_mp_free, of a block whose allocation has returned *)

\* mutant: only the first free block wakes a thread
WakeIfFirst(s) == IF count = 0 THEN ResumeFirst(s, "pool") ELSE s

WakeForBlock(s) ==
  IF s.wait["pool"] = <<>> THEN s
  ELSE ResumeFirst([s EXCEPT !.error[Head(s.wait["pool"])] = "EOK"], "pool")

Freeable ==
  {b \in PoolBlock : ~Contains(list, b) /\ \A t \in Thread : got[t] # b}

PutBack ==
  /\ count' = count + 1
  /\ \E b \in Freeable : list' = <<b>> \o list
  /\ UNCHANGED <<got, before>>

Free(t) ==
  /\ Calls(t, "pool")
  /\ PutBack
  /\ k' = WakeForBlock(k)
  /\ Goto(t, IF k.wait["pool"] = <<>> THEN "run" ELSE "sched")
  /\ UNCHANGED <<isr, wvars>>

IsrFree ==
  /\ IsrCalls("pool")
  /\ PutBack
  /\ k' = IF k.wait["pool"] = <<>> THEN k ELSE Schedule(WakeForBlock(k))
  /\ UNCHANGED <<isr, pc, wvars>>

-----------------------------------------------------------------------------
(* rt_mp_detach and rt_mp_delete *)

PoolDetach(t) ==
  /\ Calls(t, "pool")
  /\ live' = live \ {"pool"}
  /\ Goto(t, "pool_test")
  /\ UNCHANGED <<k, isr, left, pvars>>

PoolDrain(t) ==
  /\ \/ DrainTest(t, "pool", "pool_test", "pool_wake", "run")
     \/ DrainWake(t, "pool", "pool_test", "pool_wake")
  /\ UNCHANGED <<wvars, pvars>>

-----------------------------------------------------------------------------
PoolStep(t) ==
  \/ Alloc(t) \/ AllocSchedule(t) \/ AllocWoken(t) \/ AllocRetry(t)
  \/ AllocReturn(t) \/ Free(t) \/ PoolDetach(t) \/ PoolDrain(t)

PoolNext == IsrAlloc \/ IsrFree \/ \E t \in Thread : PoolStep(t)

\* rt_mp_init
PoolInit ==
  /\ list = [i \in PoolBlock |-> i]
  /\ count = PoolSize
  /\ got = [t \in Thread |-> RT_NULL]
  /\ before = [t \in Thread |-> 0]

PoolTypeOK ==
  /\ list \in Seq(PoolBlock) /\ IsInjective(list)
  /\ count = Len(list)
  /\ got \in [Thread -> PoolBlock \cup {RT_NULL}]
  /\ before \in [Thread -> Tick]
-----------------------------------------------------------------------------
(* Properties *)

\* Woken for a block, and not yet back at the list of blocks.
AtTheirTry == {"alloc_sched", "alloc_woken", "alloc_retry"}

Used == {b \in PoolBlock : ~Contains(list, b)}

\* Where a thread's rt_mp_alloc is.
AllocCall(t) ==
  IF pc[t] = "alloc_return"
  THEN IF got[t] = RT_NULL THEN [at |-> "refused"]
       ELSE [at |-> "granted", block |-> got[t]]
  ELSE IF pc[t] \notin AtTheirTry THEN [at |-> "none"]
  ELSE IF Failed(t) THEN [at |-> "refused"]
  ELSE [at |-> "waiting"]

Pool == INSTANCE Allocator
        WITH Unit <- PoolBlock, used <- Used,
             call <- [t \in Thread |-> AllocCall(t)]

\* The pool implements the abstract allocator: however threads that are woken
\* for a block, threads and handlers that take it first, timeouts and a
\* detach interleave, a block is handed out once, and a call that finds a
\* block free neither waits nor fails.
IsAllocator == Pool!Spec

\* Nobody sleeps on a free block: there are as many threads on their way to
\* the list of blocks as blocks in it, or nobody waits.
BlocksWakeWaiters ==
  k.wait["pool"] = <<>>
    \/ count <= Cardinality({t \in Thread : OnItsWay(t, "pool", AtTheirTry)})

=============================================================================
