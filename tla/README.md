# Verification of the LPC824Lite firmware

TLA+ models, TLC runs and TLAPS proofs for the firmware of the LPC824Lite board
(Cortex-M0+, one core). The repository holds two programs: a bare-metal infrared
receiver (`src/bare_metal`) and an RT-Thread 5.0.1 system (`src/os_rtt`). The core
logic worth verifying is the kernel of the latter, as it is configured here
(`src/os_rtt/bsp/rtconfig.h`): eight priorities, 100 ticks a second, hard timers,
semaphores, mutexes, events, memory pools, the small memory heap; no SMP, no mailboxes
and message queues, no signals, no soft timers. `RT_ASSERT` and the kernel hooks
compile to nothing.

Paths below are relative to `src/os_rtt/src/` unless they say otherwise.

## The system

| Part | State | Operations | What is hard about it |
|---|---|---|---|
| Scheduler (`scheduler_up.c`) | ready queue per priority, bitmap, current thread, lock nesting | `rt_schedule`, insert, remove, `rt_enter_critical`, `rt_exit_critical` | the bitmap, the queues and the thread states change in different functions; interrupts come between them; a switch asked for by a handler happens when it returns |
| Threads (`thread.c`, `idle.c`) | state, priority, slice, yield mark, error, thread timer, one list node shared by ready queue, wait list and defunct list | create, startup, yield, sleep, suspend, resume, control, exit, delete; reaping by idle | each function is a few regions with interrupts disabled; the tick may fire, and other threads run, between them |
| Tick (`clock.c`) | 32-bit counter | `rt_tick_increase` | wraparound; slice end and timeouts in one handler |
| Timers (`timer.c`) | sorted list, flags | start, stop, detach, control, `rt_timer_check` | a timer's function may do anything to any timer while the check walks the list |
| Semaphores, mutexes, events (`ipc.c`) | value, owner, hold count, inherited priority, wait list | init, take, trytake, release, reset, detach, delete | a waiter returns because of a release, a timeout or a detach, and these race; priority inheritance along chains of owners |
| Memory pool (`mempool.c`) | free list, wait list | alloc, free, detach | a woken waiter may find the block gone, and waits again with the rest of its time |
| Heap (`mem.c`, `kservice.c`) | chain of blocks, lowest free block, bytes used | malloc, realloc, free | which holes meet depends on long sequences of calls |
| Device IPC (`components/drivers/ipc`) | rings, queues, wait queues | completion, data queue, ring buffer, work queue | lost wake-ups; tests made before interrupts are disabled; mirror bits |
| UART, PWM (`bsp/drivers`) | receive ring, command line; six channels on one counter | receive interrupt, console, set | the receive interrupt calls a function that suspends a thread |
| IR receiver (`src/bare_metal/ir_recv.c`, `main.c`) | decoder state, one-code mailbox | pin interrupt, main loop | interrupt between any two statements of main; noise before a frame |

Everything runs on one core. Threads call kernel functions; these protect their regions
by disabling interrupts and ask for a switch with `rt_schedule`. SysTick calls
`rt_tick_increase`, which moves the counter, takes a tick from the slice of the running
thread and calls the functions of expired timers; the function of a thread timer
(`rt_thread_timeout`) puts its thread back into the ready queue and off any wait list.
IPC objects are built from the same three moves: suspend the caller on a wait list, arm
its timer, call `rt_schedule`; and for the waker: take the first waiter off, resume it,
call `rt_schedule`. The heap is guarded by a mutex, so its calls exclude each other.

`PROJECT.json` lists every component with its status and every hazard at its line.

## The modules

| Module | Models | Extends |
|---|---|---|
| `TimerList` | the list and the comparisons of `timer.c` modulo the counter width | |
| `Kernel` | `scheduler_up.c`, `_thread_sleep`/suspend/resume/timeout building blocks of `thread.c`, `rt_tick_increase` | `TimerList` |
| `Threads` | the thread API, scheduler lock, the reaper of `idle.c` | `Kernel` |
| `Ipc` | `_ipc_list_suspend`, `_ipc_list_resume` and `_all`, blocking and waking | `Kernel` |
| `Semaphore` | `rt_sem_*` for threads and interrupt handlers | `Ipc` |
| `CountingSemaphore` | abstract: what a semaphore promises | |
| `Mutex` | `rt_mutex_*` with priority inheritance, ceiling, timeouts, deletion of waiters | `Ipc` |
| `RecursiveLock` | abstract: what a mutex promises | |
| `Waiting` | what the services below share: who may call, waiting in and out of `ipc.c`, turning all waiters away | `Threads`, `Ipc` |
| `Event` | `rt_event_*` | `Waiting` |
| `EventGroup` | abstract: what an event promises | |
| `MemPool` | `rt_mp_*` | `Waiting` |
| `Allocator` | abstract: what a pool promises | |
| `DataQueue` | `rt_data_queue_*` | `Waiting` |
| `BoundedQueue` | abstract: what a data queue promises | |
| `Completion` | `rt_completion_*` | `Waiting` |
| `Signal` | abstract: what a completion promises | |
| `RingBuffer` | `rt_ringbuffer_*` as functions, and the queue they are measured by | |
| `Usart` | receive interrupt, command line, delay before a power mode, `rt_uart_read` | `Waiting`, `RingBuffer` |
| `Periodic` | `rt_thread_delay_until` | `Waiting` |
| `Services` | the six above that have state, composed with the scheduler and the tick | all of them |
| `Timers` | the timer API and `rt_timer_check` with functions that call the API | `TimerList` |
| `Alarms` | abstract: alarms that count down, without list or tick counter | |
| `SmallMem` | `rt_smem_alloc`, `realloc`, `free`, `plug_holes` | |
| `IrReceiver` | pin interrupt, decoder and main loop of the bare-metal program | |
| `MCThreads`, `MCSemaphore`, `MCMutex`, `MCTimers`, `MCServices` | values for TLC | the module named |
| `Sequences_proofs` | lemmas on sequences and folds | `TLAPS` |
| `Kernel_proofs` | lemmas on the operators of `Kernel` and `Ipc` | `Ipc` |
| `Threads_proofs`, `Semaphore_proofs`, `Mutex_proofs`, `Timers_proofs`, `Services_proofs` | theorems | the module named |
| `Standalone_proofs` | theorems on the two programs without a kernel | `SmallMem`, `IrReceiver` |

**Kernel state.** `k` is one record of what the kernel keeps: `ready`, `group` (the bitmap),
`wait`, `defunct`, `cur`, `nest` (scheduler lock), and per thread `stat`, `yield`, `prio`,
`slice`, `error`; `tick`, `timers`, `timeout`. A region with interrupts disabled is one
operator from record to record, named after its C function (`Schedule`, `InsertThread`,
`RemoveThread`, `SuspendThread`, `ResumeThread`, `ThreadTimeout`, `TickIncrease`), and one
step of an action. `isr` says whether the tick handler runs; it is between `TickEnter` and
`TickExit` that `rt_schedule` picks a thread without switching to it.

**Control.** Every thread has a program counter. At `"run"` it is in its own code and may
call any function; every other value is a point inside a kernel function where
interrupts are enabled. A thread takes a step only while it executes: it is the current
one and no handler runs. So every interleaving of threads and the tick that one core
can produce is a behaviour, and no other is.

**Wait lists.** `WaitList` is a constant: one list in `Semaphore`, one per mutex in
`Mutex`, so that the same kernel serves each.

**Services.** Each service is a module with its own variables on top of `Waiting`; `Services`
takes a disjunct of its next-state relation from each and leaves the variables of the others
unchanged. Which services an application uses is fixed in the initial state (`live`, one of
`Lives`); a detach takes a service out of `live`, after which nobody calls it, while those
inside find their way out. Locals of a call that live across a wait (`left`, `before`, `op`, `info`)
are variables per thread, reset where they are dead. A handler that calls a service is one step.

| C | TLA+ |
|---|---|
| `event->set`; `thread->event_set`, `event_info` | `set`; `info` |
| loop over the waiters in `rt_event_send` | `Sent`, a fold of `Visit` over the wait list |
| `mp->block_list`, `block_free_count`; `before_sleep`, `time` | `list`, `count`; `before`, `left` |
| the `while` loops of `rt_mp_alloc`, push and pop | `Try`, `TryPush`, `TryPop` at the call and again when woken |
| `queue->put_index`, `get_index`, `is_full`, `is_empty` | fields of `q`; popped slots are cleared, so that states differ by what is queued |
| `completion->flag` | `flag` |
| `uart->rx_rb`; `uart_cmd_buffer`, `uart_cmd_pos` | `rx`; `line`, over four kinds of characters |
| `*tick` of `rt_thread_delay_until` | `lastWake` |

**Mutexes.** The record `mx` has the fields of the mutexes (`owner`, `hold`, `mprio`, `ceiling`,
`linked`) and `pending` of the threads. A thread's taken list is the set of the mutexes it
owns. A function that changes priorities is an operator from the two records `k` and `mx` to an
`Outcome`: both records, and the owner whose priority is to be changed next, `None` at the end.
`UpdateOne` is one call of `_thread_update_priority`; the call it makes of itself for the owner of
the mutex its thread waits for is its last statement, so the chain is a function over the number
of such calls (`UpdateThreadPrio`, up to `Depth` of them; `Becomes` lets a step happen only if the chain
has ended by then).

**Heap.** A block is the offset of its header. The walk of `rt_smem_alloc` over the chain takes
the lowest fitting block, because the chain is in the order of addresses (`ChainTiles`).

**IR receiver.** A code is a word of bits, as the decoder shifts them in. The signal is arbitrary noise, in which a remote sends whole frames after a
silence. A pending edge waits in the latches; a second one before the handler runs merges
with it, as in the hardware.

## The runs

Distinct states and time are for two workers.

| Run | States | What it asks |
|---|---|---|
| `Threads` | 1,672,160, 36 s | do lists, bitmap, timers and running thread agree whatever threads do to each other under the tick? |
| `Threads_yield_order` | violation | see finding 1 |
| `Threads_delete_race` | violation | see finding 2 |
| `Semaphore` | 235,835, 42 s | is it a counting semaphore, is nobody left waiting, does a timed take return? |
| `Mutex` | 893,315, 75 s | with one mutex, or two and owners that wait: is each a recursive lock, with its waiters in order, without inversion, under timeouts, ceiling, detach and deletion? |
| `Mutex_stale_pending` | violation | see finding 3 |
| `Mutex_owner_gone` | violation | see finding 4 |
| `Services` | 242,508, 65 s | is an event an event group, a pool an allocator, a data queue a bounded queue, a completion a signal, the receive ring a queue of bytes; is every wake-up made, does a periodic thread keep its rhythm, does a timed call return? |
| `Usart_sleep` | violation | see finding 5 |
| `Timers` | 119,160, 17 s | do timers go off exactly when due, across the wraparound? |
| `SmallMem` | 85,176, 15 s | does every sequence of calls keep chain, holes, search start, accounting and user blocks in agreement? |
| `IrReceiver` | 96,228, 5 s | is a whole frame decoded after any noise, and is no code lost between interrupt and main loop? |

### What the properties say

- `NodeWhereStateSays` (Threads): the one list node of a thread is in the queue, wait list
  or defunct list its state names and nowhere else, also between two regions of a function.
- `BitmapMatchesQueues`: what `rt_schedule` finds through the bitmap is what the queues hold.
- `HighestPriorityRuns`: a thread runs its own code in front of a ready thread of higher priority
  only where `rt_thread_resume` or a priority change has left it so. Neither calls `rt_schedule`
  (`thread.c:1082`, `898`): the caller goes on until it, or the tick, does. `stale` is the history
  variable this is said with: the threads resumed or given another priority since `rt_schedule` last
  looked at the queues; no action reads it.
- `NoTimerOverdue`: across the wraparound no thread timer is stranded.
- `IsCountingSemaphore`: a unit is counted or goes to exactly one caller; a caller that timed
  out has none, and nobody returns without a cause. `NoWaitWhileFree` and `TimersOnlyForWaiters`
  are the pieces of the concrete state it rests on.
- `QueuedByPriority` (Mutex): the first waiter is the foremost one, whatever priorities are
  inherited. (A semaphore does not move a waiter whose priority changes, see the observations.)
- `TakeReturns`: the timed take of the foremost thread ends.
- `IsLock`: one owner, who alone releases, and whose `rt_mutex_take` alone returned `RT_EOK`.
- `NoInversion`: an owner is never behind a thread that waits for it, along chains.
- `OnlyTakersWait`: a boosted waiter moves on its own list only (holds while threads do not
  sleep after a failed take; finding 3 is what happens when they do).
- `IsEventGroup`: a send gives every waiter it satisfies its flags, two that clear never the
  same one, leaves nobody waiting for flags that are there, and loses none.
- `IsAllocator`, `BlocksWakeWaiters`: a block has one holder; a call that finds one free neither
  waits nor fails; and since a free block is not handed over, as many threads are on their way to
  the list as there are blocks, or nobody waits.
- `IsBoundedQueue`, `QueueWakesSuffice`: items leave once and in order through retries, resets and
  a detach; every item has woken a reader and every place at or below the low water mark a writer.
- `IsCompletion`: a wait succeeds with a signal given since the last, and none waits past one. A wait
  that times out may take a late signal with it (the abstract `Return` says so).
- `RingIsByteQueue`: in every state that receiving and reading lead to, each function
  does to the bytes what it does to a queue, for every length up to one more than the size.
- `WakesOnTick`: `rt_thread_delay_until` wakes its thread at a whole number of periods.
- `TimedCallReturns`: the foremost thread comes back from a sleep, and from a timed wait for an
  event or a completion.
- `InOrderOfExpiry`, `ActiveIsLinked`, `IsCountdown` (Timers): order modulo the width of the
  counter, the state users read, and the refinement of `Alarms`.
- `ChainTiles`, `NoTwoHoles`, `LfreeIsLowest`, `UsedIsAccounted`, `HeldHasRoom`,
  `FindsEveryFit` (SmallMem): the agreement of chain, holes, search, accounting and users.
- `DecodesFrames`, `TakesNewest`, `PrintsCodes` (IrReceiver): a frame behind a silence is
  decoded, main takes the newest code, and a code that becomes ready just before `__WFI` is
  still printed.

### Bounds

- Three threads, idle included: two that compete and one that always can run. Every property
  relates at most two threads and the running one. `Threads_yield_order` has four, to have
  peers of equal priority.
- Three priorities: idle's, and two, so that a thread may be in front of, behind or level
  with another.
- `TickMod`, the counter's range (2^32 in the code), is 5, 7 or 9. Delays stay below half of
  it as `rt_timer_start` demands; every run wraps around many times. Zero never is a special
  value of the counter, so a small range meets every case a large one does.
- `MaxNest` 1 in `Threads`: a second level of `rt_enter_critical` only counts.
- `MaxValue` 1 (65535 in the code) and `HoldMax` 2: the limit, and the value before it, are reached.
- `Mutex` starts with one mutex, or with two whose owners may wait for each other's. Ceiling
  and detach are of the single mutex (`Full`). It allows no sleep after a failed take (`AnySleep = FALSE`,
  finding 3), and sleeps of one thread only. `Depth` 4 is enough: the run has the same states with 6 and 8.
- `Services`: `TickMod` 7 and `Delays` {2} give delays that wrap; a pool of two blocks, so that two may be
  freed before a woken thread gets there; a queue of two items with the mark between them; two flags, requests
  for all, any that clear, and one that does not; `RbSize` 4, so that mirror bits and
  both indices take all their values, and puts of up to 5 bytes; `LineMax` 1 (63), a full line. One
  service at a time: they share nothing but the kernel. In a pool and a queue (`Retried`)
  the foremost thread waits for ever or not at all and the other with a timeout: a thread in
  front that never times out against one behind that does.
- `HeapSize` 152 with headers of 16 bytes and the least block of 16: room for five small ones, so a
  block may have a hole, a used block or an end on either side. `Sizes` has the smallest block, one
  that aligns to itself, one that does not, and one larger than the heap.
- `Bits` 2 (32 in the code): a first and a last bit. The same run with 3 bits passes as well
  (889,032 states). `Intervals` has one value for each class of mark and space and one
  beyond the frame timeout; in the wrong state each is noise.

No run uses a state constraint. Only `Timers` uses symmetry (of its timers), and it has no
liveness property.

### Fairness

- `WF(TickGoesOn)`: SysTick keeps coming, and its handler returns. It is a hardware timer.
- `SF(GetsOn(t))` for each thread: a thread that has the processor again and again gets
  on with the kernel function it is in. Strong, because other threads and the tick take
  the processor away in between. Nothing is assumed of a thread's own code: at `"run"` it may
  compute for ever. For this reason the liveness properties are about threads ahead of
  all others; threads of lower priority have no promise.
- `Semaphore` and `Services` state these two. In the latter the interrupt that ends a power mode counts
  as coming, which no property uses.
- `IrReceiver`: weak fairness of SysTick (100 Hz) and of main, which interrupts leave time to run.

## The proofs

All constants are arbitrary: any set of threads, any number of priorities, any width of the
counter, any slices, delays, sizes and limits. An invariant is proved from one that is inductive
(`Invariance` of each module: it holds initially and each action keeps it, one lemma per
action); a refinement from the same lemmas, which show each step to be one of the abstract
specification or to leave its variables alone.

| Module | Theorems, with the property of the runs each states | Hypothesis |
|---|---|---|
| `Threads_proofs` | `TypeCorrect` (`TypeOK`), `NodesWhereStatesSay` (`NodeWhereStateSays`), `BitmapAgrees` (`BitmapMatchesQueues`), `NothingOverdue` (`NoTimerOverdue`), `HighestRuns` (`HighestPriorityRuns`) | `Raced = {}` |
| `Semaphore_proofs` | `TypeCorrect`, `NobodyWaitsWhileFree` (`NoWaitWhileFree`), `NoLateTimeout` (`TimersOnlyForWaiters`), `Refinement` (`IsCountingSemaphore`) | |
| `Mutex_proofs` | `TypeCorrect`, `ListsInOrder` (`QueuedByPriority`), `NoInversionEver` (`NoInversion`), `OnlyTakersWaitEver` (`OnlyTakersWait`), `Refinement` (`IsLock`) | `~AnySleep` |
| `Timers_proofs` | `TypeCorrect`, `InOrder` (`InOrderOfExpiry`), `Refinement` (`IsCountdown`); `FlagTellsRunning` (`ActiveIsLinked`) | the last: `OwnOneShot = FALSE` |
| `Standalone_proofs` | of `SmallMem`: `TypeCorrect`, `Tiles` (`ChainTiles`), `HolesArePlugged` (`NoTwoHoles`), `SearchStartsLowest` (`LfreeIsLowest`), `Accounted` (`UsedIsAccounted`), `UsersHaveRoom` (`HeldHasRoom`), `SeesEveryFit` (`FindsEveryFit`) | |
| | of `IrReceiver`: `IrTypeCorrect` (`IrTypeOK`), `FramesDecoded` (`DecodesFrames`), `NewestTaken` (`TakesNewest`) | |
| `Services_proofs` | `ActsAsQueueHolds` (each function of `ringbuffer.c` acts on a valid buffer as on a queue), `ByteQueue` (`RingIsByteQueue`) | |
| | `TypeCorrect` (`ServicesTypeOK`), `NobodySleepsOnABlock` (`BlocksWakeWaiters`), `NoWakeUpMissed` (`QueueWakesSuffice`), `EventRefines` (`IsEventGroup`), `PoolRefines` (`IsAllocator`), `QueueRefines` (`IsBoundedQueue`), `CompletionRefines` (`IsCompletion`), `WakesInTime` (`WakesOnTick`) | `UartAlone` |

**Assumptions.** The named `ASSUME`s of the modules say what the constants are: idle is a thread
with the lowest priority, `PrioMax` a positive number, delays below half the counter, sizes
positive. TLC evaluates them on every run. The hypotheses in the table say what is
assumed of the callers:

- `Raced = {}`: callers neither resume nor delete a thread whose timer runs, or that another one
  is resuming or deleting. The code does not guard against that; finding 2 is what happens otherwise.
  Run `Threads` has this value.
- `~AnySleep`: no thread sleeps with a mutex left in its `pending_object` by a take that timed out.
  The code does not clear it, and finding 3 (`AnySleep = TRUE`) is what happens otherwise. Run `Mutex` has
  the value `FALSE`.
- `OwnOneShot = FALSE`: no timer's function makes its own timer one-shot (see the observations).
- `UartAlone`, `\A l \in Lives : "usart" \in l => l = {"usart"}`: in an application that may receive
  power mode commands, no thread waits for another service. The command is executed in the receive
  interrupt and suspends whatever thread the interrupt has hit (finding 5), in the middle of a kernel
  function as well; nothing can be said of the services then. The other services may all be used
  together, which goes beyond the run: it has one at a time.

**Threads.** `NodeWhereStateSays` is not inductive: that a thread is in no queue says
nothing about what `rt_schedule` will do with it. `IInv` adds what the functions rely on:

- `Sound(k, T)`: every list, the bitmap and the timers hold exactly the threads whose state
  says so, but for those in `T`, which are in transit (unlinked by a function that has not
  yet inserted them). Each kernel operator has one lemma that says how it changes `T`
  (`Kernel_proofs`); `Schedule` and `TickIncrease` leave it alone.
- `CurrentSound`, `CurrentRuns`, `IdleCanRun`: the current thread is not linked; it runs unless
  it is about to call `rt_schedule`; idle is always ready or running, so the bitmap `rt_schedule`
  searches is not empty.
- `OneClaim`, `ClaimedIsStill`, `ResumedIsSuspended`, `ClaimantLives`, `DeletedIsNotDeleting`:
  between the two regions of `rt_thread_resume` and `rt_thread_delete` the target belongs to
  one caller and keeps still.
- `ControlOK`: the types of the program counters.

`NothingOverdue` adds `InTime` (the timers are in the order of the time left, less than half the
range of the counter and, outside of the handler, more than none), `HighestRuns` adds `Foremost`: unless
the current thread owes a call of `rt_schedule` or the scheduler is locked, the ready threads ahead of it
are `stale`, or it is itself (`AheadBut`). The step that readies a thread makes it stale (`rt_thread_resume`,
the priority change), owes a call (all others), or is the tick, which calls `rt_schedule` in the
handler; `AheadOfAll` says that `Schedule` leaves nobody ahead.

**Semaphore.** To the kernel part `IInv` adds `SuspendedWaits` (who is suspended is on the list
of the semaphore, at a point of `rt_sem_take` behind the suspension) and `Answered` (who is off
the list has the error that says why). With these the waker and the timeout exclude each
other: whoever is first unlinks the thread and stops its timer in one region.

**Mutex.** The properties are not inductive: in the middle of a chain of owners the one whose turn
is next is behind its waiters, and what is true of the others has to be said for it. `LoopOK(s, x, next, T, D)`
is what holds of both records between any two calls of the chain:

- the kernel part, `Sound` and `CurrentSound`, as for the threads;
- `Mutexes`: who is on a list has this mutex as `pending` and the mutex has an owner (`Queued`); each list is
  in the order of the present priorities (`Ordered`); `mutex->priority` is not behind a waiter (`Known`);
  an owner other than `next` is not behind `mutex->priority` (`Inherits`);
- `Asleep`: who is suspended and has a `pending` mutex is on its list, so raising its priority moves it there.
  The threads `D`, which are being deleted, are excepted and own nothing. `~AnySleep` is needed here, and only here.

`UpdateOneOK` proves that one call takes `LoopOK` to `LoopOK` with the next owner excepted, and
`UpdateThreadPrioOK` that so does the chain, by induction over the number of calls; with `next = None` at the end,
nobody is excepted. That a chain ends is not proved: a step whose chain needs more than `Depth` calls is left out.
The theorems hold for every `Depth`. `IInv` adds the control of `rt_mutex_take`:
`ThreadOK` (a waiter is in a take of this mutex and has been told nothing; who has been told
`RT_EOK` is the owner), `DeadStay` and `HeldIfOwned`. The order of a wait list survives the kernel's operators
because these only take threads off it (`KeepsOrder` and the lemmas behind it). For the refinement each action is classed by what it
does to the other threads (`Steady`, `Goes`, `Wakes`), which says for every mutex what a caller sees.

**Timers.** `ListSound` says that the times left, modulo the width of the counter, do not fall along the
list and stay below half of it. Inserting, removing and a tick keep that around the
wraparound, and the time left is the number the abstract alarm counts down.

**Heap.** `HeapOK` is the agreement of chain, holes, `lfree` and `used`. Each call is split into what
it does to the chain (split a block, merge it with the next, mark it), with one lemma for each;
the sum of the used blocks is the one before and the difference.

**Ring buffer.** `Holds(rb, n)` relates the mirror bits to the number of bytes: equal bits, the
write index is `n` ahead; different ones, it has wrapped once. Each function is measured by
the bytes from the read index on.

**IR receiver.** `InStep` says what undisturbed means: while a frame comes, some edge `n` of it is the
last one, the rest is still to come, and either this edge is pending with its latch alone
and the interval before it, or the decoder is where edge `n` puts it (`Served`), with as many bits
of the code as have come.

**Services.** `SInv` has the kernel part (`KInv`), the types (`Typed`) and, without the UART, what
each service keeps to: `EventKept`, `PoolKept`, `QueueKept`, `CompletionKept`. `Released(r, s, X, e)` is
what every step but the beginning of a wait does to the kernel: it takes the threads `X` off
their lists, tells them `e`, and leaves everybody else's wait alone. `Schedule`, the tick, resuming
one waiter or all, and the loop of `rt_event_send` each have one lemma in this form, so that the
lemma of an action speaks of its service only. `PoolKept` and `QueueKept` count: a woken thread that
goes to sleep again leaves as many behind as there are blocks or items. A step of one
service leaves the points of the others alone (`Foot`), which is how the invariants compose.

For `rt_thread_delay_until` `WakeInv` adds that the list of timers is in order with none overdue
(`InTime`) and that the timer of a thread in that call is set to its `lastWake`
(`SetToLastWake`). `Released` says nothing of timers; `Spares(r, s, X)` does: each function of the kernel
touches only the timers of its own thread (`X`) and of threads on a wait list, and a thread in
`rt_thread_delay_until` is on none (`SparedLeaves`). So only the tick handler takes its timer away, and
since it takes timers that are due and none is overdue, it does so at the tick `lastWake`
(`TickSpares`). `TicksLeftFacts` is the arithmetic of the call around the wraparound.

**Model-checked only.**

- Liveness (`TakeReturns`, `TimedCallReturns`, `PrintsCodes`): outside of what the prover does.

Every other property of the passing runs is stated by a theorem.

## Findings

Each has a run in which TLC finds the counterexample.

1. **A thread whose slice is used up goes before its peers** (`scheduler_up.c:267`).
   `rt_schedule` clears the yield mark of the running thread before
   `rt_schedule_insert_thread` reads it to choose the end of the queue. The comment at line 381
   says which end is meant. Of three ready threads of equal priority, two may alternate for ever.
2. **Deleting a sleeping thread races its timer** (`thread.c:549`). `rt_thread_delete`
   unlinks the thread before it disables interrupts and stops the timer. A tick in between
   inserts the thread into a ready queue, and it is then closed, and later freed, while it is linked there.
3. **A stale `pending_object`** (`ipc.c:1301`). A take that times out does not clear it.
   If the thread sleeps later while it owns another mutex, raising its priority links it into the wait list
   of the first mutex, and a release makes the sleeping thread its owner.
4. **The owner is gone** (`ipc.c:1306`). After a timeout `rt_mutex_take` reads
   `mutex->owner->current_priority`; the owner may have released the mutex since the timeout.
5. **The delay before a power mode does not delay** (`usart.c:37`). The command is executed in
   the receive interrupt. `rt_thread_mdelay` there suspends the thread the interrupt has hit, idle
   included, and returns at once; the mode is entered before the message is sent ("Ensure message is
   sent before sleeping"), and the innocent thread sleeps on.

### Observations without a run

Met while modelling; the models leave them out or allow them, as said.

- `_ipc_list_resume_all` in detach and delete tests the list with interrupts enabled
  (`ipc.c:250`) and takes its head with them disabled: a timeout of the last waiter in between
  makes it take the list head for a thread. `DetachWake` stops there.
- An inherited priority may outlive its cause: a waiter that times out after its own priority
  changed leaves the owner boosted (`ipc.c:1306`, against the comment at 772).
- A mutex that is handed over does not give its new owner the ceiling (`ipc.c:1483`, against 1222 and
  the comment near 783); `rt_mutex_setprioceiling` raises its owner without `rt_schedule`.
- `rt_mutex_delete` frees the mutex before the waiters it wakes have read it (`ipc.c:1132`).
- A thread that ends keeps its mutexes (`thread.c:562`).
- `rt_thread_resume` tests the state before it disables interrupts (`thread.c:1059`, `1070`): in `Threads`
  this is `Raced = {"resume"}`.
- `rt_thread_resume` and the priority change of `rt_thread_control` leave `rt_schedule` to the caller
  (`Reschedule` in `Threads`); a caller that does not call it goes on in front of a higher thread.
- A priority change by `rt_thread_control` leaves a waiter of a semaphore where it is (`thread.c:880`).
- A periodic timer made one-shot by its own function keeps `RT_TIMER_FLAG_ACTIVATED` in no list
  (`timer.c:612`; `OwnOneShot = TRUE` violates `ActiveIsLinked`). A periodic timer of time 0 keeps
  `rt_timer_check` from returning. `RT_TIMER_CTRL_GET_REMAIN_TIME` returns the tick of the
  timeout, not what remains (`timer.c:621`).
- `rt_smem_realloc` makes blocks smaller than `MIN_SIZE`, against the comment at `mem.c:314`, and fails
  to shrink a block a little in a full heap. `RT_ALIGN` wraps sizes near the largest.
- IR: a repeat code behind a lost frame reports an older code (`ir_recv.c:134`); a leader that comes 2 to
  15 ms after a broken frame is lost (`ir_recv.c:163`); a code that arrives between the two
  statements of `IR_GetCode` is reported twice.
- `rt_mp_alloc` puts a waiter at the front of the list (`mempool.c:354`): the last to come is woken
  first, and an early one may starve behind newer ones.
- A data queue starts the whole timeout again at each retry (`dataqueue.c:127`): a timed push or pop may
  take longer than its timeout. `TimedCallReturns` leaves it out for this reason.
- `rt_data_queue_init` is documented to wake writers when there are fewer items than the low water mark
  (`dataqueue.c:33`); `rt_data_queue_pop` wakes them with as many items as the mark, too (`dataqueue.c:278`).
  `QueueWakesSuffice` follows the code.
- `rt_data_queue_peek` tests for emptiness before it disables interrupts (`dataqueue.c:338`).
  `rt_data_queue_deinit` frees the array while a thread woken for a place is on its way to it (`dataqueue.c:455`).
- `rt_completion_wait` clears the flag on its way out of a timeout too: a signal in between is lost
  (`completion.c:113`).
- `rt_wqueue_wakeup` resumes the first waiter even if it has timed out and has not yet left the list; the one
  behind it is not woken (`waitqueue.c:95`).
- Idle may be suspended by the UART handler (finding 5); with no thread ready `rt_schedule` does
  nothing (`scheduler_up.c:246`), and idle runs on while it is marked as suspended. The property of the UART is about its ring buffer.
- `drv_pwm.c`: the six channels share one period, where `src/README.md` calls them independent.

## What is not modelled

- Object memory (creation, freeing, names) and the object registry.
- Handlers inside handlers. SysTick has the lowest priority, and the UART may interrupt its handler;
  between the regions of the tick no thread runs, so a handler there does what it would do just before
  or just after, and the model lets handlers start outside of it.
- Stacks, their overflow check, and the register-level switch (`libcpu`): a switch is done
  when it is asked for and no handler runs.
- Idle hooks, `rt_malloc_align`, the maximum of the bytes used, `evt_notify` of data queues, `rt_data_queue_peek`.
- Steps within `rt_thread_startup`, which enables interrupts twice before its `rt_schedule`: `Startup` is
  one step up to there. The new thread is on no list and its timer does not run, so the tick does not
  touch it, and callers leave a thread alone that another one starts (`Unclaimed`).
- `rt_tick_set`, which nothing in the firmware calls.
- In `Semaphore` and the services, the step of a detach that finds its list empty; in `Mutex`, the deletion of
  a thread that owns a mutex. The code does not handle either (observations).
- Wait queues, work queues, pipes and block rings: compiled, but no thread of this firmware uses them.
- PWM, board start-up, device framework, console: registration, register writes and formatting. The
  page splitting of EEPROM and flash drivers is not linked. Vendor code, the RT-Thread packages
  that are not configured (file systems, network, and so on) and the examples are left aside: they are
  most of the lines of the repository and no part of the firmware.

## Plan

The order is that of importance for the firmware: kernel core, what threads wait on (semaphore, mutex),
what they are built on (timers, heap), then events, pools, device IPC and the UART. All of these are done.
What could follow is listed above as not modelled; the wait queue is the first candidate.
