# Verification of the Zephyr unified kernel of this repository

The repository is a Zephyr 1.6 tree for an STM32F103 board. Its own core logic
is the *unified kernel* under `src/kernel/unified`, with the Cortex-M port under
`src/arch/arm`. The modules here model that kernel in TLA+, check it with TLC on
small instances and prove, with TLAPS, the invariants and refinements of most of
them for every number of threads, objects and priorities.

Tools: `tlc -config <run>.cfg <module>` for a run (the table in section 4 says
which module), `tlapm <module>` for the proofs, which are in the modules whose names
end in `Proofs`.

## 1. Inventory

| Component | State | Operations | Talks to |
|---|---|---|---|
| Scheduler (`sched.c`, `ksched.h`) | `_ready_q`: one list per priority, `prio_bmap`, `cache`; `_current`; per thread `prio`, `flags`, `sched_locked` | add, remove, move to the end, next ready thread, reschedule, lock/unlock, yield, sleep, wakeup, priority set | everything that readies or blocks a thread |
| Threads (`thread.c`, `thread_abort.c`) | `K_PENDING`, `K_PRESTART`, `K_DEAD`, `K_SUSPENDED`; the thread's timeout | spawn (at once or delayed), cancel, suspend, resume, abort | ready queue, timeout queue, the wait queue the thread is on |
| Context switch (`swap.S`, `exc_exit.S`) | `_current`, PendSV pending | `_Swap`, `_IntExit`, `__pendsv` | `_ready_q.cache` |
| Semaphore (`sem.c`) | `count`, `limit`, `wait_q` | give, take, reset; groups through dummy threads | scheduler, timeouts |
| Timeout queue and tick (`timeout_q.h`, `sys_clock.c`) | `_timeout_q` of deltas, `_time_slice_elapsed` | add, abort, handle the expired ones, announce ticks | callbacks into threads, timers, work items |
| Timer (`timer.c`) | `period`, `status`, `wait_q`, its timeout | start, stop, status get/sync, remaining, expiry handler | timeout queue, the user's callbacks |
| Mutex (`mutex.c`) | `owner`, `lock_count`, `owner_orig_prio`, `wait_q` | lock, unlock; inheritance | priorities, timeouts, scheduler lock |
| Fifo, lifo, stack | data list or array, `wait_q` | put, get | scheduler |
| Message queue (`msg_q.c`) | ring buffer, one `wait_q` for both sides | put, get, purge | scheduler |
| Mailbox (`mailbox.c`) | two wait queues, messages in transit, async descriptors with dummy threads | put, async put, get, data get, data block get, dispose | memory pool, semaphore, stack of descriptors |
| Pipe (`pipes.c`) | ring buffer, two wait queues, the descriptor of each call | put, get, block put | scheduler lock, memory pool |
| Memory slab and pool | free list; quad-tree of blocks, `wait_q` | alloc, free, split, defragment | scheduler lock |
| Work queue, alert (`work_q.c`, `alert.c`) | fifo, pending bit, `work_q` pointer, timeout; alert's send count | submit, delayed submit, cancel; send, receive | fifo, timeout queue, semaphore |
| Event logger, ring buffer | ring indices, a semaphore | put, get | ISRs |
| SysTick driver, idle (`cortex_m_systick.c`, `idle.c`) | timer mode, reload counts, elapsed ticks | program idle, leave idle, tick ISR | timeout queue |
| Drivers, subsystems, libraries, samples, tests | -- | -- | outside the kernel |

**What is hard.** Threads of several priorities and interrupts share all of this
state. The code is atomic only between `irq_lock()` and `irq_unlock()`/`_Swap()`,
several routines open interrupts half way (`k_timer_stop()`, the timed out branch
of `k_mutex_lock()`), and on Cortex-M every `_Swap()` has a window between the
`svc` and PendSV where interrupts run while `_current` is a thread that has
already given up the CPU. Timeouts race gives, aborts, suspensions and unlocks. A
cached next thread must be right after every operation. Priorities change while
threads are on lists sorted by priority. `PROJECT.json` lists these hazards at
their lines, with the properties for each.

**What makes each component correct.** Scheduler: the ready queue is exactly the
ready threads; the cache is never stale; no preemption is missed; equal priority
shares the CPU. Semaphore and every other waiting object: the wait queue is
exactly the pending threads and nobody waits for something available. Timeout
queue: each timeout expires in its own tick. Timer: nobody waits for a stopped
timer. Mutex: one owner, no priority inversion, inherited priority given back.
Queues, slabs, pools, mailboxes, pipes: nothing lost or duplicated, hand-over to
the right waiter, no thread left waiting for what is there. Semaphore groups: one
give ends the whole wait and leaves no dummy behind. Work items: pending means in
exactly one hand, and what is submitted is handled. SysTick: no timeout is passed
over, however an idle period ends, and the timer never falls silent.

## 2. Plan

Done in this order: `DList` -> `Sched` (with `SchedProofs`) -> `Deadlines`,
`TimeoutQ` -> `Timer` -> `Mutex` -> `Channel`, `Queues` -> `WorkQ` -> `MultiWait`,
`SemGroup` -> `MemPool` -> `Mailbox` -> `SysTick` (on top of `TimeoutQ`) -> `Pipe`.
Proofs, in this order: `SchedProofs` -> `SemGroupProofs` -> `WorkQProofs` ->
`MutexProofs` -> `QueuesProofs` -> `TimeoutProofs` (timers and SysTick) ->
`MailboxProofs` (with `Rendezvous`, what a mailbox promises), all on top of
`DListProofs`. To do: the ring buffer and the event logger.

## 3. Modules and the code

Names of operators are those of the C functions, without the leading underscore.
Code between `irq_lock()` and `irq_unlock()` or `_Swap()` is one action.

* **`DList`**: `sys_dlist_t` as a sequence. `Linked` and `NoDup` say what it means
  for a node to be on a list. `DListProofs` proves what append, remove and ordered
  insertion do to them.
* **`Sched`**: the ready queue as a record `rq` with `q`, `bmap` and `cache`, the
  operators on it being functions from one record to the next (`add_...`,
  `remove_...`, `move_...`, `get_next_ready_thread`), and one action per kernel
  call and per interrupt. `Swap` is the context switch: with `DeferredSwap` (the
  board's Cortex-M3) it only pends PendSV, and any interrupt may come before the
  `PendSV` action; without it (x86) it switches at once. `IntExit` is what each
  interrupt does last. A tick is `handle_one_timeout` for each expired timeout and
  then `tick_announce_end`, with interrupts locked in between (`tick`). When a
  timeout expires is left open here: any armed timeout may, at any tick, so that
  every order is covered; `TimeoutQ` has the order. One semaphore stands for the
  objects a thread can pend on. Semaphore give and take by ISRs are included.
* **`Deadlines`** is the abstract specification of timeouts: independent
  countdowns. **`TimeoutQ`** is the delta queue. `add_timeout`, `abort_timeout` and
  `dequeue` are functions on the queue, also used by `Timer`. `remaining` is the
  sum `k_timer_remaining_get()` computes, and `Left`, the remaining time of every timeout, is
the refinement mapping. The sums are a recursive function, `Sums`, so that they can be
reasoned about.
* **`Timer`** extends `TimeoutQ` with period, status and the threads inside
  `k_timer_stop()` and `k_timer_status_sync()`. `k_timer_stop()` is two actions,
  because it runs the stop function with interrupts open. An expiry function may
  restart any timer (`timer_expiration_restart`). Threads are interleaved freely;
  one thread at a time synchronises with a timer, as the documentation asks.
* **`Mutex`** has the mutex and as much of the scheduler as decides who runs:
  strict priority, any order among equals, no preemption while the scheduler is
  locked. `k_mutex_lock()` is one action if it gets the mutex; otherwise it is split
  at the switch and, when it has timed out, between the unprotected read of the
  wait queue (`k_mutex_lock_peek`) and its use (`k_mutex_lock_timed_out`). A read
  through the null `owner` is undefined: it either goes unnoticed or sets
  `faulted`, after which nothing is claimed and nothing moves.

* **`Queues`** has the five objects that pass items between threads and ISRs. They
  share one pattern, the hand-over to the first waiting thread, and differ in where an
  item goes otherwise; `kind`, chosen in `Init`, says which object a behaviour is about.
  `ring` is the message queue's buffer with its two pointers. An item is a token: data of
  a fifo, a message, a block of a slab. `app` holds the ones the application has.
  **`Channel`** is the abstract specification: a sequence and the items that were given to
  threads, no wait queue and no ring. `arrived` is a history variable for the order
  of arrival.
* **`WorkQ`** has several work queues, plain and delayed items and alerts. A submission
  of a thread is two actions, the test-and-set of the pending bit and the put into the fifo,
  since nothing is locked in between; the delayed calls and `work_timeout` are one each.
  `work_q_main` gets an item, clears its bit and runs the handler, three steps. An alert is a work item
  whose handler `_alert_deliver()` loops over `send_count`. Countdowns end at any time.
* **`MultiWait`** is the abstract specification of semaphores that are waited for
  in groups: each thread has a *set* of semaphores it waits for. **`SemGroup`** has the
  wait queues with their dummy threads. A thread in a group wait and its dummies time out in
  one action: their timeouts are armed in one locked stretch with the same duration,
  so they expire in the same tick.
* **`MemPool`** has the arrays of quad-blocks, splitting and both kinds of merging, and
  `k_mem_pool_alloc()` and `k_mem_pool_free()` cut where interrupts are open while the
  scheduler is locked; the loop of `k_mem_pool_free()` is one action per waiter. The
  policy (`CONFIG_MEM_POOL_*`) is chosen in `Init`. `ReqSize` has sizes that fill a block,
  sizes that do not, and one no block has.
* **`Mailbox`** models every call of the unified interface, from matching to the disposal that
  may come long after `k_mbox_get()` returned. Threads may suspend each other. A
  thread is suspended while it waits for a message (`SuspendableIn = {"rx"}`), not while it
  waits as a sender, except with `MailboxSuspend.cfg`. `Rendezvous` is what the calls come to: messages and
  receivers that meet, with no queues, descriptors or steps inside a disposal. It does not
  remember what a receiver that found a message had asked for, since the descriptor does not.
* **`SysTick`** extends `TimeoutQ`: the hardware counter with its reload register and
  pending bit, the driver's mode, and the idle thread between `irq_lock()` and the wait
  for an interrupt. `clock` is one count of the counter and interleaves with everything,
  so an interrupt can end the idle period at every count. The number of ticks announced is what the
  driver computes, and no longer an assumption of `TimeoutQ`. Driver functions take
  no time, so the skew the driver corrects for is zero. The counter starts again from its reload
  register whenever it passed zero, also while `idle()` has interrupts locked or an interrupt is
  held up. That lets the driver announce more ticks than the first timeout has left, after
  which its delta is negative (`Corrupt`): the module keeps that state and the running counter,
  but not what the code goes on to do with the damaged queue.
* **`Pipe`** has the ring buffer and the calls, cut where interrupts are open while the
  scheduler is locked: `_pipe_xfer_prepare()` and the copying with what comes after it. The
  thread served last may time out in between. Bytes carry their writer and a number, so
  that order and gaps can be told. `View` in `MCPipe` makes the numbers relative to what is
  due next: guards and properties compare numbers of one writer and add to them,
  modulo `Wrap`, so states with equal views have the same futures.

**Abstractions.** Registers, stacks, return values that nobody branches on, and
logging are left out. Times in `Sched` and `Mutex` are nondeterministic. In
`Sched`, `tick_announce_end` removes `_current` from the semaphore's wait queue
when a slice ends inside the switch window, since moving a list node unlinks it
from where it is; what the C code does to the neighbours of a node that was
unlinked already is not modelled further. `Timer.status` saturates at `MaxStatus`:
the code only asks whether it is zero. `k_sched_lock()` nests up to `MaxLock`. Idle
makes no call, Main is never respawned. A thread is spawned only when its control
block is dead or was cancelled, and dead threads are not named in calls: the
interface has no other legal use.

## 4. Runs

| Run (module) | Checks | Shows |
|---|---|---|
| `SchedCortexM` (`MCSched`) | `TypeOK`, `ReadyQMirrorsThreads`, `CacheIsNext`, `NoMissedPreemption`, `WaitersMatchSemaphore` | the scheduler with the switch deferred to PendSV: idle, main and two threads, one cooperative and one preemptible priority |
| `SchedSlices` (`MCSched`) | `ReadyQMirrorsThreads`, `CacheIsNext`, `NoMissedPreemption`, `RoundRobin` | an immediate switch, two preemptible priorities, slices of two ticks; time slicing starves nobody among equals. Scheduler locks and priority changes are left out of this run: a thread that keeps the lock, or is re-queued by each change of its priority, is not served in turn |
| `SysTick` (`SysTick`) | `OverflowOnlyIfDue`, `QueueUnlessOverrun`, `DeadlinesUnlessOverrun`, `TicksUnlessCut` | the delta queue driven by the tickless driver: it stays consistent and implements independent countdowns of announced ticks at every step but one, another interrupt that ends an idle period programmed on top of more than a tick; a count that does not fit the register is programmed only with the tick's interrupt due; ticks keep coming unless interrupts cut idle periods short for ever |
| `Timer` (`MCTimer`) | `QueueMatchesDeltas`, `NoStrandedWaiter`, `TimersCountDown`, `SyncReturns` | a timer, the timeouts of two other threads, two threads that start, stop and synchronise; the wait in `k_timer_status_sync()` ends |
| `Mutex` (`MCMutex`) | `LockConsistent`, `OwnerInherits`, `PriorityRestored` | four threads of any three preemptible priorities, recursion to depth two |
| `Queues` (`MCQueues`) | `ItemsConserved`, `NobodyWaitsInVain`, `ServedInOrder`, `ItemsLeaveInOrder` | each of the five objects with three threads of two priorities, four items and room for two |
| `WorkQ` (`WorkQ`) | `PendingInOneHand`, `CountdownHasQueue`, `AlertInFlight`, `SubmittedIsHandled` | submissions that race each other, the timeout, a cancel and the handler never link an item twice or lose it; every item submitted is handled |
| `SemGroup` (`MCSemGroup`) | `DummiesMatchWaits`, `ImplementsMultiWait` | groups that overlap, in either order: no dummy outlives the wait of its thread, no give is lost or counted twice |
| `MemPool` (`MCMemPool`) | `PoolPartition`, `NobodyWaitsInVain`, `ServedInOrder` | every byte is in exactly one block, free or held, after any sequence of splits and merges; nobody waits for a block the pool could give |
| `Mailbox` (`MCMailbox`) | `BlockedUntilDisposed`, `NoCompatiblePairWaits`, `BlocksConserved`, `AsyncFlowControl`, `ImplementsRendezvous` | a synchronous sender waits for the disposal; a sender and a receiver that fit never both wait; each block has one owner; the semaphore of an asynchronous message counts; a message reaches one receiver, of those it is for, with its source and data |
| `Pipe` (`MCPipe`) | `StreamIntact`, `WaitOnlyWhenStuck` | two writers, two readers: no byte lost, repeated or overtaken, with timeouts between preparing and copying |
| `SchedSliceWindow` (`MCSched`) | `SuspendedNeverRuns` violated | a tick between svc and PendSV puts a thread that suspended itself back; the sentence it contradicts is quoted in `PROJECT.json` |

Three more configurations show that an exception or a restriction above is needed. TLC finds
each of their invariants violated; section 6 has what happens.

| Configuration (module) | Violated | Differs in |
|---|---|---|
| `SysTickOverflow.cfg` (`SysTick`) | `CountFits` | the property: `OverflowOnlyIfDue` without its exception |
| `SysTickOverrun.cfg` (`SysTick`) | `QueueMatchesDeltas` | the property: `QueueUnlessOverrun` without its exception |
| `MailboxSuspend.cfg` (`MCMailbox`) | `BlockedUntilDisposed` | `SuspendableIn = {"rx", "tx"}` |

**Bounds and why they are enough.** The scheduler's invariants relate a thread, the
current thread, the cached one and a list neighbour: idle, main and two more
threads have all of these at once, with a list of two and a wait queue of two; one
priority above, one equal and idle below give every comparison. A lock depth of one
and a limit of one reach both ends of each counter. That larger instances add
nothing is what the proofs establish. `Timer` has a delta queue of three, with a neighbour on
both sides of the insertion point; `SysTick` has two timeouts of up to four ticks,
since its state is in the counter: ticks of five counts, idle periods of up to three of them
(`MaxCount = 15`), so that timeouts are shorter than, equal to and longer than the longest idle
period, and below and above the threshold of two. Mutexes need an
owner, two waiters that order themselves and a thread that interferes. A message queue
with room for two and four items wraps its pointers and has two blocked senders at
once. `WorkQ` has one item of each kind, which race for two queues, and two callers: a
submission is interrupted by another of the same item. `SemGroup` has three semaphores, so
that a give cancels one dummy before and one after the one it reaches, and three
threads, so that each queue has neighbours. `MemPool` has three block sizes, so that a split and a merge go over
two levels, and up to five blocks held or waited for: all four quarters of a block and one more.
`Mailbox` has a descriptor and a block for which three threads compete. `Pipe` has transfers longer than the buffer,
which take the direct path, wrap the indices and leave a waiter partly served.
`Permutations` symmetry is used only in
runs that check invariants or action properties, over threads that `Init` does not
tell apart.

**Fairness.** `RoundRobin` assumes only that ticks keep being announced (weak
fairness of `tick_announce_end`): the clock interrupt is periodic and the kernel
locks interrupts for bounded stretches. `TimerFairSpec` adds that the tick handler
ends, and strong fairness of the threads inside `k_timer_stop()` and
`k_timer_status_sync()`: every tick interrupts them, and they go on afterwards
unless threads of higher priority never stop, which the property does not claim
anything about. `SysTickFairSpec`: the counter counts, an interrupt that is due and not
locked is taken, and locked stretches end; nothing is assumed of other interrupts. `TicksUnlessCut`
also excepts the behaviours that reach `Corrupt`, where the model's tick does not end.
`WorkQ!FairSpec`: a caller that was preempted runs again, the thread of a queue runs and
its handlers return, countdowns end. `SubmittedIsHandled` leaves out behaviours in which
alerts are sent for ever, for then `_alert_deliver()` need not leave its loop.

**Deadlock** is checked in every run but `Mutex`, where the fault described in section 6
ends the behaviour.

## 5. Proofs

Every theorem holds for all values of the constants that the named assumptions of the
modules allow: any number of threads and objects, any priorities and durations.

| Module | Theorems | Further hypotheses |
|---|---|---|
| `DListProofs` | lemmas on append, remove, tail and ordered insertion; `LeastElement` | |
| `SchedProofs` | `SchedTypeOK`, `SchedReadyQ`, `SchedCache`, `SchedPreemption`, `SchedWaiters`: the five invariants of `SchedCortexM`; `SchedInvariant` | `SafeConfig` |
| `SemGroupProofs` | `SemGroupDummies`; `SemGroupRefines`: the wait queues with dummies implement `MultiWait`; `SemGroupInvariant` | |
| `WorkQProofs` | `WorkQPending`, `WorkQCountdown`, `WorkQAlerts`; `WorkQInvariant` | |
| `MutexProofs` | `MutexConsistent`; `MutexRestores`, `MutexInherits`; `MutexInvariant` | `Single` for the middle two |
| `QueuesProofs` | `QueuesConserve`, `QueuesNobodyWaits`; `QueuesServeInOrder`, an action property; `QueuesRefine`: the objects implement `Channel`; `QueuesInvariant` | |
| `TimeoutProofs` | for `Timer`: `TimerQueueMatches`, `TimerNobodyStranded`, `TimersRefine`; for `SysTick`: `SysTickQueueMatches`, `SysTickOverflow`, `SysTickRefines`: the three safety properties of the run; `TimerInvariant`, `SysTickInvariant` | |
| `MailboxProofs` | `MailboxBlocks`, `MailboxPairs`, `MailboxBlocksConserved`, `MailboxFlowControl`; `MailboxRefines`: queues and dummy threads implement `Rendezvous`; `MailboxInvariant` | `NoSenderSuspended` |

**Hypotheses and assumptions.** The `ASSUME`s of the modules say what the configuration
system allows, and that names which stand for different things differ
(`"sleep"` is no mutex) or sets are finite where the code has a finite table. `SafeConfig`: the application resumes
only suspended threads, and time slicing is not combined with the deferred switch. Both
halves are needed: resuming a ready thread links it a second time (section 6), and
`SchedSliceWindow` is what happens without the other. `Single`: a thread holds one mutex
at a time and no thread has a priority above the inheritance ceiling. Without it the two
priority theorems are false: `k_mutex_unlock()` gives back the priority recorded at the time of
the lock, which with nested mutexes was itself inherited, and the ceiling lowers a
cooperative owner. `LockConsistent` needs neither.
`NoSenderSuspended`: no thread is suspended while its message waits on the queue or was just
taken from it. `k_thread_resume()` would make a sender ready whose message was taken meanwhile
(section 6); receivers, and senders whose message was taken when they sent it, may be suspended.

**Scheduler.** `IInv` is `TypeOK`, `QInv`, `WaitersMatchSemaphore`, `FlagInv`, `RunInv`
and `NoMissedPreemption`. `QInv` restates the ready queue and its cache without
`CHOOSE`: every ready thread on its list once, the bitmap right, the cache a thread
at the head of its list with no bit of a higher priority. `FlagInv` says that a
pending thread is neither dead nor waiting to be started, which is needed since a
timeout or a give clears those flags together. `RunInv` is what survives the window:
Idle is always ready, and when no switch is pending the current thread is;
`NoMissedPreemption` adds its right to the CPU. The lemmas `AddPreserves`,
`RemovePreserves`, `MovePreserves` and `NextPreserves` say once what each ready queue operation
does to `QInv`; `SwapSwitched`, `RescheduleSwitched` and `IntExitSwitched` say that each way
of ending an operation re-establishes `RunInv`; `Conclude` puts the parts together, and
there is one lemma per action.

**Semaphore groups.** `QueueInv` says which nodes are on which queue, actual threads and
dummies, from the state of the threads alone; `CountInv`, that nobody waits for an available
semaphore, is what makes a grant without touching the count right; `StateInv`, that a
granted thread has one semaphore on its list, is the refinement's return value.

**Work queues.** `HandInv` restates the count of hands as exclusions: an item in a fifo, with a
caller or with a queue's thread is pending and nowhere else. `PendingInOneHand` follows by
counting a set of at most one element. `AlertInv` adds that only one caller or handler is at
work on an alert, without which the count could fall to zero under a second one.

**Mutexes.** `LockInv` and `ThreadInv` tie owner, count, wait queue and the place of each
thread in `k_mutex_lock()`. `OwnInv` and `InheritInv`, under `Single`, have the bound
`OwnerInherits` states and, when no waiter is about to give up, that the owner's priority is its own or a waiter's. They cover the thread
between the unprotected look at the wait queue and its use, whose value may be stale but
not too low.

**Queues.** `DataInv`, `WaitInv` and `PlaceInv`: every item is in one place, every waiter
on the queue; `NobodyWaitsInVain` is part of the invariant, since a hand-over
that skips the store is right only if the store is empty. `OrderInv` ties the wait queue to the history of
arrivals. The ring buffer is shown to be a sequence (`MessagesProps`), with its two pointers
anywhere.

**Timeouts.** A delta queue makes every timeout depend on all before it. `Times(Q, r)` says
link by link that `r` is what is left of each timeout; one lemma per operation
(`AddTimes`, `AbortTimes`, `DequeueTimes`, `ElapseTimes`) shows that the operation takes
`r` to `r` changed at one timeout, or reduced everywhere. That is the step of `Deadlines`, so invariant and
refinement are one argument. `SumsExist` shows that the recursive definition of the sums has a value
and `TimesAreSums` that it is `r`, both by the least counterexample. `QInv` adds that between ticks
nothing is due. For `SysTick`, `SysTickInv` is `Sound` or `Broken`. In `Sound`, `ModeInv`
bounds the counter: while no interrupt is due it has at most a tick left unless a longer idle
period is programmed. `IdleInv` says that while asleep the counter holds no more than was
programmed, the driver's ticks are no more than the first timeout has left, and nobody touches the
queue meanwhile: unless `Overrun`, the count is worth no more than those ticks, which is why the
driver may announce them all at once. A counter that started again has its
interrupt pending, so an `Overrun`, and an overflow with it, is entered with the interrupt due
(`OverflowOnlyIfDue`), and the interrupt announces what the queue allows. Only `isr_wrapper` with
`Overrun` leads to `Broken`, a tick whose first delta is negative (`AnnounceTooMany`); the
queue then stays as it is (`BrokenStep`).

**Mailboxes.** `QueueInv` says that the two queues hold the threads that wait on them and
`HandInv` who has which message and where its sender is meanwhile: a sender is in `"sync"`
or `"taken"` just as long as some receiver names it. `DescInv` gives each descriptor its one
place: the stack, a thread that fills it, the queue, or a receiver. `BlockInv` and `FlowInv`
restate the counts of `BlocksConserved` and `AsyncFlowControl` as exclusions, and the theorems
count sets of at most one element (`CountOne`). `HandInv` also says that a thread about to
notify the sender has no block left, without which the notification could drop one; and
`NoCompatiblePairWaits` is part of the invariant. `PutProps` says once, for synchronous and
asynchronous senders, that nobody else has the message that is put. The refinement adds
`SourceInv`: a message that was sent names a thread as its source, so that an offer can be told
from none. Filling a descriptor, giving the semaphore and the steps between are stutters;
taking the data out is a `Retrieve`, and the end of the disposal the `Release`.

**Only model-checked.** Liveness (`RoundRobin`, `SyncReturns`, `TicksUnlessCut`,
`SubmittedIsHandled`) is out of the prover's reach.
`MemPool` and `Pipe` stay with TLC: `PoolPartition` follows blocks through a tree of
any depth and `StreamIntact` concatenates the parts of a transfer, both of which are
inductions over data for which the library's theorems cannot be instantiated here.

## 6. Not modelled

The components marked `not_modelled` in `PROJECT.json`. The ring buffer and the event
logger are in the plan. Drivers, Bluetooth, network, file system, USB and the vendored
HALs are register or protocol code with no state shared with the modelled parts beyond
the calls modelled here. They are also nearly all of the tree: of about two million lines,
most are register definitions of the vendored HALs, and the kernel with its ports is a few
thousand. Of the modelled files: thread groups, static thread
tables and the essential flag of `thread.c`; the
uptime arithmetic of `sys_clock.c`; `k_sched_time_slice_set()`, the slice being a
constant of a behaviour. `k_mem_slab_free()` may switch even in an ISR
(`mem_slab.c:131` does not ask `_is_in_isr()`), so `Queues` takes it to be called by
threads. `k_pipe_block_put()` allocates an asynchronous descriptor and waits with it, but
never sets its `buffer` and `bytes_to_xfer`, so what a reader copies is undefined.
`Pipe` has the number of bytes a call returns, not the comparison with `min_xfer` that makes
the return code of it (`pipes.c:353`).
In `SysTick`, the skew, the cycle counter, disabling the clock and the SoC's power states.

**Where the code and what is said of it part.** Met while modelling; each is a
behaviour the modules have (or, where it says so, one a constant leaves out). The first is a run,
and the mailbox sender and the reload value have configurations that find the violation.

* A slice that ends between `svc` and PendSV: the run `SchedSliceWindow`.
* `k_thread_resume()` on a thread that is not suspended adds it to the ready queue a
  second time (`thread.c:345`; `kernel.h:402` has it do nothing).
  `Sched` has it with `Fns` containing `"resume_any"`.
* `k_timer_status_sync()` returns 0 if the timer is restarted between the expiry and the
  moment the released thread reads the status (`timer.c:185`; `timers.rst:76`).
* `k_mutex_lock()` that timed out reads `mutex->owner->base.prio` though the owner may
  have unlocked and be `NULL` (`mutex.c:206`). `Mutex` sets `faulted` or goes on, and claims
  nothing after the fault.
* The default ceiling lowers a cooperative owner to the highest preemptible priority
  (`ksched.h:149`; `mutexes.rst:76`); `Mutex` is run with preemptible threads.
* Inheritance changes the priority of a thread that waits for another mutex and does not
  re-sort that wait queue (`mutex.c:249`), and `k_thread_priority_set()` does not re-sort
  a semaphore's (`semaphores.rst:37` has the highest priority waiter take it).
* `k_wakeup()` also starts a thread whose delayed start is pending (`kernel.h:198` has it
  do nothing to a thread that does not sleep).
* `k_msgq_purge()` also fails the threads that wait to *receive* with `-ENOMSG`
  (`kernel.h:2034` speaks of senders only).
* A synchronous mailbox sender that is suspended while it waits on the queue, and resumed
  after its message was taken, returns before the message is disposed of
  (`mailbox.c:459`; `mailboxes.rst:100`). `MailboxSuspend.cfg` shows it.
* `k_thread_abort()` of a thread inside `k_sem_group_take()` takes the thread off its private
  wait queue, but not its dummies, which are on its stack, off those of the semaphores
  (`sem.c:133`; `kernel.h:229` has a thread taken off all kernel queues). `SemGroup` has no
  abort: what a later give does depends on what has become of that stack.
* Delayed work whose countdown ended but which is still pending can be submitted again:
  `work_timeout()` has cleared `work_q`, so the call finds nothing to cancel and returns 0
  (`work_q.c:92`; `kernel.h:1438` has `-EINPROGRESS`). `WorkQ` has it.
* Delayed work submitted with no delay keeps `work_q` set after it was handled: a later
  submission to another queue fails with `-EADDRINUSE`, and a cancel returns 0
  where `kernel.h` speaks of `-EINVAL`.
* `_timer_idle_exit()` sets the timer to `elapsed % default_load_value`, which is what has
  passed of the current tick and not what is left of it; interrupts that cut idle
  periods short more often than once a tick can postpone ticks for ever (`TicksUnlessCut` excepts
  them). Its branch for a counter at zero announces one tick less than the idle period had.
  Its test of `countflag` never succeeds, since `sysTickStop()` has read the register. A tick that falls due
  while `idle()` has interrupts locked announces the whole idle period at once.
* When `_timer_idle_exit()` finds that the counter expires before the tick would, it leaves
  the idle period's count in the reload register (`cortex_m_systick.c:518`). If the
  counter passes zero in the locked section of `idle()`, where nothing prevents that, it starts from this
  count, which `_timer_idle_enter()` takes for the rest of the tick (`:417`). The sum may not
  fit the register, against the comment at `:424`, "to prevent overflow when the left
  over count read earlier is added": `SysTickOverflow.cfg`. The remembered count
  and the programmed one then differ, and another interrupt taken before the pending tick
  makes the driver announce more ticks than have passed and than the first timeout has left:
  `SysTickOverrun.cfg`. With `LoadValue = 4` and `MaxCount = 15`: an idle period of count 12 is cut
  at 1; with a timeout of three ticks armed, the counter restarts from 12 in the next `idle()`, the
  count is 20 and the register takes 4; an interrupt makes of 20 - 4 four ticks, and 3 - 4 is
  -1, where `_handle_timeouts()` never finds it (`sys_clock.c:227` has it dequeue what has expired).
