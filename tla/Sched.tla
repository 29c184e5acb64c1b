------------------------------- MODULE Sched -------------------------------
(***************************************************************************)
(* The scheduler of the unified kernel: the ready queue with its priority  *)
(* bitmap and its cache of the next thread (sched.c, ksched.h), the life   *)
(* of a thread (thread.c, thread_abort.c), a semaphore as the object that  *)
(* threads block on (sem.c), the tick interrupt (sys_clock.c,              *)
(* timeout_q.h) and the context switch (swap.S, exc_exit.S).               *)
(*                                                                         *)
(* Code between irq_lock() and irq_unlock()/_Swap() is one action.  A      *)
(* smaller priority number is a higher priority.  Times are abstracted:    *)
(* an armed timeout may expire at any tick.  TimeoutQ.tla models the queue *)
(* that decides at which.                                                  *)
(***************************************************************************)
EXTENDS DList, FiniteSets

CONSTANTS
  Thread,        \* thread control blocks, Idle and Main included
  Idle, Main,
  NULL,
  NumCoop,       \* CONFIG_NUM_COOP_PRIORITIES
  NumPreempt,    \* CONFIG_NUM_PREEMPT_PRIORITIES
  MainPrio,      \* CONFIG_MAIN_THREAD_PRIORITY
  AppPrio,       \* the priorities the application uses
  SemLimit,      \* limit of the semaphore
  MaxLock,       \* bound on the nesting of k_sched_lock()
  DeferredSwap,  \* TRUE: Cortex-M, _Swap() pends PendSV; FALSE: x86, at once
  Slice,         \* time slice in ticks, 0 = no time slicing
  Fns            \* the kernel functions the application calls

Prio == (-NumCoop)..NumPreempt
IdlePrio == NumPreempt
AppFns == {"yield", "sleep", "wakeup", "sched_lock", "priority_set", "suspend",
           "resume", "resume_any", "spawn", "cancel", "abort", "sem"}

ASSUME SchedAssumption ==
  /\ NumCoop \in Nat /\ NumPreempt \in Nat
  /\ Idle \in Thread /\ Main \in Thread /\ Idle # Main /\ NULL \notin Thread
  /\ AppPrio \subseteq (-NumCoop)..(NumPreempt - 1) /\ MainPrio \in AppPrio
  /\ SemLimit \in Nat \ {0} /\ MaxLock \in Nat /\ Slice \in Nat
  /\ DeferredSwap \in BOOLEAN
  /\ Fns \subseteq AppFns

VARIABLES
  rq,        \* _ready_q: [q: list per priority, bmap: prio_bmap, cache]
  prio,      \* base.prio
  flags,     \* the state bits of base.flags
  slock,     \* base.sched_locked
  tmo,       \* base.timeout.delta_ticks_from_prev != -1
  waitq,     \* sem->wait_q
  count,     \* sem->count
  current,   \* _current
  pendsv,    \* PendSV is pending: a context switch is due
  tick,      \* the tick handler is running, interrupts locked
  elapsed    \* _time_slice_elapsed

vars == <<rq, prio, flags, slock, tmo, waitq, count, current, pendsv, tick, elapsed>>

Flag == {"PENDING", "PRESTART", "DEAD", "SUSPENDED"}

TypeOK ==
  /\ rq \in [q : [Prio -> Seq(Thread)], bmap : SUBSET Prio,
             cache : Thread \cup {NULL}]
  /\ prio \in [Thread -> Prio]
  /\ flags \in [Thread -> SUBSET Flag]
  /\ slock \in [Thread -> 0..MaxLock]
  /\ tmo \in [Thread -> BOOLEAN]
  /\ waitq \in Seq(Thread)
  /\ count \in 0..SemLimit
  /\ current \in Thread
  /\ pendsv \in BOOLEAN /\ tick \in BOOLEAN
  /\ elapsed \in Nat

(***************************************************************************)
(* Predicates on threads                                                   *)
(***************************************************************************)

is_prio_higher(p1, p2) == p1 < p2

\* _is_thread_ready(), given a thread's flags and whether its timeout is armed
is_thread_ready(f, armed) == f \cap Flag = {} /\ ~armed

Ready(t) == is_thread_ready(flags[t], tmo[t])

\* _is_preempt(), given the thread's priority and lock count
is_preempt(p, sl) == p >= 0 /\ sl = 0

(***************************************************************************)
(* The ready queue: functions from one value of _ready_q to the next       *)
(***************************************************************************)

get_highest_ready_prio(r) == CHOOSE p \in r.bmap : \A x \in r.bmap : p <= x

\* Mutant: the cache is not told of a thread of higher priority.
add_keeps_cache(r, pr, t) ==
  [r EXCEPT !.q[pr[t]] = sys_dlist_append(@, t), !.bmap = @ \cup {pr[t]}]

add_thread_to_ready_q(r, pr, t) ==
  [q     |-> [r.q EXCEPT ![pr[t]] = sys_dlist_append(@, t)],
   bmap  |-> r.bmap \cup {pr[t]},
   cache |-> IF r.cache # NULL /\ is_prio_higher(pr[t], pr[r.cache])
             THEN t ELSE r.cache]

\* Mutant: the bit of an emptied list stays set.
remove_keeps_bit(r, pr, t) ==
  [r EXCEPT !.q[pr[t]] = sys_dlist_remove(@, t),
            !.cache = IF @ = t THEN NULL ELSE @]

remove_thread_from_ready_q(r, pr, t) ==
  LET rest == sys_dlist_remove(r.q[pr[t]], t)
  IN  [q     |-> [r.q EXCEPT ![pr[t]] = rest],
       bmap  |-> IF sys_dlist_is_empty(rest) THEN r.bmap \ {pr[t]} ELSE r.bmap,
       cache |-> IF r.cache = t THEN NULL ELSE r.cache]

\* Mutant: the moved thread stays in the cache.
move_keeps_cache(r, pr, t) ==
  [r EXCEPT !.q[pr[t]] = sys_dlist_append(sys_dlist_remove(@, t), t)]

move_thread_to_end_of_prio_q(r, pr, t) ==
  IF sys_dlist_is_tail(r.q[pr[t]], t)
  THEN r
  ELSE [q     |-> [r.q EXCEPT ![pr[t]] = sys_dlist_append(sys_dlist_remove(@, t), t)],
        bmap  |-> r.bmap,
        cache |-> IF r.cache = t THEN NULL ELSE r.cache]

get_next_ready_thread(r) ==
  IF r.cache # NULL THEN r.cache ELSE Head(r.q[get_highest_ready_prio(r)])

\* __get_next_ready_thread() leaves its result in the cache.
WithCache(r) == [r EXCEPT !.cache = get_next_ready_thread(r)]

\* Mutant: the comparison of the priorities is turned around.
must_switch_swapped(r, pr, sl) ==
  /\ is_preempt(pr[current], sl[current])
  /\ is_prio_higher(pr[current], get_highest_ready_prio(r))

\* _must_switch_threads(), given the priorities and lock counts it reads
must_switch_threads(r, pr, sl) ==
  /\ is_preempt(pr[current], sl[current])
  /\ is_prio_higher(get_highest_ready_prio(r), pr[current])

\* Mutant: _ready_thread() does not ask whether the thread is ready.
ready_unasked(r, pr, t, f, armed) == add_thread_to_ready_q(r, pr, t)

\* _ready_thread(), given the thread's state: PRESTART is cleared by the caller.
ReadyIf(r, pr, t, f, armed) ==
  IF is_thread_ready(f, armed) THEN add_thread_to_ready_q(r, pr, t) ELSE r

(***************************************************************************)
(* Context switch                                                          *)
(***************************************************************************)

\* _Swap(): on Cortex-M the svc handler pends PendSV with interrupts open, and
\* _current stays the outgoing thread until PendSV runs; elsewhere the switch
\* happens with interrupts locked.
Swap(r) ==
  IF DeferredSwap
  THEN /\ rq' = r /\ pendsv' = TRUE
       /\ UNCHANGED current
  ELSE /\ rq' = WithCache(r) /\ current' = get_next_ready_thread(r)
       /\ UNCHANGED pendsv

\* irq_unlock() with no switch
NoSwap(r) == rq' = r /\ UNCHANGED <<current, pendsv>>

reschedule_threads(r, pr, sl) ==
  IF must_switch_threads(r, pr, sl) THEN Swap(r) ELSE NoSwap(r)

\* _IntExit(): what every interrupt handler does last
IntExit(r) ==
  IF ~is_preempt(prio[current], slock[current])
  THEN NoSwap(r)
  ELSE IF get_next_ready_thread(r) = current
       THEN NoSwap(WithCache(r))
       ELSE Swap(WithCache(r))

\* The PendSV exception, of the lowest priority, makes the switch.
PendSV ==
  /\ pendsv /\ ~tick
  /\ current' = get_next_ready_thread(rq)
  /\ rq' = WithCache(rq)
  /\ pendsv' = FALSE
  /\ UNCHANGED <<prio, flags, slock, tmo, waitq, count, tick, elapsed>>

(***************************************************************************)
(* Calls made by the current thread.  Idle makes none.                     *)
(***************************************************************************)

Call(fn) == fn \in Fns /\ ~tick /\ ~pendsv /\ current # Idle

\* A thread other threads may name: spawned, and neither dead nor cancelled
Alive(t) == t # Idle /\ "DEAD" \notin flags[t] /\ ("PRESTART" \in flags[t] => tmo[t])

k_sched_lock ==
  /\ Call("sched_lock") /\ slock[current] < MaxLock
  /\ slock' = [slock EXCEPT ![current] = @ + 1]
  /\ UNCHANGED <<rq, prio, flags, tmo, waitq, count, current, pendsv, tick, elapsed>>

\* Mutant: the preemptions held off by the lock are forgotten.
unlock_no_reschedule ==
  /\ Call("sched_lock") /\ slock[current] > 0
  /\ slock' = [slock EXCEPT ![current] = @ - 1]
  /\ UNCHANGED <<rq, prio, flags, tmo, waitq, count, current, pendsv, tick, elapsed>>

k_sched_unlock ==
  /\ Call("sched_lock") /\ slock[current] > 0
  /\ slock' = [slock EXCEPT ![current] = @ - 1]
  /\ reschedule_threads(rq, prio, slock')
  /\ UNCHANGED <<prio, flags, tmo, waitq, count, tick, elapsed>>

k_yield ==
  /\ Call("yield")
  /\ LET r == move_thread_to_end_of_prio_q(rq, prio, current)
     IN  IF get_next_ready_thread(r) = current
         THEN NoSwap(WithCache(r)) ELSE Swap(WithCache(r))
  /\ UNCHANGED <<prio, flags, slock, tmo, waitq, count, tick, elapsed>>

\* k_sleep() with a non-zero duration; k_sleep(0) is k_yield().
k_sleep ==
  /\ Call("sleep")
  /\ tmo' = [tmo EXCEPT ![current] = TRUE]
  /\ Swap(remove_thread_from_ready_q(rq, prio, current))
  /\ UNCHANGED <<prio, flags, slock, waitq, count, tick, elapsed>>

\* What k_wakeup() does before it returns or reschedules
Wakeup(t) ==
  /\ Alive(t)
  /\ "PENDING" \notin flags[t] /\ tmo[t]
  /\ tmo' = [tmo EXCEPT ![t] = FALSE]
  /\ flags' = [flags EXCEPT ![t] = @ \ {"PRESTART"}]
  /\ UNCHANGED <<prio, slock, waitq, count, tick, elapsed>>

k_wakeup(t) ==
  /\ Call("wakeup")
  /\ Wakeup(t)
  /\ reschedule_threads(ReadyIf(rq, prio, t, flags'[t], tmo'[t]), prio, slock)

\* _thread_priority_set() and the reschedule of k_thread_priority_set()
k_thread_priority_set(t, p) ==
  /\ Call("priority_set") /\ Alive(t) /\ p \in AppPrio
  /\ prio' = [prio EXCEPT ![t] = p]
  /\ LET r == IF Ready(t)
              THEN add_thread_to_ready_q(remove_thread_from_ready_q(rq, prio, t), prio', t)
              ELSE rq
     IN  reschedule_threads(r, prio', slock)
  /\ UNCHANGED <<flags, slock, tmo, waitq, count, tick, elapsed>>

k_thread_suspend(t) ==
  /\ Call("suspend") /\ Alive(t)
  /\ flags' = [flags EXCEPT ![t] = @ \cup {"SUSPENDED"}]
  /\ LET r == IF Ready(t) THEN remove_thread_from_ready_q(rq, prio, t) ELSE rq
     IN  IF t = current THEN Swap(r) ELSE NoSwap(r)
  /\ UNCHANGED <<prio, slock, tmo, waitq, count, tick, elapsed>>

\* "resume": the application resumes suspended threads only; "resume_any": any.
k_thread_resume(t) ==
  /\ \/ Call("resume") /\ "SUSPENDED" \in flags[t]
     \/ Call("resume_any")
  /\ Alive(t)
  /\ flags' = [flags EXCEPT ![t] = @ \ {"SUSPENDED"}]
  /\ reschedule_threads(ReadyIf(rq, prio, t, flags'[t], tmo[t]), prio, slock)
  /\ UNCHANGED <<prio, slock, tmo, waitq, count, tick, elapsed>>

\* k_thread_spawn(): _init_thread_base(), then start_thread() or a timeout
k_thread_spawn(t, p, delayed) ==
  /\ Call("spawn") /\ t \notin {Idle, Main} /\ ~Alive(t)
  /\ p \in AppPrio
  /\ prio' = [prio EXCEPT ![t] = p]
  /\ slock' = [slock EXCEPT ![t] = 0]
  /\ flags' = [flags EXCEPT ![t] = IF delayed THEN {"PRESTART"} ELSE {}]
  /\ tmo' = [tmo EXCEPT ![t] = delayed]
  /\ IF delayed THEN NoSwap(rq)
     ELSE reschedule_threads(add_thread_to_ready_q(rq, prio', t), prio', slock')
  /\ UNCHANGED <<waitq, count, tick, elapsed>>

\* k_thread_cancel() on a thread whose start is delayed; else it only fails.
k_thread_cancel(t) ==
  /\ Call("cancel") /\ "PRESTART" \in flags[t] /\ tmo[t]
  /\ tmo' = [tmo EXCEPT ![t] = FALSE]
  /\ UNCHANGED <<rq, prio, flags, slock, waitq, count, current, pendsv, tick, elapsed>>

\* Mutant: a pending thread that is aborted stays on the wait queue.
abort_keeps_waiter(t) ==
  /\ Call("abort") /\ Alive(t)
  /\ tmo' = [tmo EXCEPT ![t] = FALSE]
  /\ flags' = [flags EXCEPT ![t] = (@ \ {"PENDING"}) \cup {"DEAD"}]
  /\ LET r == IF Ready(t) THEN remove_thread_from_ready_q(rq, prio, t) ELSE rq
     IN  IF t = current THEN Swap(r) ELSE reschedule_threads(r, prio, slock)
  /\ UNCHANGED <<prio, slock, waitq, count, tick, elapsed>>

\* k_thread_abort() in thread mode; a thread that returns aborts itself.
k_thread_abort(t) ==
  /\ Call("abort") /\ Alive(t)
  /\ tmo' = [tmo EXCEPT ![t] = FALSE]
  /\ waitq' = IF "PENDING" \in flags[t] THEN sys_dlist_remove(waitq, t) ELSE waitq
  /\ flags' = [flags EXCEPT ![t] = (@ \ {"PENDING"}) \cup {"DEAD"}]
  /\ LET r == IF Ready(t) THEN remove_thread_from_ready_q(rq, prio, t) ELSE rq
     IN  IF t = current THEN Swap(r) ELSE reschedule_threads(r, prio, slock)
  /\ UNCHANGED <<prio, slock, count, tick, elapsed>>

\* _pend_thread(): insert by priority, behind the waiters of equal priority
WaitInsert(wq, pr, t) ==
  sys_dlist_insert_at(wq, t, {w \in Thread : is_prio_higher(pr[t], pr[w])})

\* k_sem_take() when the semaphore is available, in a thread or in an ISR
k_sem_take_available ==
  /\ "sem" \in Fns /\ ~tick
  /\ count > 0
  /\ count' = count - 1
  /\ UNCHANGED <<rq, prio, flags, slock, tmo, waitq, current, pendsv, tick, elapsed>>

\* k_sem_take() that blocks, for ever or with a timeout
k_sem_take_pend(forever) ==
  /\ Call("sem") /\ count = 0
  /\ waitq' = WaitInsert(waitq, prio, current)
  /\ flags' = [flags EXCEPT ![current] = @ \cup {"PENDING"}]
  /\ tmo' = [tmo EXCEPT ![current] = ~forever]
  /\ Swap(remove_thread_from_ready_q(rq, prio, current))
  /\ UNCHANGED <<prio, slock, count, tick, elapsed>>

\* sem_give_common(): the ready queue it leaves ...
GiveReadyQ ==
  IF waitq = << >> THEN rq
  ELSE ReadyIf(rq, prio, Head(waitq),
               flags[Head(waitq)] \ {"PENDING", "PRESTART"}, FALSE)

\* Mutant: a give past the limit counts.
give_no_limit ==
  IF waitq = << >>
  THEN count' = count + 1 /\ UNCHANGED <<flags, tmo, waitq>>
  ELSE /\ waitq' = Tail(waitq)
       /\ flags' = [flags EXCEPT ![Head(waitq)] = @ \ {"PENDING", "PRESTART"}]
       /\ tmo' = [tmo EXCEPT ![Head(waitq)] = FALSE]
       /\ UNCHANGED count

\* ... and the rest of its effect, before the reschedule
SemGive ==
  IF waitq = << >>
  THEN /\ count' = IF count # SemLimit THEN count + 1 ELSE count
       /\ UNCHANGED <<flags, tmo, waitq>>
  ELSE /\ waitq' = Tail(waitq)
       /\ flags' = [flags EXCEPT ![Head(waitq)] = @ \ {"PENDING", "PRESTART"}]
       /\ tmo' = [tmo EXCEPT ![Head(waitq)] = FALSE]
       /\ UNCHANGED count

k_sem_give ==
  /\ Call("sem")
  /\ SemGive
  /\ IF waitq = << >> THEN NoSwap(rq) ELSE reschedule_threads(GiveReadyQ, prio, slock)
  /\ UNCHANGED <<prio, slock, tick, elapsed>>

(***************************************************************************)
(* Interrupts.  They come at any time the interrupts are not locked: also  *)
(* between the svc of _Swap() and PendSV.                                  *)
(***************************************************************************)

isr_k_sem_give ==
  /\ "sem" \in Fns /\ ~tick
  /\ SemGive
  /\ IntExit(GiveReadyQ)
  /\ UNCHANGED <<prio, slock, tick, elapsed>>

isr_k_wakeup(t) ==
  /\ "wakeup" \in Fns /\ ~tick
  /\ Wakeup(t)
  /\ IntExit(ReadyIf(rq, prio, t, flags'[t], tmo'[t]))

\* One turn of the loop in _handle_timeouts(): _handle_one_timeout() takes the
\* thread off the wait queue, if it is on one, and readies it.
handle_one_timeout(t) ==
  /\ tmo[t]
  /\ tick' = TRUE
  /\ tmo' = [tmo EXCEPT ![t] = FALSE]
  /\ waitq' = IF "PENDING" \in flags[t] THEN sys_dlist_remove(waitq, t) ELSE waitq
  /\ flags' = [flags EXCEPT ![t] = @ \ {"PENDING", "PRESTART"}]
  /\ NoSwap(ReadyIf(rq, prio, t, flags'[t], FALSE))
  /\ UNCHANGED <<prio, slock, count, elapsed>>

\* handle_time_slicing(1), time slicing from priority 0 down: does the slice end?
SliceEnds == Slice > 0 /\ prio[current] >= 0 /\ elapsed + 1 >= Slice

\* Mutant: the slice is counted, but its end moves no thread.
slice_moves_nobody ==
  /\ tick' = FALSE
  /\ elapsed' = IF SliceEnds THEN 0
                ELSE IF Slice > 0 /\ prio[current] >= 0 THEN elapsed + 1 ELSE elapsed
  /\ IntExit(rq)
  /\ UNCHANGED <<prio, flags, slock, tmo, waitq, count>>

\* The rest of _nano_sys_clock_tick_announce(1), and the exit of the interrupt.
\* The move unlinks _current from whatever list its node is on.
tick_announce_end ==
  /\ tick' = FALSE
  /\ elapsed' = IF SliceEnds THEN 0
                ELSE IF Slice > 0 /\ prio[current] >= 0 THEN elapsed + 1 ELSE elapsed
  /\ waitq' = IF SliceEnds THEN sys_dlist_remove(waitq, current) ELSE waitq
  /\ IntExit(IF SliceEnds THEN move_thread_to_end_of_prio_q(rq, prio, current) ELSE rq)
  /\ UNCHANGED <<prio, flags, slock, tmo, count>>

(***************************************************************************)
(* The specification                                                       *)
(***************************************************************************)

\* prepare_multithreading() and switch_to_main_thread()
Init ==
  /\ prio = [t \in Thread |-> IF t = Idle THEN IdlePrio ELSE MainPrio]
  /\ flags = [t \in Thread |-> IF t \in {Idle, Main} THEN {} ELSE {"DEAD"}]
  /\ slock = [t \in Thread |-> 0]
  /\ tmo = [t \in Thread |-> FALSE]
  /\ waitq = << >> /\ count = 0
  /\ rq = [q     |-> [p \in Prio |-> IF p = IdlePrio THEN <<Idle>>
                                     ELSE IF p = MainPrio THEN <<Main>> ELSE << >>],
           bmap  |-> {IdlePrio, MainPrio},
           cache |-> IF DeferredSwap THEN NULL ELSE Main]
  /\ current = Main
  /\ pendsv = FALSE /\ tick = FALSE /\ elapsed = 0

ThreadStep ==
  \/ k_sched_lock \/ k_sched_unlock \/ k_yield \/ k_sleep
  \/ k_sem_take_available \/ k_sem_give
  \/ \E forever \in BOOLEAN : k_sem_take_pend(forever)
  \/ \E t \in Thread :
       \/ k_wakeup(t) \/ k_thread_suspend(t) \/ k_thread_resume(t)
       \/ k_thread_cancel(t) \/ k_thread_abort(t)
       \/ \E p \in AppPrio :
            \/ k_thread_priority_set(t, p)
            \/ \E delayed \in BOOLEAN : k_thread_spawn(t, p, delayed)

IsrStep ==
  \/ isr_k_sem_give
  \/ tick_announce_end
  \/ \E t \in Thread : isr_k_wakeup(t) \/ handle_one_timeout(t)

Next == ThreadStep \/ IsrStep \/ PendSV

Spec == Init /\ [][Next]_vars

\* Ticks keep coming: the clock driver's interrupt is periodic, and no kernel
\* code keeps interrupts locked for ever.
FairSpec == Spec /\ WF_vars(tick_announce_end)

(***************************************************************************)
(* Properties                                                              *)
(***************************************************************************)

\* The ready queue mirrors the state of the threads: a thread is linked on the
\* list of its priority, once, exactly when _is_thread_ready() says it is ready,
\* it is on no other list, and the bitmap has the bits of the non-empty lists.
\* Every caller of _add/_remove_thread_to_ready_q() relies on it.
ReadyQMirrorsThreads ==
  /\ \A t \in Thread, p \in Prio : Linked(rq.q[p], t) <=> Ready(t) /\ prio[t] = p
  /\ \A p \in Prio : NoDup(rq.q[p])
  /\ rq.bmap = {p \in Prio : rq.q[p] # << >>}

\* _ready_q.cache, when set, is what __get_next_ready_thread() would find: the
\* head of the highest non-empty list, whatever was readied, moved or removed
\* since it was filled.
CacheIsNext ==
  rq.cache # NULL =>
    /\ rq.bmap # {}
    /\ rq.q[get_highest_ready_prio(rq)] # << >>
    /\ rq.cache = Head(rq.q[get_highest_ready_prio(rq)])

\* No preemption is missed: when a thread (not the tick handler, not PendSV)
\* has the CPU, it is ready and, if it is preemptible, no thread of a higher
\* priority is ready.  Every path that readies a thread, lowers the priority of
\* the current one or unlocks the scheduler must end in the right reschedule.
NoMissedPreemption ==
  ~pendsv /\ ~tick =>
    /\ Ready(current)
    /\ is_preempt(prio[current], slock[current]) =>
         \A t \in Thread : Ready(t) => ~is_prio_higher(prio[t], prio[current])

\* The wait queue holds exactly the pending threads, once each, and a thread
\* waits only while the semaphore has no unit to give: give, timeout, abort and
\* suspension leave no ghost waiter and lose no wakeup.
WaitersMatchSemaphore ==
  /\ \A t \in Thread : Linked(waitq, t) <=> "PENDING" \in flags[t]
  /\ NoDup(waitq)
  /\ waitq # << >> => count = 0

\* Time slicing is round robin: a preemptible thread that stays ready, with none
\* of higher priority ready, gets the CPU again and again, however the threads
\* of its priority come and go (handle_time_slicing()).  A thread that keeps the
\* scheduler locked, or that is sent to the end of its list by every change of its
\* priority, is another matter: the run leaves these calls out.
RoundRobin ==
  \A t \in Thread :
    <>[](Ready(t) /\ prio[t] >= 0 /\ \A u \in Thread : Ready(u) => prio[u] >= prio[t])
      => []<>(current = t)

\* k_thread_suspend() prevents the scheduler from making the thread the current
\* one: a thread that has the CPU is not suspended.
SuspendedNeverRuns == ~pendsv /\ ~tick => "SUSPENDED" \notin flags[current]
=============================================================================
