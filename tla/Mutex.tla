------------------------------- MODULE Mutex -------------------------------
(***************************************************************************)
(* Mutexes with priority inheritance (mutex.c), and as much of the         *)
(* scheduler as decides which thread is inside the mutex code: strict      *)
(* priority among ready threads, in any order among equals, cooperative    *)
(* threads and threads that hold the scheduler lock not being preempted.   *)
(*                                                                         *)
(* k_mutex_lock() and k_mutex_unlock() run with the scheduler locked, so   *)
(* only the tick interrupt comes between their steps.  They are split      *)
(* where it matters: at the context switch and between the unprotected     *)
(* read of the wait queue and its use.                                     *)
(***************************************************************************)
EXTENDS DList, FiniteSets

CONSTANTS
  Thread, Mtx, NULL,
  AppPrio,      \* priorities the threads may have
  Ceiling,      \* CONFIG_PRIORITY_CEILING
  MaxCount,     \* bound on the recursion of a lock
  MaxHeld,      \* how many mutexes a thread holds at once
  TimedWaits    \* whether waits have timeouts

ASSUME MutexAssumption ==
  /\ AppPrio \subseteq Int /\ Ceiling \in Int
  /\ MaxCount \in Nat \ {0} /\ MaxHeld \in Nat \ {0}
  /\ NULL \notin Thread \cup Mtx /\ Thread \cap Mtx = {} /\ "sleep" \notin Mtx \cup {NULL}
  /\ IsFiniteSet(Mtx)
  /\ TimedWaits \in BOOLEAN

VARIABLES
  mutex,     \* [owner, lock_count, owner_orig_prio, wait_q] of each mutex
  prio,      \* base.prio
  base,      \* history: the priority a thread has before it locks anything
  blk,       \* what a thread is blocked on: a mutex, "sleep" or NULL
  tmo,       \* its timeout is armed
  loc,       \* where it is in k_mutex_lock(): [at, m, ret, new_prio]
  current,   \* _current, NULL for the idle thread
  faulted    \* the owner of a mutex without one was dereferenced

vars == <<mutex, prio, base, blk, tmo, loc, current, faulted>>

\* "run": outside; "swap": _Swap() of k_mutex_lock() is to return ret, 0 if the
\* thread was given the mutex; "peeked": timed out, new_prio computed.
NotLocking == [at |-> "run"]

Ready(bl, t) == bl[t] = NULL

is_prio_higher(p1, p2) == p1 < p2

\* The scheduler is locked from the start to the end of k_mutex_lock().
is_preempt(pr, lo, t) == pr[t] >= 0 /\ lo[t] = NotLocking

Highest(pr, bl) == {t \in Thread : Ready(bl, t) /\ \A u \in Thread : Ready(bl, u) => pr[t] <= pr[u]}

\* _Swap(): one of the ready threads of the highest priority, or idle
Swap(pr, bl) ==
  current' \in IF Highest(pr, bl) = {} THEN {NULL} ELSE Highest(pr, bl)

\* k_sched_unlock() and the exit of an interrupt
Reschedule(pr, bl, lo) ==
  IF /\ current # NULL
     /\ Ready(bl, current)
     /\ is_preempt(pr, lo, current) =>
          \A u \in Thread : Ready(bl, u) => ~is_prio_higher(pr[u], pr[current])
  THEN UNCHANGED current ELSE Swap(pr, bl)

get_new_prio_with_ceiling(p) == IF p >= Ceiling THEN p ELSE Ceiling

new_prio_for_inheritance(target, limit) ==
  get_new_prio_with_ceiling(IF is_prio_higher(target, limit) THEN target ELSE limit)

\* adjust_owner_prio(): the priorities it leaves.  A blocked owner keeps its place
\* in the wait queue it is on.
adjust_owner_prio(m, new) == [prio EXCEPT ![mutex[m].owner] = new]

Owned(t) == {m \in Mtx : mutex[m].owner = t}

\* The current thread runs code of the application.
Call == ~faulted /\ current # NULL /\ loc[current] = NotLocking

Init ==
  /\ mutex = [m \in Mtx |-> [owner |-> NULL, lock_count |-> 0,
                             owner_orig_prio |-> 0, wait_q |-> << >>]]
  /\ prio \in [Thread -> AppPrio] /\ base = prio
  /\ blk = [t \in Thread |-> NULL]
  /\ tmo = [t \in Thread |-> FALSE]
  /\ loc = [t \in Thread |-> NotLocking]
  /\ current \in Highest(prio, blk)
  /\ faulted = FALSE

\* Mutant: a nested lock records the inherited priority as the original one.
lock_records_always(m) ==
  /\ Call /\ (mutex[m].lock_count = 0 \/ mutex[m].owner = current)
  /\ mutex[m].lock_count < MaxCount
  /\ Cardinality(Owned(current) \cup {m}) <= MaxHeld
  /\ mutex' = [mutex EXCEPT ![m].owner = current, ![m].lock_count = @ + 1,
                            ![m].owner_orig_prio = prio[current]]
  /\ Reschedule(prio, blk, loc)
  /\ UNCHANGED <<base, prio, blk, tmo, loc, faulted>>

\* k_mutex_lock() of a mutex that is free or the caller's own
k_mutex_lock(m) ==
  /\ Call /\ (mutex[m].lock_count = 0 \/ mutex[m].owner = current)
  /\ mutex[m].lock_count < MaxCount
  /\ Cardinality(Owned(current) \cup {m}) <= MaxHeld
  /\ mutex' = [mutex EXCEPT ![m].owner = current, ![m].lock_count = @ + 1,
                            ![m].owner_orig_prio =
                               IF mutex[m].lock_count = 0 THEN prio[current] ELSE @]
  /\ Reschedule(prio, blk, loc)
  /\ UNCHANGED <<base, prio, blk, tmo, loc, faulted>>

\* _pend_thread()
WaitInsert(wq, t) ==
  sys_dlist_insert_at(wq, t, {w \in Thread : is_prio_higher(prio[t], prio[w])})

\* k_mutex_lock() of another thread's mutex, up to the context switch
k_mutex_lock_wait(m, forever) ==
  /\ Call /\ mutex[m].lock_count # 0 /\ mutex[m].owner # current
  /\ Cardinality(Owned(current)) < MaxHeld
  /\ forever \/ TimedWaits
  /\ prio' = adjust_owner_prio(m, new_prio_for_inheritance(prio[current],
                                                           prio[mutex[m].owner]))
  /\ mutex' = [mutex EXCEPT ![m].wait_q = WaitInsert(@, current)]
  /\ blk' = [blk EXCEPT ![current] = m]
  /\ tmo' = [tmo EXCEPT ![current] = ~forever]
  /\ loc' = [loc EXCEPT ![current] = [at |-> "swap", m |-> m, ret |-> -1]]
  /\ Swap(prio', blk')
  /\ UNCHANGED <<base, faulted>>

\* k_mutex_lock() after the switch: the thread was given the mutex ...
k_mutex_lock_got ==
  /\ ~faulted /\ current # NULL
  /\ loc[current].at = "swap" /\ loc[current].ret = 0
  /\ loc' = [loc EXCEPT ![current] = NotLocking]
  /\ Reschedule(prio, blk, loc')
  /\ UNCHANGED <<base, mutex, prio, blk, tmo, faulted>>

\* ... or it timed out: the new priority of the owner, read with interrupts open ...
k_mutex_lock_peek ==
  /\ ~faulted /\ current # NULL
  /\ loc[current].at = "swap" /\ loc[current].ret # 0
  /\ LET mx   == mutex[loc[current].m]
         orig == mx.owner_orig_prio
         new  == IF mx.wait_q = << >> THEN orig
                 ELSE new_prio_for_inheritance(prio[Head(mx.wait_q)], orig)
     IN  loc' = [loc EXCEPT ![current] = [at |-> "peeked", m |-> @.m, new_prio |-> new]]
  /\ UNCHANGED <<base, mutex, prio, blk, tmo, current, faulted>>

\* Mutant: the wait is given up without a word to the owner.
timeout_no_adjust ==
  /\ ~faulted /\ current # NULL /\ loc[current].at = "peeked"
  /\ loc' = [loc EXCEPT ![current] = NotLocking]
  /\ Reschedule(prio, blk, loc')
  /\ UNCHANGED <<base, mutex, prio, blk, tmo, faulted>>

\* ... and set, whoever the owner is by now.  If there is none, what is read through
\* the null pointer equals the new priority by chance, or a wild thread is adjusted.
k_mutex_lock_timed_out ==
  /\ ~faulted /\ current # NULL /\ loc[current].at = "peeked"
  /\ \/ /\ mutex[loc[current].m].owner # NULL
        /\ prio' = adjust_owner_prio(loc[current].m, loc[current].new_prio)
        /\ UNCHANGED faulted
     \/ /\ mutex[loc[current].m].owner = NULL
        /\ faulted' \in BOOLEAN
        /\ UNCHANGED prio
  /\ loc' = [loc EXCEPT ![current] = NotLocking]
  /\ Reschedule(prio', blk, loc')
  /\ UNCHANGED <<base, mutex, blk, tmo>>

\* k_mutex_unlock() by the owner: the last unlock hands the mutex to the first
\* waiter, before that thread gets to run.
k_mutex_unlock(m) ==
  /\ Call /\ mutex[m].owner = current /\ mutex[m].lock_count > 0
  /\ LET mx  == mutex[m]
         new == Head(mx.wait_q)
     IN  \/ /\ mx.lock_count > 1
            /\ mutex' = [mutex EXCEPT ![m].lock_count = @ - 1]
            /\ UNCHANGED <<prio, blk, tmo, loc>>
         \/ /\ mx.lock_count = 1 /\ mx.wait_q = << >>
            /\ prio' = adjust_owner_prio(m, mx.owner_orig_prio)
            /\ mutex' = [mutex EXCEPT ![m].lock_count = 0, ![m].owner = NULL]
            /\ UNCHANGED <<blk, tmo, loc>>
         \/ /\ mx.lock_count = 1 /\ mx.wait_q # << >>
            /\ prio' = adjust_owner_prio(m, mx.owner_orig_prio)
            /\ mutex' = [mutex EXCEPT ![m] =
                           [owner |-> new, lock_count |-> 1,
                            owner_orig_prio |-> prio'[new], wait_q |-> Tail(@.wait_q)]]
            /\ blk' = [blk EXCEPT ![new] = NULL]
            /\ tmo' = [tmo EXCEPT ![new] = FALSE]
            /\ loc' = [loc EXCEPT ![new].ret = 0]
  /\ Reschedule(prio', blk', loc')
  /\ UNCHANGED <<base, faulted>>

\* k_sleep(): another thread gets the CPU, also one of lower priority.
k_sleep ==
  /\ Call
  /\ blk' = [blk EXCEPT ![current] = "sleep"]
  /\ tmo' = [tmo EXCEPT ![current] = TRUE]
  /\ Swap(prio, blk')
  /\ UNCHANGED <<base, mutex, prio, loc, faulted>>

\* k_yield(), or the end of a time slice
k_yield ==
  /\ Call
  /\ Swap(prio, blk)
  /\ UNCHANGED <<base, mutex, prio, blk, tmo, loc, faulted>>

\* Mutant: the thread that timed out stays on the wait queue.
timeout_keeps_waiter(t) ==
  /\ ~faulted /\ tmo[t]
  /\ tmo' = [tmo EXCEPT ![t] = FALSE]
  /\ blk' = [blk EXCEPT ![t] = NULL]
  /\ Reschedule(prio, blk', loc)
  /\ UNCHANGED <<base, mutex, prio, loc, faulted>>

\* The tick at which t's sleep or wait times out
handle_one_timeout(t) ==
  /\ ~faulted /\ tmo[t]
  /\ tmo' = [tmo EXCEPT ![t] = FALSE]
  /\ blk' = [blk EXCEPT ![t] = NULL]
  /\ mutex' = [m \in Mtx |-> [mutex[m] EXCEPT !.wait_q = sys_dlist_remove(@, t)]]
  /\ Reschedule(prio, blk', loc)
  /\ UNCHANGED <<base, prio, loc, faulted>>

Next ==
  \/ k_mutex_lock_got \/ k_mutex_lock_peek \/ k_mutex_lock_timed_out
  \/ k_sleep \/ k_yield
  \/ \E m \in Mtx : k_mutex_lock(m) \/ k_mutex_unlock(m)
                      \/ \E forever \in BOOLEAN : k_mutex_lock_wait(m, forever)
  \/ \E t \in Thread : handle_one_timeout(t)

Spec == Init /\ [][Next]_vars

(***************************************************************************)
(* Properties                                                              *)
(***************************************************************************)

\* Threads that timed out on m and have not adjusted its owner's priority yet
GivingUp(m) ==
  {t \in Thread : loc[t].at # "run" /\ loc[t].m = m /\ blk[t] = NULL
                    /\ (loc[t].at = "swap" => loc[t].ret # 0)}

WaitersOf(m) == {t \in Thread : Linked(mutex[m].wait_q, t)}

\* The mutex is never lost and never doubled: it has an owner exactly while it is
\* locked, its wait queue holds the threads blocked on it, once each, and they
\* wait only while some thread is there to hand it over; a thread for which
\* _Swap() returns 0 does own it.
LockConsistent ==
  \A m \in Mtx :
    /\ mutex[m].owner # NULL <=> mutex[m].lock_count > 0
    /\ NoDup(mutex[m].wait_q)
    /\ WaitersOf(m) = {t \in Thread : blk[t] = m}
    /\ mutex[m].wait_q # << >> => mutex[m].owner # NULL
    /\ \A t \in Thread : loc[t].at = "swap" /\ loc[t].m = m /\ loc[t].ret = 0
                           => mutex[m].owner = t

\* No priority inversion: the owner of a mutex runs at the priority of its most
\* urgent waiter or at its own; exactly that, unless a thread that has timed out
\* is still to lower it.  Threads hold one mutex at a time and the priorities
\* are below the ceiling.
OwnerInherits ==
  \A m \in Mtx : mutex[m].owner # NULL =>
    LET o == mutex[m].owner
        all == {mutex[m].owner_orig_prio} \cup {prio[t] : t \in WaitersOf(m)}
    IN  /\ \A p \in all : prio[o] <= p
        /\ GivingUp(m) = {} => prio[o] \in all

\* A thread that holds no mutex has its own priority again: what it inherited is
\* given back in full, through nested locks, timeouts and handovers.
PriorityRestored == \A t \in Thread : Owned(t) = {} => prio[t] = base[t]
=============================================================================
