------------------------------ MODULE SemGroup ------------------------------
(***************************************************************************)
(* Semaphores and semaphore groups (sem.c).  A thread that waits for one   *)
(* of several semaphores puts a dummy thread on the wait queue of each,    *)
(* and itself nowhere that a give would find it; the give that reaches a   *)
(* dummy takes the others back and readies the thread.                     *)
(*                                                                         *)
(* Calls run with interrupts locked up to the context switch.  The gives   *)
(* of k_sem_group_give() are one action each, with nothing in between.     *)
(* Threads are interleaved freely.  What happens to a semaphore's waiters  *)
(* under preemption and time slicing is the business of Sched.tla.         *)
(*                                                                         *)
(* The array of a group names each semaphore once.                         *)
(***************************************************************************)
EXTENDS DList, FiniteSets

CONSTANTS
  Thread, Sem, NULL,
  SemLimit,     \* sem->limit
  AppPrio,      \* priorities of the threads
  SemArray      \* the arrays a thread may name: sequences of semaphores

ASSUME SemGroupAssumption ==
  /\ SemLimit \in Nat \ {0} /\ AppPrio \subseteq Int /\ NULL \notin Sem
  /\ \A a \in SemArray : a \in Seq(Sem) /\ Len(a) > 0 /\ NoDup(a)

VARIABLES
  count,     \* sem->count
  wait_q,    \* sem->wait_q: threads, and dummies of threads: [thread, dummy]
  st,        \* where each thread is: [at, list, ret]
  giving,    \* the semaphores k_sem_group_give() has yet to give
  prio       \* base.prio

vars == <<count, wait_q, st, giving, prio>>

\* "run": outside; "take": pended on one semaphore; "group": pended with a dummy on
\* each semaphore of list; "woken": to return ret, with the semaphores left on list.
Running == [at |-> "run", list |-> {}, ret |-> 0]
Woken(S, r) == [at |-> "woken", list |-> S, ret |-> r]
EAGAIN == -11
Locked == giving # << >>

Members(a) == {a[i] : i \in 1..Len(a)}

\* k_sem_init() with a count of zero
Init ==
  /\ count = [s \in Sem |-> 0]
  /\ wait_q = [s \in Sem |-> << >>]
  /\ st = [t \in Thread |-> Running]
  /\ giving = << >>
  /\ prio \in [Thread -> AppPrio]

(***************************************************************************)
(* Taking                                                                  *)
(***************************************************************************)

\* _pend_thread() of w, by the priority it was given when it was initialised
WaitInsert(q, w) ==
  sys_dlist_insert_at(q, w, {[thread |-> u, dummy |-> d] :
    u \in {v \in Thread : prio[w.thread] < prio[v]}, d \in BOOLEAN})

Available(a) == {i \in 1..Len(a) : count[a[i]] > 0}
FirstAvailable(a) == a[CHOOSE i \in Available(a) : \A j \in Available(a) : i <= j]

\* k_sem_group_take(), and k_sem_take() of one semaphore, that need not wait
take_available(t, a) ==
  /\ ~Locked /\ st[t] = Running /\ Available(a) # {}
  /\ count' = [count EXCEPT ![FirstAvailable(a)] = @ - 1]
  /\ st' = [st EXCEPT ![t] = Woken({FirstAvailable(a)}, 0)]
  /\ UNCHANGED <<wait_q, giving, prio>>

k_sem_take(t, s) ==
  /\ ~Locked /\ st[t] = Running /\ count[s] = 0
  /\ wait_q' = [wait_q EXCEPT ![s] = WaitInsert(@, [thread |-> t, dummy |-> FALSE])]
  /\ st' = [st EXCEPT ![t] = [at |-> "take", list |-> {s}, ret |-> 0]]
  /\ UNCHANGED <<count, giving, prio>>

\* k_sem_group_take() that waits, with a dummy thread of its priority on each queue
k_sem_group_take(t, a) ==
  /\ ~Locked /\ st[t] = Running /\ Available(a) = {}
  /\ wait_q' = [s \in Sem |-> IF s \in Members(a)
                              THEN WaitInsert(wait_q[s], [thread |-> t, dummy |-> TRUE])
                              ELSE wait_q[s]]
  /\ st' = [st EXCEPT ![t] = [at |-> "group", list |-> Members(a), ret |-> 0]]
  /\ UNCHANGED <<count, giving, prio>>

(***************************************************************************)
(* Giving                                                                  *)
(***************************************************************************)

\* Mutant: the dummies on the other semaphores are left where they are.
dummies_left(s, t) ==
  /\ wait_q' = [wait_q EXCEPT ![s] = Tail(@)]
  /\ st' = [st EXCEPT ![t] = Woken({s}, 0)]

\* handle_sem_group(): the thread of the dummy that s was given to is made ready,
\* and the dummies on the other semaphores of its list are taken back.
handle_sem_group(s, t) ==
  /\ wait_q' = [u \in Sem |->
       IF u = s THEN Tail(wait_q[s])
       ELSE IF u \in st[t].list
            THEN sys_dlist_remove(wait_q[u], [thread |-> t, dummy |-> TRUE]) ELSE wait_q[u]]
  /\ st' = [st EXCEPT ![t] = Woken({s}, 0)]

\* Mutant: the semaphore is counted as well as handed to the waiting thread.
count_too(s) ==
  IF wait_q[s] = << >>
  THEN /\ count' = [count EXCEPT ![s] = IF @ = SemLimit THEN @ ELSE @ + 1]
       /\ UNCHANGED <<wait_q, st>>
  ELSE /\ LET w == Head(wait_q[s]) IN
          IF w.dummy THEN handle_sem_group(s, w.thread)
          ELSE /\ wait_q' = [wait_q EXCEPT ![s] = Tail(@)]
               /\ st' = [st EXCEPT ![w.thread] = Woken({s}, 0)]
       /\ count' = [count EXCEPT ![s] = IF @ = SemLimit THEN @ ELSE @ + 1]

sem_give_common(s) ==
  IF wait_q[s] = << >>
  THEN /\ count' = [count EXCEPT ![s] = IF @ = SemLimit THEN @ ELSE @ + 1]
       /\ UNCHANGED <<wait_q, st>>
  ELSE /\ LET w == Head(wait_q[s]) IN
          IF w.dummy THEN handle_sem_group(s, w.thread)
          ELSE /\ wait_q' = [wait_q EXCEPT ![s] = Tail(@)]
               /\ st' = [st EXCEPT ![w.thread] = Woken({s}, 0)]
       /\ UNCHANGED count

\* k_sem_give(), by a thread or an ISR
k_sem_give(s) == ~Locked /\ sem_give_common(s) /\ UNCHANGED <<giving, prio>>

\* k_sem_group_give() locks interrupts, and gives the semaphores in turn.
k_sem_group_give(a) ==
  ~Locked /\ Len(a) > 1 /\ giving' = a /\ UNCHANGED <<count, wait_q, st, prio>>

group_give_next ==
  /\ Locked
  /\ sem_give_common(Head(giving))
  /\ giving' = Tail(giving)
  /\ UNCHANGED prio

\* k_sem_group_reset(), and k_sem_reset() of one
k_sem_group_reset(a) ==
  /\ ~Locked
  /\ count' = [s \in Sem |-> IF s \in Members(a) THEN 0 ELSE count[s]]
  /\ UNCHANGED <<wait_q, st, giving, prio>>

(***************************************************************************)
(* Timeouts and returns                                                    *)
(***************************************************************************)

\* _handle_one_timeout() of the thread and of its dummies.  They were put on the
\* timeout queue together, and so expire one after the other in one tick.
times_out(t) ==
  /\ ~Locked /\ st[t].at \in {"take", "group"}
  /\ wait_q' = [s \in Sem |-> sys_dlist_remove(wait_q[s],
                                [thread |-> t, dummy |-> st[t].at = "group"])]
  /\ st' = [st EXCEPT ![t] = Woken({}, EAGAIN)]
  /\ UNCHANGED <<count, giving, prio>>

\* The end of the call, with the semaphore left on the list in *sem
return(t) ==
  /\ ~Locked /\ st[t].at = "woken"
  /\ st' = [st EXCEPT ![t] = Running]
  /\ UNCHANGED <<count, wait_q, giving, prio>>

Next ==
  \/ \E t \in Thread, a \in SemArray : take_available(t, a) \/ k_sem_group_take(t, a)
  \/ \E t \in Thread, s \in Sem : k_sem_take(t, s)
  \/ \E s \in Sem : k_sem_give(s)
  \/ \E a \in SemArray : k_sem_group_give(a) \/ k_sem_group_reset(a)
  \/ group_give_next
  \/ \E t \in Thread : times_out(t) \/ return(t)

Spec == Init /\ [][Next]_vars

(***************************************************************************)
(* Properties                                                              *)
(***************************************************************************)

Places(t, s, d) == {i \in 1..Len(wait_q[s]) : wait_q[s][i] = [thread |-> t, dummy |-> d]}

\* A thread that waits for a group has one dummy on the queue of each of its
\* semaphores and on no other, and a thread that does not wait has none: a dummy
\* lives on the stack of its thread, and a queue that still held one after the call
\* has returned would hold a dangling node.
DummiesMatchWaits ==
  \A t \in Thread, s \in Sem :
    /\ Cardinality(Places(t, s, TRUE)) = IF st[t].at = "group" /\ s \in st[t].list THEN 1 ELSE 0
    /\ Cardinality(Places(t, s, FALSE)) = IF st[t].at = "take" /\ s \in st[t].list THEN 1 ELSE 0

\* Every give is counted or granted to one thread, once, and ends its wait for the
\* whole group: the dummies implement waits for sets of semaphores.
Granted(t) == IF st[t].at = "woken" /\ st[t].ret = 0 THEN CHOOSE s \in st[t].list : TRUE ELSE NULL

Waits == INSTANCE MultiWait WITH
  want <- [t \in Thread |-> IF st[t].at \in {"take", "group"} THEN st[t].list ELSE {}],
  got <- [t \in Thread |-> Granted(t)]

ImplementsMultiWait == Waits!Spec
=============================================================================
