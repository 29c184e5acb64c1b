---------------------------- MODULE SchedProofs ----------------------------
(***************************************************************************)
(* Proofs about the scheduler of Sched.tla, for any number of threads and  *)
(* priorities, any time slice and any order of calls and interrupts.       *)
(***************************************************************************)
EXTENDS Sched, DListProofs

\* The ready queue r is right for the priorities pr and the set R of ready
\* threads; the cache is characterised without CHOOSE.
RQ(r, pr, R) ==
  /\ r \in [q : [Prio -> Seq(Thread)], bmap : SUBSET Prio, cache : Thread \cup {NULL}]
  /\ \A t \in Thread, p \in Prio : Linked(r.q[p], t) <=> t \in R /\ pr[t] = p
  /\ \A p \in Prio : NoDup(r.q[p])
  /\ r.bmap = {p \in Prio : r.q[p] # << >>}
  /\ r.cache # NULL => /\ r.cache \in R
                       /\ \A u \in R : pr[r.cache] <= pr[u]
                       /\ r.q[pr[r.cache]][1] = r.cache

\* Priorities are integers, and those of idle and of the application are among them.
LEMMA PrioInt == Prio \subseteq Int /\ IdlePrio \in Prio /\ AppPrio \subseteq Prio
BY SchedAssumption DEF Prio, IdlePrio

\* A list with a node on it is not empty, and conversely has a head that is on it.
LEMMA LinkedNonEmpty ==
  ASSUME NEW T, NEW s \in Seq(T)
  PROVE  /\ \A x : Linked(s, x) => s # << >>
         /\ s # << >> => /\ s[1] \in T /\ Linked(s, s[1]) /\ Head(s) = s[1]
                         /\ Tail(s) \in Seq(T)
<1>1. Len(s) \in Nat
  BY LenProperties
<1>2. ASSUME s # << >> PROVE 1 \in 1..Len(s)
  BY <1>1, <1>2, EmptySeq
<1>3. ASSUME NEW x, Linked(s, x) PROVE s # << >>
  BY <1>3, EmptySeq DEF Linked
<1>4. ASSUME s # << >>
      PROVE  s[1] \in T /\ Linked(s, s[1]) /\ Head(s) = s[1] /\ Tail(s) \in Seq(T)
  BY <1>2, <1>4, ElementOfSeq, HeadTailProperties DEF Linked
<1> QED BY <1>3, <1>4

\* _add_thread_to_ready_q() of a thread that was not ready
LEMMA AddPreserves ==
  ASSUME NEW r, NEW pr \in [Thread -> Prio], NEW R \in SUBSET Thread,
         RQ(r, pr, R), NEW t \in Thread, t \notin R
  PROVE  RQ(add_thread_to_ready_q(r, pr, t), pr, R \cup {t})
<1> DEFINE n == add_thread_to_ready_q(r, pr, t)
           s == r.q[pr[t]]
           a == sys_dlist_append(s, t)
<1>1. s \in Seq(Thread) /\ pr[t] \in Prio
  BY DEF RQ
<1>2. /\ n.q = [r.q EXCEPT ![pr[t]] = a]
      /\ n.bmap = r.bmap \cup {pr[t]}
      /\ n.cache = IF r.cache # NULL /\ pr[t] < pr[r.cache] THEN t ELSE r.cache
      /\ n = [q |-> n.q, bmap |-> n.bmap, cache |-> n.cache]
  BY DEF add_thread_to_ready_q, is_prio_higher
<1>3. /\ a \in Seq(Thread) /\ a # << >>
      /\ \A x : Linked(a, x) <=> Linked(s, x) \/ x = t
      /\ NoDup(s) /\ ~Linked(s, t) => NoDup(a)
      /\ s # << >> => a[1] = s[1]
      /\ s = << >> => a[1] = t
  <2> HIDE DEF a, s, n
  <2> QED BY <1>1, AppendProps DEF a
<1> HIDE DEF n, a
<1>5. /\ n.q \in [Prio -> Seq(Thread)]
      /\ n.q[pr[t]] = a /\ \A p \in Prio : p # pr[t] => n.q[p] = r.q[p]
  BY <1>1, <1>2, <1>3 DEF RQ
<1>6. n \in [q : [Prio -> Seq(Thread)], bmap : SUBSET Prio, cache : Thread \cup {NULL}]
  <2>1. n.bmap \in SUBSET Prio /\ n.cache \in Thread \cup {NULL}
    BY <1>1, <1>2 DEF RQ
  <2> QED BY <2>1, <1>2, <1>5
<1>7. \A x \in Thread, p \in Prio : Linked(n.q[p], x) <=> x \in R \cup {t} /\ pr[x] = p
  <2> SUFFICES ASSUME NEW x \in Thread, NEW p \in Prio
               PROVE  Linked(n.q[p], x) <=> x \in R \cup {t} /\ pr[x] = p
    OBVIOUS
  <2>1. CASE p = pr[t]
    BY <2>1, <1>3, <1>5 DEF RQ
  <2>2. CASE p # pr[t]
    BY <2>2, <1>5 DEF RQ
  <2> QED BY <2>1, <2>2
<1>8. \A p \in Prio : NoDup(n.q[p])
  BY <1>1, <1>3, <1>5 DEF RQ
<1>9. n.bmap = {p \in Prio : n.q[p] # << >>}
  BY <1>1, <1>2, <1>3, <1>5 DEF RQ
<1>10. ASSUME n.cache # NULL
       PROVE  /\ n.cache \in R \cup {t}
              /\ \A u \in R \cup {t} : pr[n.cache] <= pr[u]
              /\ n.q[pr[n.cache]][1] = n.cache
  <2> \A p, q \in Prio : p \in Int /\ q \in Int
    BY PrioInt
  <2>1. CASE r.cache # NULL /\ pr[t] < pr[r.cache]
    <3>1. n.cache = t
      BY <2>1, <1>2
    <3>2. \A u \in R : pr[t] < pr[u]
      BY <2>1 DEF RQ
    <3>3. s = << >>
      <4> SUFFICES ASSUME s # << >> PROVE FALSE
        OBVIOUS
      <4>1. s[1] \in Thread /\ Linked(s, s[1])
        BY <1>1, LinkedNonEmpty
      <4>2. s[1] \in R /\ pr[s[1]] = pr[t]
        BY <4>1, <1>1 DEF RQ
      <4> QED BY <4>2, <3>2, <1>1
    <3> QED BY <3>1, <3>2, <3>3, <1>1, <1>3, <1>5
  <2>2. CASE ~(r.cache # NULL /\ pr[t] < pr[r.cache])
    <3>1. n.cache = r.cache /\ r.cache \in R /\ r.cache # NULL
      BY <2>2, <1>2, <1>10 DEF RQ
    <3>2. pr[r.cache] <= pr[t]
      BY <2>2, <3>1
    <3>3. \A u \in R \cup {t} : pr[n.cache] <= pr[u]
      BY <3>1, <3>2 DEF RQ
    <3>4. r.q[pr[r.cache]] # << >>
      BY <3>1, LinkedNonEmpty DEF RQ
    <3>5. n.q[pr[n.cache]][1] = n.cache
      <4>1. CASE pr[r.cache] = pr[t]
        BY <4>1, <3>1, <3>4, <1>3, <1>5 DEF RQ
      <4>2. CASE pr[r.cache] # pr[t]
        BY <4>2, <3>1, <1>5 DEF RQ
      <4> QED BY <4>1, <4>2
    <3> QED BY <3>1, <3>3, <3>5
  <2> QED BY <2>1, <2>2
<1>11. RQ(n, pr, R \cup {t})
  BY <1>6, <1>7, <1>8, <1>9, <1>10 DEF RQ
<1> QED BY <1>11 DEF n

\* _remove_thread_from_ready_q() of a ready thread
LEMMA RemovePreserves ==
  ASSUME NEW r, NEW pr \in [Thread -> Prio], NEW R \in SUBSET Thread,
         RQ(r, pr, R), NEW t \in R
  PROVE  RQ(remove_thread_from_ready_q(r, pr, t), pr, R \ {t})
<1> DEFINE n == remove_thread_from_ready_q(r, pr, t)
           s == r.q[pr[t]]
           a == sys_dlist_remove(s, t)
<1>1. s \in Seq(Thread) /\ pr[t] \in Prio /\ NoDup(s) /\ Linked(s, t)
  BY DEF RQ
<1>2. /\ n.q = [r.q EXCEPT ![pr[t]] = a]
      /\ n.bmap = IF a = << >> THEN r.bmap \ {pr[t]} ELSE r.bmap
      /\ n.cache = IF r.cache = t THEN NULL ELSE r.cache
      /\ n = [q |-> n.q, bmap |-> n.bmap, cache |-> n.cache]
  BY DEF remove_thread_from_ready_q, sys_dlist_is_empty
<1>3. /\ a \in Seq(Thread)
      /\ \A x : Linked(a, x) <=> Linked(s, x) /\ x # t
      /\ NoDup(a)
      /\ s[1] # t => a # << >> /\ a[1] = s[1]
  <2> HIDE DEF a, s, n
  <2> QED BY <1>1, RemoveProps DEF a
<1> HIDE DEF n, a
<1>5. /\ n.q \in [Prio -> Seq(Thread)]
      /\ n.q[pr[t]] = a /\ \A p \in Prio : p # pr[t] => n.q[p] = r.q[p]
  BY <1>1, <1>2, <1>3 DEF RQ
<1>6. n \in [q : [Prio -> Seq(Thread)], bmap : SUBSET Prio, cache : Thread \cup {NULL}]
  <2>1. n.bmap \in SUBSET Prio /\ n.cache \in Thread \cup {NULL}
    BY <1>1, <1>2 DEF RQ
  <2> QED BY <2>1, <1>2, <1>5
<1>7. \A x \in Thread, p \in Prio : Linked(n.q[p], x) <=> x \in R \ {t} /\ pr[x] = p
  <2> SUFFICES ASSUME NEW x \in Thread, NEW p \in Prio
               PROVE  Linked(n.q[p], x) <=> x \in R \ {t} /\ pr[x] = p
    OBVIOUS
  <2>1. CASE p = pr[t]
    BY <2>1, <1>3, <1>5 DEF RQ
  <2>2. CASE p # pr[t]
    BY <2>2, <1>5 DEF RQ
  <2> QED BY <2>1, <2>2
<1>8. \A p \in Prio : NoDup(n.q[p])
  BY <1>1, <1>3, <1>5 DEF RQ
<1>9. n.bmap = {p \in Prio : n.q[p] # << >>}
  <2>1. s # << >>
    BY <1>1, LinkedNonEmpty
  <2> QED BY <2>1, <1>1, <1>2, <1>3, <1>5 DEF RQ
<1>10. ASSUME n.cache # NULL
       PROVE  /\ n.cache \in R \ {t}
              /\ \A u \in R \ {t} : pr[n.cache] <= pr[u]
              /\ n.q[pr[n.cache]][1] = n.cache
  <2>1. n.cache = r.cache /\ r.cache \in R \ {t} /\ r.cache # NULL
    BY <1>2, <1>10 DEF RQ
  <2>2. n.q[pr[r.cache]][1] = r.cache
    <3>1. CASE pr[r.cache] = pr[t]
      <4>1. s[1] = r.cache
        BY <3>1, <2>1 DEF RQ
      <4> QED BY <4>1, <3>1, <2>1, <1>1, <1>3, <1>5
    <3>2. CASE pr[r.cache] # pr[t]
      BY <3>2, <2>1, <1>5 DEF RQ
    <3> QED BY <3>1, <3>2
  <2> QED BY <2>1, <2>2 DEF RQ
<1>11. RQ(n, pr, R \ {t})
  BY <1>6, <1>7, <1>8, <1>9, <1>10 DEF RQ
<1> QED BY <1>11 DEF n

\* _move_thread_to_end_of_prio_q() of a ready thread
LEMMA MovePreserves ==
  ASSUME NEW r, NEW pr \in [Thread -> Prio], NEW R \in SUBSET Thread,
         RQ(r, pr, R), NEW t \in R
  PROVE  RQ(move_thread_to_end_of_prio_q(r, pr, t), pr, R)
<1> DEFINE n == move_thread_to_end_of_prio_q(r, pr, t)
           s == r.q[pr[t]]
           a == sys_dlist_remove(s, t)
           b == sys_dlist_append(a, t)
<1>1. s \in Seq(Thread) /\ pr[t] \in Prio /\ NoDup(s) /\ Linked(s, t) /\ t \in Thread
  BY DEF RQ
<1>2. CASE sys_dlist_is_tail(s, t)
  BY <1>2 DEF move_thread_to_end_of_prio_q
<1>3. CASE ~sys_dlist_is_tail(s, t)
  <2>1. /\ n.q = [r.q EXCEPT ![pr[t]] = b]
        /\ n.bmap = r.bmap
        /\ n.cache = IF r.cache = t THEN NULL ELSE r.cache
        /\ n = [q |-> n.q, bmap |-> n.bmap, cache |-> n.cache]
    BY <1>3 DEF move_thread_to_end_of_prio_q
  <2>2. /\ a \in Seq(Thread)
        /\ \A x : Linked(a, x) <=> Linked(s, x) /\ x # t
        /\ NoDup(a)
        /\ s[1] # t => a # << >> /\ a[1] = s[1]
    <3> HIDE DEF a, s, n
    <3> QED BY <1>1, RemoveProps DEF a
  <2>3. /\ b \in Seq(Thread) /\ b # << >>
        /\ \A x : Linked(b, x) <=> Linked(a, x) \/ x = t
        /\ NoDup(b)
        /\ a # << >> => b[1] = a[1]
    <3> HIDE DEF a, b, s, n
    <3> QED BY <1>1, <2>2, AppendProps DEF b
  <2> HIDE DEF n, a, b
  <2>4. /\ n.q \in [Prio -> Seq(Thread)]
        /\ n.q[pr[t]] = b /\ \A p \in Prio : p # pr[t] => n.q[p] = r.q[p]
    BY <1>1, <2>1, <2>3 DEF RQ
  <2>5. n \in [q : [Prio -> Seq(Thread)], bmap : SUBSET Prio, cache : Thread \cup {NULL}]
    <3>1. n.bmap \in SUBSET Prio /\ n.cache \in Thread \cup {NULL}
      BY <2>1 DEF RQ
    <3> QED BY <3>1, <2>1, <2>4
  <2>6. \A x \in Thread, p \in Prio : Linked(n.q[p], x) <=> x \in R /\ pr[x] = p
    <3> SUFFICES ASSUME NEW x \in Thread, NEW p \in Prio
                 PROVE  Linked(n.q[p], x) <=> x \in R /\ pr[x] = p
      OBVIOUS
    <3>1. CASE p = pr[t]
      BY <3>1, <1>1, <2>2, <2>3, <2>4, ZenonT(60) DEF RQ
    <3>2. CASE p # pr[t]
      BY <3>2, <2>4 DEF RQ
    <3> QED BY <3>1, <3>2
  <2>7. \A p \in Prio : NoDup(n.q[p])
    BY <2>3, <2>4 DEF RQ
  <2>8. n.bmap = {p \in Prio : n.q[p] # << >>}
    <3>1. s # << >>
      BY <1>1, LinkedNonEmpty
    <3> QED BY <3>1, <1>1, <2>1, <2>3, <2>4 DEF RQ
  <2>9. ASSUME n.cache # NULL
        PROVE  /\ n.cache \in R
               /\ \A u \in R : pr[n.cache] <= pr[u]
               /\ n.q[pr[n.cache]][1] = n.cache
    <3>1. n.cache = r.cache /\ r.cache \in R \ {t} /\ r.cache # NULL
      BY <2>1, <2>9 DEF RQ
    <3>2. n.q[pr[r.cache]][1] = r.cache
      <4>1. CASE pr[r.cache] = pr[t]
        <5>1. s[1] = r.cache
          BY <4>1, <3>1 DEF RQ
        <5> QED BY <5>1, <4>1, <3>1, <2>2, <2>3, <2>4
      <4>2. CASE pr[r.cache] # pr[t]
        BY <4>2, <3>1, <2>4 DEF RQ
      <4> QED BY <4>1, <4>2
    <3> QED BY <3>1, <3>2 DEF RQ
  <2>10. RQ(n, pr, R)
    BY <2>5, <2>6, <2>7, <2>8, <2>9 DEF RQ
  <2> QED BY <2>10 DEF n
<1> QED BY <1>2, <1>3

\* _get_highest_ready_prio() finds the highest priority of the ready threads,
\* _get_next_ready_thread() a ready thread of that priority, and leaving it in
\* the cache keeps the ready queue right.
LEMMA NextPreserves ==
  ASSUME NEW r, NEW pr \in [Thread -> Prio], NEW R \in SUBSET Thread,
         RQ(r, pr, R), R # {}
  PROVE  /\ get_highest_ready_prio(r) \in r.bmap
         /\ \A u \in R : get_highest_ready_prio(r) <= pr[u]
         /\ get_next_ready_thread(r) \in R
         /\ pr[get_next_ready_thread(r)] = get_highest_ready_prio(r)
         /\ r.q[get_highest_ready_prio(r)] # << >>
         /\ get_next_ready_thread(r) = Head(r.q[get_highest_ready_prio(r)])
         /\ RQ(WithCache(r), pr, R)
<1> DEFINE h == get_highest_ready_prio(r)
           n == get_next_ready_thread(r)
<1>1. r.bmap \in SUBSET Int /\ r.bmap \subseteq Prio /\ \A x \in r.bmap : -NumCoop <= x
  BY PrioInt, SchedAssumption DEF RQ, Prio
<1>2. \A u \in R : pr[u] \in r.bmap
  BY LinkedNonEmpty DEF RQ
<1>3. r.bmap # {} /\ -NumCoop \in Int
  BY <1>2, SchedAssumption
<1>4. \E m \in r.bmap : \A x \in r.bmap : m <= x
  BY <1>1, <1>3, LeastElement
<1>5. h \in r.bmap /\ \A x \in r.bmap : h <= x
  BY <1>4 DEF get_highest_ready_prio
<1> HIDE DEF h
<1>6. \A u \in R : h <= pr[u]
  BY <1>2, <1>5
<1>7. h \in Prio /\ r.q[h] # << >> /\ r.q[h] \in Seq(Thread)
  BY <1>1, <1>5 DEF RQ
<1>8. r.q[h][1] \in R /\ pr[r.q[h][1]] = h /\ Head(r.q[h]) = r.q[h][1]
  BY <1>7, LinkedNonEmpty DEF RQ
<1>9. n = r.q[h][1]
  <2>1. CASE r.cache = NULL
    BY <2>1, <1>8 DEF get_next_ready_thread, h
  <2>2. CASE r.cache # NULL
    <3>1. pr[r.cache] \in r.bmap /\ r.cache \in R
      BY <2>2, <1>2 DEF RQ
    <3>2. h <= pr[r.cache] /\ pr[r.cache] <= h
      BY <3>1, <1>5, <1>8, <2>2 DEF RQ
    <3>3. h = pr[r.cache]
      BY <3>1, <3>2, <1>1, <1>5
    <3> QED BY <3>3, <2>2 DEF get_next_ready_thread, RQ
  <2> QED BY <2>1, <2>2
<1> HIDE DEF n
<1>10. RQ(WithCache(r), pr, R)
  <2> DEFINE w == WithCache(r)
  <2>1. w.q = r.q /\ w.bmap = r.bmap /\ w.cache = n
        /\ w \in [q : [Prio -> Seq(Thread)], bmap : SUBSET Prio, cache : Thread \cup {NULL}]
    BY <1>8, <1>9 DEF WithCache, n, RQ
  <2> HIDE DEF w
  <2>2. RQ(w, pr, R)
    BY <2>1, <1>6, <1>8, <1>9 DEF RQ
  <2> QED BY <2>2 DEF w
<1> QED BY <1>5, <1>6, <1>7, <1>8, <1>9, <1>10 DEF h, n

\* Only the priorities of ready threads matter to the ready queue.
LEMMA PrioPreserves ==
  ASSUME NEW r, NEW pr, NEW pr2, NEW R \in SUBSET Thread, RQ(r, pr, R),
         \A u \in R : pr2[u] = pr[u]
  PROVE  RQ(r, pr2, R)
BY DEF RQ

(***************************************************************************)
(* The inductive invariant                                                 *)
(***************************************************************************)

\* The configurations for which the scheduler is proved right: the application
\* resumes suspended threads only, and time slicing is not combined with a
\* deferred context switch.  k_thread_resume() on a ready thread links it twice, and
\* the run SchedSliceWindow shows what a slice that ends before PendSV does.
SafeConfig == "resume_any" \notin Fns /\ ~(DeferredSwap /\ Slice > 0)

ReadySet == {t \in Thread : Ready(t)}

QInv == RQ(rq, prio, ReadySet)

\* A thread that waits for the semaphore has started and is not dead.
FlagInv == \A t \in Thread : "PENDING" \in flags[t] =>
             "DEAD" \notin flags[t] /\ "PRESTART" \notin flags[t]

\* Outside of the window between _Swap() and PendSV the current thread is ready,
\* and idle always is.
RunInv == /\ Ready(Idle)
          /\ ~pendsv => Ready(current)
          /\ ~DeferredSwap => ~pendsv

IInv == /\ TypeOK /\ QInv /\ WaitersMatchSemaphore /\ FlagInv /\ RunInv
        /\ NoMissedPreemption

\* What the end of a call or of an interrupt establishes, for the priorities pr,
\* the lock counts sl and the ready threads R of the next state
Switched(pr, sl, R) ==
  /\ RQ(rq', pr, R)
  /\ current' \in Thread /\ pendsv' \in BOOLEAN
  /\ ~pendsv' => /\ current' \in R
                 /\ is_preempt(pr[current'], sl[current']) =>
                      \A u \in R : pr[current'] <= pr[u]
  /\ ~DeferredSwap /\ ~pendsv => ~pendsv'

\* _Swap() leaves the CPU with the right thread, or PendSV pending to put it there.
LEMMA SwapSwitched ==
  ASSUME NEW r, NEW pr \in [Thread -> Prio], NEW sl, NEW R \in SUBSET Thread,
         RQ(r, pr, R), R # {}, TypeOK, DeferredSwap \/ ~pendsv, Swap(r)
  PROVE  Switched(pr, sl, R)
<1>1. CASE DeferredSwap
  BY <1>1 DEF Swap, Switched, TypeOK
<1>2. CASE ~DeferredSwap
  <2>1. rq' = WithCache(r) /\ current' = get_next_ready_thread(r) /\ pendsv' = pendsv
    BY <1>2 DEF Swap
  <2>2. /\ current' \in R /\ RQ(rq', pr, R)
        /\ \A u \in R : pr[current'] <= pr[u]
    BY <2>1, NextPreserves
  <2> QED BY <2>1, <2>2, <1>2 DEF Switched, TypeOK
<1> QED BY <1>1, <1>2

\* So does _reschedule_threads(), if the current thread was the right one before.
LEMMA RescheduleSwitched ==
  ASSUME NEW r, NEW pr \in [Thread -> Prio], NEW sl, NEW R \in SUBSET Thread,
         RQ(r, pr, R), current \in R, TypeOK, ~pendsv, reschedule_threads(r, pr, sl)
  PROVE  Switched(pr, sl, R)
<1>1. CASE must_switch_threads(r, pr, sl)
  BY <1>1, SwapSwitched DEF reschedule_threads
<1>2. CASE ~must_switch_threads(r, pr, sl)
  <2>1. rq' = r /\ current' = current /\ pendsv' = pendsv
    BY <1>2 DEF reschedule_threads, NoSwap
  <2>2. /\ get_highest_ready_prio(r) \in r.bmap
        /\ \A u \in R : get_highest_ready_prio(r) <= pr[u]
    BY NextPreserves
  <2>3. get_highest_ready_prio(r) \in Int /\ \A u \in R : pr[u] \in Int
    BY <2>2, PrioInt DEF RQ
  <2>4. is_preempt(pr[current], sl[current]) => \A u \in R : pr[current] <= pr[u]
    BY <1>2, <2>2, <2>3 DEF must_switch_threads, is_prio_higher
  <2> QED BY <2>1, <2>4 DEF Switched, TypeOK
<1> QED BY <1>1, <1>2

\* So does the exit of an interrupt, whatever the handler readied.
LEMMA IntExitSwitched ==
  ASSUME NEW r, NEW R \in SUBSET Thread, RQ(r, prio, R), R # {}, TypeOK,
         DeferredSwap \/ ~pendsv, ~pendsv => current \in R, IntExit(r)
  PROVE  Switched(prio, slock, R)
<1>0. prio \in [Thread -> Prio]
  BY DEF TypeOK
<1>1. CASE ~is_preempt(prio[current], slock[current])
  BY <1>1 DEF IntExit, NoSwap, Switched, TypeOK
<1>2. CASE is_preempt(prio[current], slock[current])
  <2>1. /\ RQ(WithCache(r), prio, R)
        /\ \A u \in R : prio[get_next_ready_thread(r)] <= prio[u]
    BY <1>0, NextPreserves
  <2>2. CASE get_next_ready_thread(r) = current
    BY <1>2, <2>1, <2>2 DEF IntExit, NoSwap, Switched, TypeOK
  <2>3. CASE get_next_ready_thread(r) # current
    <3>1. Swap(WithCache(r))
      BY <1>2, <2>3 DEF IntExit
    <3> QED BY <3>1, <2>1, <1>0, SwapSwitched
  <2> QED BY <2>2, <2>3
<1> QED BY <1>1, <1>2

\* _ready_thread() keeps the ready queue right for the threads that are ready then.
LEMMA ReadyIfPreserves ==
  ASSUME NEW r, NEW pr \in [Thread -> Prio], NEW R \in SUBSET Thread,
         RQ(r, pr, R), NEW t \in Thread, t \notin R, NEW f, NEW armed
  PROVE  RQ(ReadyIf(r, pr, t, f, armed), pr,
            IF is_thread_ready(f, armed) THEN R \cup {t} ELSE R)
BY AddPreserves DEF ReadyIf

\* _pend_thread() links the thread on the wait queue and leaves the others there.
LEMMA WaitInsertProps ==
  ASSUME NEW wq \in Seq(Thread), NEW pr, NEW t \in Thread
  PROVE  /\ WaitInsert(wq, pr, t) \in Seq(Thread)
         /\ \A x : Linked(WaitInsert(wq, pr, t), x) <=> Linked(wq, x) \/ x = t
         /\ NoDup(wq) /\ ~Linked(wq, t) => NoDup(WaitInsert(wq, pr, t))
<1> DEFINE P == {i \in 1..Len(wq) : wq[i] \in {w \in Thread : is_prio_higher(pr[t], pr[w])}}
           k == IF P = {} THEN Len(wq) + 1 ELSE CHOOSE i \in P : \A j \in P : i <= j
<1>1. WaitInsert(wq, pr, t) = [i \in 1..(Len(wq) + 1) |->
                   IF i < k THEN wq[i] ELSE IF i = k THEN t ELSE wq[i - 1]]
  BY Zenon DEF WaitInsert, sys_dlist_insert_at
<1>2. Len(wq) \in Nat /\ P \in SUBSET (1..Len(wq))
  BY LenProperties
<1> HIDE DEF P
<1>3. k \in 1..(Len(wq) + 1)
  BY <1>2, InsertPoint
<1> HIDE DEF k
<1> QED BY <1>1, <1>3, InsertProps

TypeRest ==
  /\ prio \in [Thread -> Prio]
  /\ flags \in [Thread -> SUBSET Flag]
  /\ slock \in [Thread -> 0..MaxLock]
  /\ tmo \in [Thread -> BOOLEAN]
  /\ waitq \in Seq(Thread)
  /\ count \in 0..SemLimit
  /\ tick \in BOOLEAN
  /\ elapsed \in Nat

\* A step that ends in a reschedule keeps the invariant if it keeps the wait
\* queue and the flags in order.
LEMMA Conclude ==
  ASSUME IInv, Switched(prio', slock', ReadySet'), TypeRest',
         WaitersMatchSemaphore', FlagInv', Ready(Idle)'
  PROVE  IInv'
<1>1. TypeOK'
  BY DEF Switched, RQ, TypeRest, TypeOK
<1>2. QInv'
  BY DEF Switched, QInv
<1>3. RunInv'
  BY DEF Switched, IInv, RunInv, ReadySet
<1>4. NoMissedPreemption'
  <2> SUFFICES ASSUME ~pendsv'
               PROVE  /\ Ready(current)'
                      /\ is_preempt(prio'[current'], slock'[current']) =>
                           \A t \in Thread : Ready(t)' => ~(prio'[t] < prio'[current'])
    BY DEF NoMissedPreemption, is_prio_higher
  <2>1. current' \in Thread /\ \A t \in Thread : prio'[t] \in Int
    BY PrioInt DEF Switched, TypeRest
  <2>2. \A t \in Thread : Ready(t)' <=> t \in ReadySet'
    BY DEF ReadySet
  <2>3. current' \in ReadySet'
    BY DEF Switched
  <2>4. is_preempt(prio'[current'], slock'[current']) =>
           \A u \in ReadySet' : prio'[current'] <= prio'[u]
    BY DEF Switched
  <2> QED BY <2>1, <2>2, <2>3, <2>4
<1> QED BY <1>1, <1>2, <1>3, <1>4 DEF IInv

\* The invariant holds when the main thread starts.
LEMMA InitInv == Init => IInv
<1> SUFFICES ASSUME Init PROVE IInv
  OBVIOUS
<1> USE SchedAssumption, PrioInt
<1>0. /\ Len(<<Idle>>) = 1 /\ <<Idle>>[1] = Idle /\ <<Idle>> \in Seq(Thread)
      /\ Len(<<Main>>) = 1 /\ <<Main>>[1] = Main /\ <<Main>> \in Seq(Thread)
      /\ Len(<< >>) = 0 /\ << >> \in Seq(Thread) /\ <<Idle>> # << >> /\ <<Main>> # << >>
  OBVIOUS
<1>1. TypeOK
  <2>1. MainPrio \in Prio
    OBVIOUS
  <2>2. rq \in [q : [Prio -> Seq(Thread)], bmap : SUBSET Prio, cache : Thread \cup {NULL}]
    BY <1>0, <2>1 DEF Init
  <2>3. flags \in [Thread -> SUBSET Flag] /\ tmo \in [Thread -> BOOLEAN]
    BY DEF Init, Flag
  <2>4. prio \in [Thread -> Prio] /\ slock \in [Thread -> 0..MaxLock]
    BY <2>1 DEF Init
  <2>5. waitq \in Seq(Thread) /\ count \in 0..SemLimit /\ current \in Thread /\ elapsed \in Nat
    BY <1>0 DEF Init
  <2>6. pendsv \in BOOLEAN /\ tick \in BOOLEAN
    BY Zenon DEF Init
  <2> QED BY <2>2, <2>3, <2>4, <2>5, <2>6 DEF TypeOK
<1>2. \A t \in Thread : Ready(t) <=> t \in {Idle, Main}
  BY DEF Init, Ready, is_thread_ready, Flag
<1>3. QInv
  <2>1. MainPrio \in Prio /\ MainPrio # IdlePrio /\ MainPrio < IdlePrio
    BY DEF IdlePrio
  <2>2. \A p \in Prio : rq.q[p] = IF p = IdlePrio THEN <<Idle>>
                                  ELSE IF p = MainPrio THEN <<Main>> ELSE << >>
    BY DEF Init
  <2>3. \A t \in Thread, p \in Prio : Linked(rq.q[p], t) <=> t \in ReadySet /\ prio[t] = p
    <3> SUFFICES ASSUME NEW t \in Thread, NEW p \in Prio
                 PROVE  Linked(rq.q[p], t) <=> t \in {Idle, Main} /\ prio[t] = p
      BY <1>2 DEF ReadySet
    <3>1. prio[t] = IF t = Idle THEN IdlePrio ELSE MainPrio
      BY DEF Init
    <3>2. CASE p = IdlePrio
      <4>1. rq.q[p] = <<Idle>>
        BY <3>2, <2>2
      <4>2. Linked(rq.q[p], t) <=> t = Idle
        BY <4>1, <1>0 DEF Linked
      <4> QED BY <4>2, <3>1, <3>2, <2>1
    <3>3. CASE p = MainPrio
      <4>1. rq.q[p] = <<Main>>
        BY <3>3, <2>1, <2>2
      <4>2. Linked(rq.q[p], t) <=> t = Main
        BY <4>1, <1>0 DEF Linked
      <4> QED BY <4>2, <3>1, <3>3, <2>1
    <3>4. CASE p # IdlePrio /\ p # MainPrio
      BY <3>1, <3>4, <2>1, <2>2, <1>0 DEF Linked
    <3> QED BY <3>2, <3>3, <3>4
  <2>4. \A p \in Prio : NoDup(rq.q[p])
    BY <2>2, <1>0 DEF NoDup
  <2>5. rq.bmap = {p \in Prio : rq.q[p] # << >>}
    <3>1. rq.bmap = {IdlePrio, MainPrio}
      BY DEF Init
    <3> QED BY <3>1, <2>1, <2>2, <1>0
  <2>6. ASSUME rq.cache # NULL
        PROVE  /\ rq.cache \in ReadySet
               /\ \A u \in ReadySet : prio[rq.cache] <= prio[u]
               /\ rq.q[prio[rq.cache]][1] = rq.cache
    <3>1. rq.cache = Main /\ prio[Main] = MainPrio /\ prio[Idle] = IdlePrio
      BY <2>6 DEF Init
    <3>2. rq.q[MainPrio][1] = Main
      BY <2>1, <2>2, <1>0
    <3> QED BY <3>1, <3>2, <2>1, <1>2 DEF ReadySet
  <2> QED BY <1>1, <2>3, <2>4, <2>5, <2>6 DEF QInv, RQ, TypeOK
<1>4. WaitersMatchSemaphore
  BY <1>0 DEF Init, WaitersMatchSemaphore, Linked, NoDup
<1>5. FlagInv
  BY DEF Init, FlagInv
<1>6. RunInv
  BY <1>2 DEF Init, RunInv
<1>7. NoMissedPreemption
  <2>1. prio[Main] = MainPrio /\ prio[Idle] = IdlePrio /\ MainPrio < IdlePrio /\ current = Main
    BY DEF Init, IdlePrio
  <2> QED BY <2>1, <1>2 DEF NoMissedPreemption, is_prio_higher
<1> QED BY <1>1, <1>3, <1>4, <1>5, <1>6, <1>7 DEF IInv

(***************************************************************************)
(* One lemma per operation: it keeps the inductive invariant.              *)
(***************************************************************************)

\* A step that touches neither the wait queue, nor the semaphore, nor who is
\* pending keeps WaitersMatchSemaphore.
LEMMA WaitersSame ==
  ASSUME WaitersMatchSemaphore, waitq' = waitq, count' = count,
         \A t \in Thread : "PENDING" \in flags'[t] <=> "PENDING" \in flags[t]
  PROVE  WaitersMatchSemaphore'
BY DEF WaitersMatchSemaphore

\* What holds whenever a thread is running
LEMMA InCall ==
  ASSUME IInv, NEW fn, Call(fn)
  PROVE  /\ ~tick /\ ~pendsv /\ current # Idle /\ current \in Thread
         /\ Ready(current) /\ current \in ReadySet /\ Idle \in ReadySet
         /\ RQ(rq, prio, ReadySet) /\ prio \in [Thread -> Prio]
         /\ ReadySet \in SUBSET Thread
BY SchedAssumption DEF IInv, Call, RunInv, TypeOK, QInv, ReadySet

\* NoMissedPreemption, in terms of the set of ready threads
LEMMA CurrentHighest ==
  ASSUME IInv, ~pendsv, ~tick
  PROVE  is_preempt(prio[current], slock[current]) =>
           \A u \in ReadySet : prio[current] <= prio[u]
<1>1. \A u \in Thread : prio[u] \in Int
  BY PrioInt DEF IInv, TypeOK
<1>2. current \in Thread /\ \A u \in ReadySet : u \in Thread /\ Ready(u)
  BY DEF IInv, TypeOK, ReadySet
<1>3. is_preempt(prio[current], slock[current]) =>
        \A t \in Thread : Ready(t) => ~(prio[t] < prio[current])
  BY DEF IInv, NoMissedPreemption, is_prio_higher
<1> QED BY <1>1, <1>2, <1>3

\* k_sched_lock() preserves the invariant.
LEMMA SchedLockStep == ASSUME IInv, k_sched_lock PROVE IInv'
<1> USE DEF k_sched_lock
<1>1. ReadySet' = ReadySet
  BY DEF ReadySet, Ready
<1>2. TypeRest'
  BY SchedAssumption, SMTT(60) DEF IInv, TypeOK, TypeRest
<1>3. WaitersMatchSemaphore' /\ FlagInv' /\ Ready(Idle)'
  BY WaitersSame DEF IInv, FlagInv, RunInv, Ready
<1>4. Switched(prio', slock', ReadySet')
  <2>1. rq' = rq /\ prio' = prio /\ current' = current /\ pendsv' = pendsv /\ ~pendsv
    BY DEF Call
  <2>2. slock'[current] # 0
    BY InCall DEF IInv, TypeOK
  <2> QED BY <2>1, <2>2, <1>1, InCall DEF Switched, is_preempt, IInv, TypeOK
<1> QED BY <1>1, <1>2, <1>3, <1>4, Conclude

\* k_sched_unlock() preserves the invariant.
LEMMA SchedUnlockStep == ASSUME IInv, k_sched_unlock PROVE IInv'
<1> USE DEF k_sched_unlock
<1>1. ReadySet' = ReadySet
  BY DEF ReadySet, Ready
<1>2. TypeRest'
  BY SchedAssumption DEF IInv, TypeOK, TypeRest
<1>3. WaitersMatchSemaphore' /\ FlagInv' /\ Ready(Idle)'
  BY WaitersSame DEF IInv, FlagInv, RunInv, Ready
<1>4. Switched(prio', slock', ReadySet')
  BY <1>1, InCall, RescheduleSwitched DEF IInv
<1> QED BY <1>1, <1>2, <1>3, <1>4, Conclude

\* k_yield() preserves the invariant.
LEMMA YieldStep == ASSUME IInv, k_yield PROVE IInv'
<1> USE DEF k_yield
<1>1. ReadySet' = ReadySet
  BY DEF ReadySet, Ready
<1>2. TypeRest'
  BY SchedAssumption DEF IInv, TypeOK, TypeRest
<1>3. WaitersMatchSemaphore' /\ FlagInv' /\ Ready(Idle)'
  BY WaitersSame DEF IInv, FlagInv, RunInv, Ready
<1>4. Switched(prio, slock, ReadySet)
  <2> DEFINE r == move_thread_to_end_of_prio_q(rq, prio, current)
  <2>1. RQ(r, prio, ReadySet)
    BY InCall, MovePreserves
  <2>2. /\ RQ(WithCache(r), prio, ReadySet)
        /\ \A u \in ReadySet : prio[get_next_ready_thread(r)] <= prio[u]
    BY <2>1, InCall, NextPreserves
  <2>3. CASE get_next_ready_thread(r) = current
    <3>1. NoSwap(WithCache(r))
      BY <2>3
    <3> QED BY <3>1, <2>2, <2>3, InCall DEF NoSwap, Switched, IInv, TypeOK
  <2>4. CASE get_next_ready_thread(r) # current
    <3>1. Swap(WithCache(r))
      BY <2>4
    <3> QED BY <3>1, <2>2, InCall, SwapSwitched DEF IInv
  <2> QED BY <2>3, <2>4
<1> QED BY <1>1, <1>2, <1>3, <1>4, Conclude

\* k_sleep() preserves the invariant.
LEMMA SleepStep == ASSUME IInv, k_sleep PROVE IInv'
<1> USE DEF k_sleep
<1>0. current \in Thread /\ current # Idle /\ ~pendsv
  BY InCall
<1>1. ReadySet' = ReadySet \ {current}
  BY <1>0 DEF ReadySet, Ready, IInv, TypeOK, is_thread_ready
<1>2. TypeRest'
  BY SchedAssumption DEF IInv, TypeOK, TypeRest
<1>3. WaitersMatchSemaphore' /\ FlagInv' /\ Ready(Idle)'
  BY <1>0, WaitersSame, SchedAssumption DEF IInv, FlagInv, RunInv, Ready, TypeOK
<1>4. Switched(prio', slock', ReadySet')
  <2>1. RQ(remove_thread_from_ready_q(rq, prio, current), prio, ReadySet')
    BY <1>1, InCall, RemovePreserves
  <2>2. ReadySet' \in SUBSET Thread /\ Idle \in ReadySet'
    BY <1>1, InCall
  <2> QED BY <2>1, <2>2, InCall, SwapSwitched DEF IInv
<1> QED BY <1>2, <1>3, <1>4, Conclude

\* What k_wakeup() does to a sleeping thread before it reschedules
LEMMA WakeupEffect ==
  ASSUME IInv, NEW t \in Thread, Wakeup(t)
  PROVE  /\ RQ(ReadyIf(rq, prio, t, flags'[t], tmo'[t]), prio', ReadySet')
         /\ ReadySet \subseteq ReadySet' /\ ReadySet' \in SUBSET Thread
         /\ TypeRest' /\ WaitersMatchSemaphore' /\ FlagInv' /\ Ready(Idle)'
         /\ prio' = prio /\ slock' = slock
<1> USE DEF Wakeup
<1>1. t \notin ReadySet
  BY DEF ReadySet, Ready, is_thread_ready
<1>2. ReadySet' = IF is_thread_ready(flags'[t], tmo'[t]) THEN ReadySet \cup {t} ELSE ReadySet
  BY <1>1 DEF ReadySet, Ready, IInv, TypeOK
<1>3. RQ(ReadyIf(rq, prio, t, flags'[t], tmo'[t]), prio, ReadySet')
  <2>1. /\ RQ(rq, prio, ReadySet) /\ prio \in [Thread -> Prio]
        /\ ReadySet \in SUBSET Thread
    BY DEF IInv, QInv, TypeOK, ReadySet
  <2>2. RQ(ReadyIf(rq, prio, t, flags'[t], tmo'[t]), prio,
           IF is_thread_ready(flags'[t], tmo'[t]) THEN ReadySet \cup {t} ELSE ReadySet)
    BY <2>1, <1>1, ReadyIfPreserves
  <2> QED BY <2>2, <1>2
<1>4. TypeRest'
  BY SchedAssumption DEF IInv, TypeOK, TypeRest
<1>5. WaitersMatchSemaphore' /\ FlagInv'
  <2>1. \A u \in Thread : "PENDING" \in flags'[u] <=> "PENDING" \in flags[u]
    BY DEF IInv, TypeOK
  <2>2. FlagInv'
    BY <2>1 DEF IInv, TypeOK, FlagInv
  <2> QED BY <2>1, <2>2, WaitersSame DEF IInv
<1>6. Ready(Idle)'
  <2>1. Idle \in ReadySet'
    BY <1>2, SchedAssumption DEF IInv, RunInv, ReadySet
  <2> QED BY <2>1 DEF ReadySet
<1> QED BY <1>2, <1>3, <1>4, <1>5, <1>6 DEF ReadySet

\* k_wakeup() in a thread preserves the invariant.
LEMMA WakeupStep == ASSUME IInv, NEW t \in Thread, k_wakeup(t) PROVE IInv'
<1>1. Switched(prio', slock', ReadySet')
  <2>1. current \in ReadySet'
    BY InCall, WakeupEffect DEF k_wakeup
  <2> QED BY <2>1, InCall, WakeupEffect, RescheduleSwitched DEF k_wakeup, IInv
<1> QED BY <1>1, WakeupEffect, Conclude DEF k_wakeup

\* k_wakeup() in an ISR preserves the invariant.
LEMMA IsrWakeupStep == ASSUME IInv, NEW t \in Thread, isr_k_wakeup(t) PROVE IInv'
<1>1. Switched(prio', slock', ReadySet')
  <2>1. /\ ~pendsv => current \in ReadySet'
        /\ Idle \in ReadySet' /\ (DeferredSwap \/ ~pendsv)
    BY WakeupEffect, SchedAssumption DEF isr_k_wakeup, IInv, RunInv, ReadySet, TypeOK
  <2> QED BY <2>1, WakeupEffect, IntExitSwitched DEF isr_k_wakeup, IInv
<1> QED BY <1>1, WakeupEffect, Conclude DEF isr_k_wakeup

\* k_thread_priority_set() preserves the invariant.
LEMMA PrioritySetStep ==
  ASSUME IInv, NEW t \in Thread, NEW p \in AppPrio, k_thread_priority_set(t, p)
  PROVE  IInv'
<1> USE DEF k_thread_priority_set
<1>0. ReadySet \in SUBSET Thread /\ p \in Prio /\ prio \in [Thread -> Prio]
  BY InCall, PrioInt
<1>1. ReadySet' = ReadySet
  BY DEF ReadySet, Ready
<1>2. TypeRest'
  BY <1>0 DEF IInv, TypeOK, TypeRest
<1>3. WaitersMatchSemaphore' /\ FlagInv' /\ Ready(Idle)'
  BY WaitersSame DEF IInv, FlagInv, RunInv, Ready
<1>4. Switched(prio', slock', ReadySet')
  <2> DEFINE m == remove_thread_from_ready_q(rq, prio, t)
             r == IF Ready(t) THEN add_thread_to_ready_q(m, prio', t) ELSE rq
  <2>0. prio' \in [Thread -> Prio] /\ \A u \in Thread : u # t => prio'[u] = prio[u]
    BY <1>0
  <2>1. RQ(r, prio', ReadySet)
    <3>1. CASE Ready(t)
      <4>1. t \in ReadySet
        BY <3>1 DEF ReadySet
      <4>2. RQ(m, prio, ReadySet \ {t})
        BY <4>1, InCall, RemovePreserves
      <4> HIDE DEF m
      <4>3. RQ(m, prio', ReadySet \ {t})
        BY <4>2, <1>0, <2>0, PrioPreserves
      <4>4. RQ(add_thread_to_ready_q(m, prio', t), prio', (ReadySet \ {t}) \cup {t})
        BY <4>3, <1>0, <2>0, AddPreserves
      <4>5. (ReadySet \ {t}) \cup {t} = ReadySet
        BY <4>1
      <4> QED BY <4>4, <4>5, <3>1
    <3>2. CASE ~Ready(t)
      <4>1. t \notin ReadySet
        BY <3>2 DEF ReadySet
      <4> QED BY <4>1, <3>2, <1>0, <2>0, InCall, PrioPreserves
    <3> QED BY <3>1, <3>2
  <2>2. reschedule_threads(r, prio', slock)
    OBVIOUS
  <2> HIDE DEF r
  <2> QED BY <2>0, <2>1, <2>2, <1>0, <1>1, InCall, RescheduleSwitched DEF IInv
<1> QED BY <1>2, <1>3, <1>4, Conclude

\* k_thread_suspend() preserves the invariant.
LEMMA SuspendStep == ASSUME IInv, NEW t \in Thread, k_thread_suspend(t) PROVE IInv'
<1> USE DEF k_thread_suspend
<1>0. t # Idle /\ Idle \in Thread
  BY SchedAssumption DEF Alive
<1>1. ReadySet' = ReadySet \ {t}
  BY <1>0 DEF ReadySet, Ready, IInv, TypeOK, is_thread_ready, Flag
<1>2. TypeRest'
  BY DEF IInv, TypeOK, TypeRest, Flag
<1>3. WaitersMatchSemaphore' /\ FlagInv' /\ Ready(Idle)'
  <2>1. \A u \in Thread : "PENDING" \in flags'[u] <=> "PENDING" \in flags[u]
    BY DEF IInv, TypeOK
  <2>2. FlagInv'
    BY <2>1 DEF IInv, TypeOK, FlagInv
  <2>3. Ready(Idle)'
    BY <1>0 DEF IInv, TypeOK, RunInv, Ready
  <2> QED BY <2>1, <2>2, <2>3, WaitersSame DEF IInv
<1>4. Switched(prio', slock', ReadySet')
  <2> DEFINE r == IF Ready(t) THEN remove_thread_from_ready_q(rq, prio, t) ELSE rq
  <2>1. RQ(r, prio, ReadySet')
    <3>1. CASE Ready(t)
      <4>1. t \in ReadySet
        BY <3>1 DEF ReadySet
      <4> QED BY <4>1, <3>1, <1>1, InCall, RemovePreserves
    <3>2. CASE ~Ready(t)
      <4>1. ReadySet' = ReadySet
        BY <3>2, <1>1 DEF ReadySet
      <4> QED BY <4>1, <3>2, InCall
    <3> QED BY <3>1, <3>2
  <2>2. ReadySet' \in SUBSET Thread /\ Idle \in ReadySet'
    BY <1>0, <1>1, InCall
  <2>3. CASE t = current
    <3>1. Swap(r)
      BY <2>3
    <3> HIDE DEF r
    <3> QED BY <3>1, <2>1, <2>2, InCall, SwapSwitched DEF IInv
  <2>4. CASE t # current
    <3>1. rq' = r /\ current' = current /\ pendsv' = pendsv
      BY <2>4 DEF NoSwap
    <3>2. /\ current \in ReadySet' /\ ReadySet' \subseteq ReadySet
      BY <2>4, <1>1, InCall
    <3>3. is_preempt(prio[current], slock[current]) => \A u \in ReadySet' : prio[current] <= prio[u]
      BY <3>2, InCall, CurrentHighest
    <3> HIDE DEF r
    <3> QED BY <3>1, <3>2, <3>3, <2>1, InCall DEF Switched, IInv, TypeOK
  <2> QED BY <2>3, <2>4
<1> QED BY <1>2, <1>3, <1>4, Conclude

\* k_thread_resume() of a suspended thread preserves the invariant.
LEMMA ResumeStep ==
  ASSUME IInv, SafeConfig, NEW t \in Thread, k_thread_resume(t) PROVE IInv'
<1> USE DEF k_thread_resume
<1>0. Call("resume") /\ "SUSPENDED" \in flags[t] /\ t # Idle
  BY DEF SafeConfig, Call, Alive
<1>1. t \notin ReadySet
  BY <1>0 DEF ReadySet, Ready, is_thread_ready, Flag
<1>2. ReadySet' = IF is_thread_ready(flags'[t], tmo[t]) THEN ReadySet \cup {t} ELSE ReadySet
  BY <1>1 DEF ReadySet, Ready, IInv, TypeOK
<1>3. RQ(ReadyIf(rq, prio, t, flags'[t], tmo[t]), prio, ReadySet')
  <2>1. /\ RQ(rq, prio, ReadySet) /\ prio \in [Thread -> Prio]
        /\ ReadySet \in SUBSET Thread
    BY DEF IInv, QInv, TypeOK, ReadySet
  <2> HIDE DEF k_thread_resume
  <2>2. RQ(ReadyIf(rq, prio, t, flags'[t], tmo[t]), prio,
           IF is_thread_ready(flags'[t], tmo[t]) THEN ReadySet \cup {t} ELSE ReadySet)
    BY <2>1, <1>1, ReadyIfPreserves
  <2> QED BY <2>2, <1>2
<1>4. TypeRest'
  BY DEF IInv, TypeOK, TypeRest
<1>5. WaitersMatchSemaphore' /\ FlagInv'
  <2>1. \A u \in Thread : "PENDING" \in flags'[u] <=> "PENDING" \in flags[u]
    BY DEF IInv, TypeOK
  <2>2. FlagInv'
    BY <2>1 DEF IInv, TypeOK, FlagInv
  <2> QED BY <2>1, <2>2, WaitersSame DEF IInv
<1>6. Idle \in ReadySet' /\ current \in ReadySet' /\ ReadySet' \in SUBSET Thread
  BY <1>0, <1>2, InCall
<1>7. Switched(prio', slock', ReadySet')
  BY <1>0, <1>3, <1>6, InCall, RescheduleSwitched DEF IInv
<1>8. Ready(Idle)'
  BY <1>6 DEF ReadySet
<1> QED BY <1>4, <1>5, <1>7, <1>8, Conclude

\* k_thread_cancel() preserves the invariant.
LEMMA CancelStep == ASSUME IInv, NEW t \in Thread, k_thread_cancel(t) PROVE IInv'
<1> USE DEF k_thread_cancel
<1>1. ReadySet' = ReadySet
  BY DEF ReadySet, Ready, is_thread_ready, IInv, TypeOK, Flag
<1>2. TypeRest'
  BY DEF IInv, TypeOK, TypeRest
<1>3. WaitersMatchSemaphore' /\ FlagInv'
  BY WaitersSame DEF IInv, FlagInv
<1>4. Ready(Idle)'
  <2>1. Idle \in ReadySet'
    BY <1>1, InCall
  <2> QED BY <2>1 DEF ReadySet
<1>5. is_preempt(prio[current], slock[current]) => \A u \in ReadySet : prio[current] <= prio[u]
  BY InCall, CurrentHighest
<1>6. Switched(prio', slock', ReadySet')
  BY <1>1, <1>5, InCall DEF Switched, IInv, TypeOK
<1> QED BY <1>2, <1>3, <1>4, <1>6, Conclude

\* k_thread_spawn() preserves the invariant.
LEMMA SpawnStep ==
  ASSUME IInv, NEW t \in Thread, NEW p \in AppPrio, NEW delayed \in BOOLEAN,
         k_thread_spawn(t, p, delayed)
  PROVE  IInv'
<1> USE DEF k_thread_spawn
<1>0. t # Idle /\ p \in Prio /\ 0 \in 0..MaxLock
  BY PrioInt, SchedAssumption
<1>1. "DEAD" \in flags[t] \/ ("PRESTART" \in flags[t] /\ ~tmo[t])
  BY DEF Alive
<1>2. t \notin ReadySet /\ t # current /\ "PENDING" \notin flags[t]
  BY <1>1, InCall DEF ReadySet, Ready, is_thread_ready, Flag, IInv, FlagInv
<1>3. ReadySet' = IF delayed THEN ReadySet ELSE ReadySet \cup {t}
  <2>1. \A u \in Thread : u # t => (u \in ReadySet' <=> u \in ReadySet)
    BY DEF ReadySet, Ready, IInv, TypeOK
  <2>2. t \in ReadySet' <=> ~delayed
    BY DEF ReadySet, Ready, is_thread_ready, IInv, TypeOK, Flag
  <2> QED BY <2>1, <2>2, <1>2 DEF ReadySet
<1>4. prio' \in [Thread -> Prio] /\ \A u \in ReadySet : prio'[u] = prio[u]
  BY <1>0, <1>2, InCall
<1>5. RQ(rq, prio', ReadySet)
  BY <1>4, InCall, PrioPreserves
<1>6. TypeRest'
  <2>1. flags' \in [Thread -> SUBSET Flag] /\ tmo' \in [Thread -> BOOLEAN]
    BY DEF IInv, TypeOK, Flag
  <2>2. slock' \in [Thread -> 0..MaxLock]
    BY <1>0 DEF IInv, TypeOK
  <2> QED BY <2>1, <2>2, <1>4 DEF IInv, TypeOK, TypeRest
<1>7. WaitersMatchSemaphore' /\ FlagInv'
  <2>1. \A u \in Thread : "PENDING" \in flags'[u] <=> "PENDING" \in flags[u]
    BY <1>2 DEF IInv, TypeOK
  <2>2. FlagInv'
    BY <2>1, <1>2 DEF IInv, TypeOK, FlagInv
  <2> QED BY <2>1, <2>2, WaitersSame DEF IInv
<1>8. Idle \in ReadySet' /\ current \in ReadySet' /\ ReadySet' \in SUBSET Thread
  BY <1>3, InCall
<1>9. Switched(prio', slock', ReadySet')
  <2>1. CASE delayed
    <3>1. /\ rq' = rq /\ current' = current /\ pendsv' = pendsv
          /\ prio'[current] = prio[current] /\ slock'[current] = slock[current]
          /\ ReadySet' = ReadySet
      BY <2>1, <1>2, <1>3, <1>4, InCall DEF NoSwap, IInv, TypeOK
    <3>2. is_preempt(prio'[current], slock'[current]) => \A u \in ReadySet : prio'[current] <= prio'[u]
      BY <3>1, <1>4, InCall, CurrentHighest
    <3> HIDE DEF k_thread_spawn
    <3> QED BY <3>1, <3>2, <1>5, <1>8, InCall DEF Switched, IInv, TypeOK, k_thread_spawn
  <2>2. CASE ~delayed
    <3>1. reschedule_threads(add_thread_to_ready_q(rq, prio', t), prio', slock')
      BY <2>2
    <3>2. RQ(add_thread_to_ready_q(rq, prio', t), prio', ReadySet')
      BY <2>2, <1>2, <1>3, <1>4, <1>5, InCall, AddPreserves
    <3>3. ~pendsv /\ TypeOK
      BY InCall DEF IInv
    <3> HIDE DEF k_thread_spawn
    <3> QED BY <3>1, <3>2, <3>3, <1>4, <1>8, RescheduleSwitched
  <2> QED BY <2>1, <2>2
<1>10. Ready(Idle)'
  BY <1>8 DEF ReadySet
<1> QED BY <1>6, <1>7, <1>9, <1>10, Conclude

\* Taking a pending thread off the wait queue and clearing PENDING, as
\* _unpend_thread() does on a timeout or an abort, keeps the waiters in order.
LEMMA UnpendEffect ==
  ASSUME WaitersMatchSemaphore, TypeOK, NEW t \in Thread, NEW keep, NEW add,
         flags' = [flags EXCEPT ![t] = keep],
         keep = (flags[t] \ {"PENDING"}) \cup add, "PENDING" \notin add,
         waitq' = (IF "PENDING" \in flags[t] THEN sys_dlist_remove(waitq, t) ELSE waitq),
         count' = count
  PROVE  WaitersMatchSemaphore' /\ waitq' \in Seq(Thread)
<1>1. \A u \in Thread : "PENDING" \in flags'[u] <=> "PENDING" \in flags[u] /\ u # t
  BY DEF TypeOK
<1>2. CASE "PENDING" \notin flags[t]
  BY <1>1, <1>2, WaitersSame DEF TypeOK
<1>3. CASE "PENDING" \in flags[t]
  <2>1. /\ waitq \in Seq(Thread) /\ NoDup(waitq) /\ Linked(waitq, t)
        /\ waitq' = sys_dlist_remove(waitq, t)
    BY <1>3 DEF WaitersMatchSemaphore, TypeOK
  <2>2. /\ waitq' \in Seq(Thread) /\ NoDup(waitq')
        /\ \A x : Linked(waitq', x) <=> Linked(waitq, x) /\ x # t
    BY <2>1, RemoveProps
  <2>3. waitq # << >>
    BY <2>1, LinkedNonEmpty
  <2> QED BY <2>2, <2>3, <1>1 DEF WaitersMatchSemaphore
<1> QED BY <1>2, <1>3

\* k_thread_abort() preserves the invariant.
LEMMA AbortStep == ASSUME IInv, NEW t \in Thread, k_thread_abort(t) PROVE IInv'
<1> USE DEF k_thread_abort
<1>0. t # Idle /\ Idle \in Thread
  BY SchedAssumption DEF Alive
<1>1. ReadySet' = ReadySet \ {t}
  <2>1. \A u \in Thread : u # t => (u \in ReadySet' <=> u \in ReadySet)
    BY DEF ReadySet, Ready, IInv, TypeOK
  <2>2. t \notin ReadySet'
    BY DEF ReadySet, Ready, is_thread_ready, IInv, TypeOK, Flag
  <2> QED BY <2>1, <2>2 DEF ReadySet
<1>2. WaitersMatchSemaphore' /\ waitq' \in Seq(Thread)
  BY UnpendEffect DEF IInv
<1>3. TypeRest'
  <2>1. flags' \in [Thread -> SUBSET Flag] /\ tmo' \in [Thread -> BOOLEAN]
    BY DEF IInv, TypeOK, Flag
  <2> QED BY <2>1, <1>2 DEF IInv, TypeOK, TypeRest
<1>4. FlagInv'
  BY DEF IInv, TypeOK, FlagInv
<1>5. ReadySet' \in SUBSET Thread /\ Idle \in ReadySet'
  BY <1>0, <1>1, InCall
<1>6. Switched(prio', slock', ReadySet')
  <2> DEFINE r == IF Ready(t) THEN remove_thread_from_ready_q(rq, prio, t) ELSE rq
  <2>1. RQ(r, prio, ReadySet')
    <3>1. CASE Ready(t)
      <4>1. t \in ReadySet
        BY <3>1 DEF ReadySet
      <4> QED BY <4>1, <3>1, <1>1, InCall, RemovePreserves
    <3>2. CASE ~Ready(t)
      <4>1. ReadySet' = ReadySet
        BY <3>2, <1>1 DEF ReadySet
      <4> QED BY <4>1, <3>2, InCall
    <3> QED BY <3>1, <3>2
  <2>2. CASE t = current
    <3>1. Swap(r) /\ ~pendsv
      BY <2>2, InCall
    <3> HIDE DEF r
    <3> QED BY <3>1, <2>1, <1>5, InCall, SwapSwitched DEF IInv
  <2>3. CASE t # current
    <3>1. reschedule_threads(r, prio, slock) /\ ~pendsv
      BY <2>3, InCall
    <3>2. current \in ReadySet'
      BY <2>3, <1>1, InCall
    <3> HIDE DEF r
    <3> QED BY <3>1, <3>2, <2>1, <1>5, InCall, RescheduleSwitched DEF IInv
  <2> QED BY <2>2, <2>3
<1>7. Ready(Idle)'
  BY <1>5 DEF ReadySet
<1> QED BY <1>2, <1>3, <1>4, <1>6, <1>7, Conclude

\* k_sem_take() that does not wait preserves the invariant.
LEMMA SemTakeStep == ASSUME IInv, k_sem_take_available PROVE IInv'
<1> USE DEF k_sem_take_available
<1>1. ReadySet' = ReadySet
  BY DEF ReadySet, Ready
<1>2. WaitersMatchSemaphore'
  <2>1. waitq = << >>
    BY DEF IInv, WaitersMatchSemaphore
  <2> QED BY <2>1 DEF IInv, WaitersMatchSemaphore
<1>3. TypeOK'
  BY SchedAssumption DEF IInv, TypeOK
<1>4. QInv' /\ FlagInv' /\ RunInv' /\ NoMissedPreemption'
  BY <1>1 DEF IInv, QInv, FlagInv, RunInv, NoMissedPreemption, Ready
<1> QED BY <1>2, <1>3, <1>4 DEF IInv

\* k_sem_take() that waits preserves the invariant.
LEMMA SemPendStep ==
  ASSUME IInv, NEW forever \in BOOLEAN, k_sem_take_pend(forever) PROVE IInv'
<1> USE DEF k_sem_take_pend
<1>0. /\ current \in Thread /\ current # Idle /\ ~pendsv /\ flags[current] \cap Flag = {}
      /\ flags[current] \in SUBSET Flag
  BY InCall DEF Ready, is_thread_ready, IInv, TypeOK
<1>1. ReadySet' = ReadySet \ {current}
  <2>1. \A u \in Thread : u # current => (u \in ReadySet' <=> u \in ReadySet)
    BY DEF ReadySet, Ready, IInv, TypeOK
  <2>2. current \notin ReadySet'
    BY <1>0 DEF ReadySet, Ready, is_thread_ready, IInv, TypeOK, Flag
  <2> QED BY <2>1, <2>2 DEF ReadySet
<1>2. \A u \in Thread : "PENDING" \in flags'[u] <=> "PENDING" \in flags[u] \/ u = current
  BY <1>0 DEF IInv, TypeOK
<1>3. /\ waitq' \in Seq(Thread) /\ NoDup(waitq')
      /\ \A x : Linked(waitq', x) <=> Linked(waitq, x) \/ x = current
  <2>1. waitq \in Seq(Thread) /\ NoDup(waitq) /\ ~Linked(waitq, current)
    BY <1>0 DEF IInv, TypeOK, WaitersMatchSemaphore, Flag
  <2>2. waitq' = WaitInsert(waitq, prio, current)
    OBVIOUS
  <2> HIDE DEF k_sem_take_pend
  <2> QED BY <2>1, <2>2, <1>0, WaitInsertProps
<1>4. WaitersMatchSemaphore'
  <2>1. \A u \in Thread : Linked(waitq, u) <=> "PENDING" \in flags[u]
    BY DEF IInv, WaitersMatchSemaphore
  <2>2. count' = 0
    OBVIOUS
  <2> QED BY <2>1, <2>2, <1>2, <1>3 DEF WaitersMatchSemaphore
<1>5. TypeRest'
  <2>1. flags' \in [Thread -> SUBSET Flag] /\ tmo' \in [Thread -> BOOLEAN]
    BY DEF IInv, TypeOK, Flag
  <2> QED BY <2>1, <1>3 DEF IInv, TypeOK, TypeRest
<1>6. FlagInv'
  BY <1>0, <1>2 DEF IInv, TypeOK, FlagInv, Flag
<1>7. ReadySet' \in SUBSET Thread /\ Idle \in ReadySet'
  BY <1>1, InCall
<1>8. Switched(prio', slock', ReadySet')
  <2>1. RQ(remove_thread_from_ready_q(rq, prio, current), prio, ReadySet')
    BY <1>1, InCall, RemovePreserves
  <2> QED BY <2>1, <1>0, <1>7, InCall, SwapSwitched DEF IInv
<1>9. Ready(Idle)'
  BY <1>7 DEF ReadySet
<1> QED BY <1>4, <1>5, <1>6, <1>8, <1>9, Conclude

\* What sem_give_common() does before the reschedule
LEMMA GiveEffect ==
  ASSUME IInv, SemGive, UNCHANGED <<prio, slock, tick, elapsed>>
  PROVE  /\ RQ(GiveReadyQ, prio', ReadySet')
         /\ ReadySet \subseteq ReadySet' /\ ReadySet' \in SUBSET Thread
         /\ TypeRest' /\ WaitersMatchSemaphore' /\ FlagInv' /\ Ready(Idle)'
<1>0. /\ waitq \in Seq(Thread) /\ NoDup(waitq) /\ RQ(rq, prio, ReadySet)
      /\ prio \in [Thread -> Prio] /\ ReadySet \in SUBSET Thread
      /\ Idle \in ReadySet
  BY SchedAssumption DEF IInv, TypeOK, WaitersMatchSemaphore, QInv, ReadySet, RunInv
<1>1. CASE waitq = << >>
  <2>1. /\ flags' = flags /\ tmo' = tmo /\ waitq' = waitq
        /\ count' = IF count # SemLimit THEN count + 1 ELSE count
    BY <1>1 DEF SemGive
  <2>2. ReadySet' = ReadySet
    BY <2>1 DEF ReadySet, Ready
  <2>3. TypeRest'
    BY <2>1, SchedAssumption DEF IInv, TypeOK, TypeRest
  <2>4. WaitersMatchSemaphore' /\ FlagInv' /\ Ready(Idle)'
    BY <1>1, <2>1 DEF IInv, WaitersMatchSemaphore, FlagInv, RunInv, Ready
  <2> QED BY <1>0, <1>1, <2>2, <2>3, <2>4 DEF GiveReadyQ
<1>2. CASE waitq # << >>
  <2> DEFINE t == Head(waitq)
             f == flags[t] \ {"PENDING", "PRESTART"}
  <2>1. /\ t \in Thread /\ Linked(waitq, t) /\ Tail(waitq) \in Seq(Thread)
        /\ \A x : Linked(Tail(waitq), x) <=> Linked(waitq, x) /\ x # t
        /\ NoDup(Tail(waitq))
    BY <1>0, <1>2, TailProps
  <2>2. "PENDING" \in flags[t]
    BY <2>1 DEF IInv, WaitersMatchSemaphore
  <2>3. /\ waitq' = Tail(waitq) /\ flags' = [flags EXCEPT ![t] = f]
        /\ tmo' = [tmo EXCEPT ![t] = FALSE] /\ count' = count
    BY <1>2 DEF SemGive
  <2>4. GiveReadyQ = ReadyIf(rq, prio, t, f, FALSE)
    BY <1>2 DEF GiveReadyQ
  <2> HIDE DEF t, f
  <2>5. t \notin ReadySet
    BY <2>2 DEF ReadySet, Ready, is_thread_ready, Flag
  <2>6. ReadySet' = IF is_thread_ready(f, FALSE) THEN ReadySet \cup {t} ELSE ReadySet
    <3>1. \A u \in Thread : u # t => (u \in ReadySet' <=> u \in ReadySet)
      BY <2>1, <2>3 DEF ReadySet, Ready, IInv, TypeOK
    <3>2. flags'[t] = f /\ tmo'[t] = FALSE
      BY <2>1, <2>3 DEF IInv, TypeOK
    <3>3. t \in ReadySet' <=> is_thread_ready(f, FALSE)
      BY <3>2, <2>1 DEF ReadySet, Ready, is_thread_ready
    <3> QED BY <3>1, <3>3, <2>1, <2>5 DEF ReadySet
  <2>7. RQ(ReadyIf(rq, prio, t, f, FALSE), prio, ReadySet')
    <3>1. RQ(ReadyIf(rq, prio, t, f, FALSE), prio,
             IF is_thread_ready(f, FALSE) THEN ReadySet \cup {t} ELSE ReadySet)
      BY <2>1, <2>5, <1>0, ReadyIfPreserves
    <3> QED BY <3>1, <2>6
  <2>8. \A u \in Thread : "PENDING" \in flags'[u] <=> "PENDING" \in flags[u] /\ u # t
    BY <2>1, <2>3 DEF IInv, TypeOK, f
  <2>9. WaitersMatchSemaphore'
    BY <1>2, <2>1, <2>3, <2>8 DEF IInv, WaitersMatchSemaphore
  <2>10. FlagInv'
    BY <2>1, <2>3, <2>8 DEF IInv, TypeOK, FlagInv
  <2>11. TypeRest'
    <3>1. flags' \in [Thread -> SUBSET Flag] /\ tmo' \in [Thread -> BOOLEAN]
      BY <2>1, <2>3 DEF IInv, TypeOK, f
    <3> QED BY <3>1, <2>1, <2>3 DEF IInv, TypeOK, TypeRest
  <2>12. ReadySet \subseteq ReadySet' /\ ReadySet' \in SUBSET Thread /\ Idle \in ReadySet'
    BY <1>0, <2>1, <2>6
  <2>13. Ready(Idle)'
    BY <2>12 DEF ReadySet
  <2> QED BY <2>4, <2>7, <2>9, <2>10, <2>11, <2>12, <2>13
<1> QED BY <1>1, <1>2

\* k_sem_give() in a thread preserves the invariant.
LEMMA SemGiveStep == ASSUME IInv, k_sem_give PROVE IInv'
<1> USE DEF k_sem_give
<1>1. /\ RQ(GiveReadyQ, prio', ReadySet')
      /\ ReadySet \subseteq ReadySet' /\ ReadySet' \in SUBSET Thread
      /\ TypeRest' /\ WaitersMatchSemaphore' /\ FlagInv' /\ Ready(Idle)'
  BY GiveEffect
<1>2. current \in ReadySet' /\ ~pendsv /\ TypeOK
  BY <1>1, InCall DEF IInv
<1>3. Switched(prio', slock', ReadySet')
  <2>1. CASE waitq = << >>
    <3>1. rq' = rq /\ current' = current /\ pendsv' = pendsv
      BY <2>1 DEF NoSwap
    <3>2. ReadySet' = ReadySet
      BY <2>1 DEF SemGive, ReadySet, Ready
    <3>3. is_preempt(prio[current], slock[current]) => \A u \in ReadySet : prio[current] <= prio[u]
      BY InCall, CurrentHighest
    <3> QED BY <3>1, <3>2, <3>3, <1>2, InCall DEF Switched, TypeOK
  <2>2. CASE waitq # << >>
    <3>1. reschedule_threads(GiveReadyQ, prio, slock)
      BY <2>2
    <3> QED BY <3>1, <1>1, <1>2, InCall, RescheduleSwitched
  <2> QED BY <2>1, <2>2
<1> QED BY <1>1, <1>3, Conclude

\* k_sem_give() in an ISR preserves the invariant.
LEMMA IsrGiveStep == ASSUME IInv, isr_k_sem_give PROVE IInv'
<1> USE DEF isr_k_sem_give
<1>1. /\ RQ(GiveReadyQ, prio', ReadySet')
      /\ ReadySet \subseteq ReadySet' /\ ReadySet' \in SUBSET Thread
      /\ TypeRest' /\ WaitersMatchSemaphore' /\ FlagInv' /\ Ready(Idle)'
  BY GiveEffect
<1>2. /\ ~pendsv => current \in ReadySet'
      /\ Idle \in ReadySet' /\ (DeferredSwap \/ ~pendsv) /\ TypeOK
  BY <1>1, SchedAssumption DEF IInv, RunInv, ReadySet, TypeOK
<1>3. Switched(prio', slock', ReadySet')
  BY <1>1, <1>2, IntExitSwitched
<1> QED BY <1>1, <1>3, Conclude

\* The expiry of a timeout preserves the invariant.
LEMMA TimeoutStep == ASSUME IInv, NEW t \in Thread, handle_one_timeout(t) PROVE IInv'
<1> USE DEF handle_one_timeout
<1>0. t \notin ReadySet /\ Idle \in ReadySet /\ ReadySet \in SUBSET Thread
  BY SchedAssumption DEF ReadySet, Ready, is_thread_ready, IInv, RunInv
<1>1. ReadySet' = IF is_thread_ready(flags'[t], FALSE) THEN ReadySet \cup {t} ELSE ReadySet
  <2>1. \A u \in Thread : u # t => (u \in ReadySet' <=> u \in ReadySet)
    BY DEF ReadySet, Ready, IInv, TypeOK
  <2>2. tmo'[t] = FALSE
    BY DEF IInv, TypeOK
  <2>3. t \in ReadySet' <=> is_thread_ready(flags'[t], FALSE)
    BY <2>2 DEF ReadySet, Ready, is_thread_ready
  <2> QED BY <2>1, <2>3, <1>0 DEF ReadySet
<1>2. RQ(rq', prio', ReadySet')
  <2>1. RQ(rq, prio, ReadySet) /\ prio \in [Thread -> Prio]
    BY DEF IInv, QInv, TypeOK
  <2>2. rq' = ReadyIf(rq, prio, t, flags'[t], FALSE) /\ prio' = prio
    BY DEF NoSwap
  <2> HIDE DEF handle_one_timeout
  <2>3. RQ(ReadyIf(rq, prio, t, flags'[t], FALSE), prio,
           IF is_thread_ready(flags'[t], FALSE) THEN ReadySet \cup {t} ELSE ReadySet)
    BY <2>1, <1>0, ReadyIfPreserves
  <2> QED BY <2>2, <2>3, <1>1
<1>3. WaitersMatchSemaphore' /\ waitq' \in Seq(Thread)
  <2> DEFINE keep == flags[t] \ {"PENDING", "PRESTART"}
             add == (flags[t] \ {"PENDING", "PRESTART"})
  <2>1. CASE "PENDING" \in flags[t]
    <3>1. "PRESTART" \notin flags[t]
      BY <2>1 DEF IInv, FlagInv
    <3>2. keep = (flags[t] \ {"PENDING"}) \cup {}
      BY <3>1
    <3>3. flags' = [flags EXCEPT ![t] = keep] /\ count' = count
      OBVIOUS
    <3> HIDE DEF keep
    <3> QED BY <3>2, <3>3, UnpendEffect DEF IInv
  <2>2. CASE "PENDING" \notin flags[t]
    <3>1. waitq' = waitq /\ count' = count
          /\ \A u \in Thread : "PENDING" \in flags'[u] <=> "PENDING" \in flags[u]
      BY <2>2 DEF IInv, TypeOK
    <3> QED BY <3>1, WaitersSame DEF IInv, TypeOK
  <2> QED BY <2>1, <2>2
<1>4. TypeRest'
  <2>1. flags' \in [Thread -> SUBSET Flag] /\ tmo' \in [Thread -> BOOLEAN]
    BY DEF IInv, TypeOK, Flag
  <2>2. tick' \in BOOLEAN
    BY Zenon
  <2> QED BY <2>1, <2>2, <1>3 DEF IInv, TypeOK, TypeRest
<1>5. FlagInv'
  BY DEF IInv, TypeOK, FlagInv
<1>6. \A u \in ReadySet : Ready(u)'
  <2>1. ReadySet \subseteq ReadySet'
    BY <1>1
  <2> QED BY <2>1 DEF ReadySet
<1>7. RunInv'
  BY <1>0, <1>6 DEF IInv, RunInv, NoSwap, ReadySet, TypeOK
<1>8. TypeOK'
  BY <1>2, <1>4 DEF TypeRest, TypeOK, RQ, NoSwap, IInv
<1>9. NoMissedPreemption'
  BY DEF NoMissedPreemption
<1> QED BY <1>2, <1>3, <1>5, <1>7, <1>8, <1>9 DEF IInv, QInv

\* The end of the tick, with or without time slicing, preserves the invariant.
LEMMA TickEndStep == ASSUME IInv, SafeConfig, tick_announce_end PROVE IInv'
<1> USE DEF tick_announce_end
<1>0. /\ RQ(rq, prio, ReadySet) /\ prio \in [Thread -> Prio] /\ TypeOK
      /\ ReadySet \in SUBSET Thread /\ Idle \in ReadySet
      /\ DeferredSwap \/ ~pendsv
      /\ ~pendsv => current \in ReadySet
  BY SchedAssumption DEF IInv, TypeOK, QInv, ReadySet, RunInv
<1>1. SliceEnds => current \in ReadySet /\ ~Linked(waitq, current)
  <2> SUFFICES ASSUME SliceEnds PROVE current \in ReadySet /\ ~Linked(waitq, current)
    OBVIOUS
  <2>1. current \in ReadySet
    BY <1>0 DEF SliceEnds, SafeConfig, IInv, RunInv
  <2>2. "PENDING" \notin flags[current]
    BY <2>1 DEF ReadySet, Ready, is_thread_ready, Flag
  <2> QED BY <2>1, <2>2 DEF IInv, WaitersMatchSemaphore, TypeOK
<1>2. waitq' = waitq
  BY <1>1, RemoveAbsent
<1>3. ReadySet' = ReadySet
  BY DEF ReadySet, Ready
<1> DEFINE r == IF SliceEnds THEN move_thread_to_end_of_prio_q(rq, prio, current) ELSE rq
<1>4. RQ(r, prio, ReadySet)
  BY <1>0, <1>1, MovePreserves
<1>5. IntExit(r)
  OBVIOUS
<1>6. Switched(prio', slock', ReadySet')
  <2> HIDE DEF r
  <2>1. Switched(prio, slock, ReadySet)
    BY <1>0, <1>4, <1>5, IntExitSwitched
  <2> QED BY <2>1, <1>3
<1>7. TypeRest'
  <2>1. tick' \in BOOLEAN
    BY Zenon
  <2>2. elapsed' \in Nat
    BY DEF IInv, TypeOK
  <2> QED BY <2>1, <2>2, <1>2 DEF IInv, TypeOK, TypeRest
<1>8. WaitersMatchSemaphore' /\ FlagInv' /\ Ready(Idle)'
  BY <1>2, WaitersSame DEF IInv, FlagInv, RunInv, Ready
<1> QED BY <1>6, <1>7, <1>8, Conclude

\* The context switch in PendSV preserves the invariant.
LEMMA PendSVStep == ASSUME IInv, PendSV PROVE IInv'
<1> USE DEF PendSV
<1>0. /\ RQ(rq, prio, ReadySet) /\ prio \in [Thread -> Prio]
      /\ ReadySet \in SUBSET Thread /\ Idle \in ReadySet
  BY SchedAssumption DEF IInv, TypeOK, QInv, ReadySet, RunInv
<1>1. ReadySet' = ReadySet
  BY DEF ReadySet, Ready
<1>2. /\ RQ(rq', prio, ReadySet) /\ current' \in ReadySet
      /\ \A u \in ReadySet : prio[current'] <= prio[u]
  BY <1>0, NextPreserves
<1>3. pendsv' \in BOOLEAN
  BY Zenon
<1>4. Switched(prio', slock', ReadySet')
  BY <1>0, <1>1, <1>2, <1>3 DEF Switched
<1>5. TypeRest'
  BY DEF IInv, TypeOK, TypeRest
<1>6. WaitersMatchSemaphore' /\ FlagInv' /\ Ready(Idle)'
  BY WaitersSame DEF IInv, FlagInv, RunInv, Ready
<1> QED BY <1>4, <1>5, <1>6, Conclude

\* Every step of the scheduler preserves the invariant.
LEMMA NextInv == ASSUME IInv, SafeConfig, [Next]_vars PROVE IInv'
<1>1. ASSUME ThreadStep PROVE IInv'
  BY <1>1, SchedLockStep, SchedUnlockStep, YieldStep, SleepStep, SemTakeStep,
     SemGiveStep, SemPendStep, WakeupStep, SuspendStep, ResumeStep, CancelStep,
     AbortStep, PrioritySetStep, SpawnStep DEF ThreadStep
<1>2. ASSUME IsrStep PROVE IInv'
  BY <1>2, IsrGiveStep, TickEndStep, IsrWakeupStep, TimeoutStep DEF IsrStep
<1>3. ASSUME PendSV PROVE IInv'
  BY <1>3, PendSVStep
<1>4. ASSUME UNCHANGED vars PROVE IInv'
  BY <1>4 DEF vars, IInv, TypeOK, QInv, WaitersMatchSemaphore, FlagInv, RunInv,
     NoMissedPreemption, Ready, ReadySet
<1> QED BY <1>1, <1>2, <1>3, <1>4 DEF Next

(***************************************************************************)
(* The theorems                                                            *)
(***************************************************************************)

\* The inductive invariant holds in every reachable state.
THEOREM SchedInvariant == ASSUME SafeConfig PROVE Spec => []IInv
<1>1. IInv /\ [Next]_vars => IInv'
  BY NextInv
<1> QED BY <1>1, InitInv, PTL DEF Spec

\* The variables keep their types: no action of the scheduler leaves its state
\* space, for any number of threads.
THEOREM SchedTypeOK == ASSUME SafeConfig PROVE Spec => []TypeOK
<1>1. IInv => TypeOK
  BY DEF IInv
<1> QED BY <1>1, SchedInvariant, PTL

\* The ready queue and its bitmap mirror the state of the threads.
THEOREM SchedReadyQ == ASSUME SafeConfig PROVE Spec => []ReadyQMirrorsThreads
<1>1. IInv => ReadyQMirrorsThreads
  BY DEF IInv, QInv, RQ, ReadyQMirrorsThreads, ReadySet
<1> QED BY <1>1, SchedInvariant, PTL

\* The cache of the next thread is never stale.
THEOREM SchedCache == ASSUME SafeConfig PROVE Spec => []CacheIsNext
<1>1. ASSUME IInv PROVE CacheIsNext
  <2>1. /\ RQ(rq, prio, ReadySet) /\ prio \in [Thread -> Prio]
        /\ ReadySet \in SUBSET Thread /\ ReadySet # {}
    BY <1>1, SchedAssumption DEF IInv, TypeOK, QInv, ReadySet, RunInv
  <2> QED BY <2>1, NextPreserves DEF CacheIsNext, get_next_ready_thread
<1> QED BY <1>1, SchedInvariant, PTL

\* No preemption is missed, whatever the calls and the interrupts.
THEOREM SchedPreemption == ASSUME SafeConfig PROVE Spec => []NoMissedPreemption
<1>1. IInv => NoMissedPreemption
  BY DEF IInv
<1> QED BY <1>1, SchedInvariant, PTL

\* The wait queue holds exactly the pending threads, and none of them waits for
\* a semaphore that has a unit to give.
THEOREM SchedWaiters == ASSUME SafeConfig PROVE Spec => []WaitersMatchSemaphore
<1>1. IInv => WaitersMatchSemaphore
  BY DEF IInv
<1> QED BY <1>1, SchedInvariant, PTL
=============================================================================
