------------------------------ MODULE TimeoutQ ------------------------------
(***************************************************************************)
(* The timeout queue of timeout_q.h: a delta queue, in which a timeout     *)
(* holds the ticks it expires after the timeout before it.  Its users are  *)
(* the waits and sleeps of threads and the timers of Timer.tla.            *)
(*                                                                         *)
(* Every operation runs with interrupts locked.  The handling of a tick is *)
(* a loop that calls back into the users of the timeouts, so that one turn *)
(* of the loop is one action.                                              *)
(***************************************************************************)
EXTENDS DList

CONSTANTS
  Timeout,    \* struct _timeout objects
  MaxTicks    \* bound on the durations, in ticks

ASSUME TimeoutAssumption == MaxTicks \in Nat \ {0}

VARIABLES
  tq,         \* _timeout_q
  delta,      \* delta_ticks_from_prev of each timeout, -1 when not on the queue
  ticking     \* _handle_timeouts() is running

qvars == <<tq, delta, ticking>>

Armed(t) == delta[t] # -1

\* The ticks left before the timeout at the position i of a queue expires: the sum
\* k_timer_remaining_get() computes.
Sums(q, d) ==
  LET sum[i \in 0..Len(q)] == IF i = 0 THEN 0 ELSE sum[i - 1] + d[q[i]] IN sum

RemainingAt(q, d, i) == Sums(q, d)[i]

remaining(t) ==
  IF Armed(t) THEN RemainingAt(tq, delta, CHOOSE i \in 1..Len(tq) : tq[i] = t) ELSE -1

Left == [t \in Timeout |-> remaining(t)]

(***************************************************************************)
(* Functions from a queue [q, d] to the next                               *)
(***************************************************************************)

\* Mutant: the timeout after the new one keeps its delta.
add_no_adjust(Q, t, n) ==
  LET P == {i \in 1..Len(Q.q) : n <= RemainingAt(Q.q, Q.d, i)}
      k == IF P = {} THEN Len(Q.q) + 1 ELSE CHOOSE i \in P : \A j \in P : i <= j
  IN  [q |-> sys_dlist_insert_at(Q.q, t, {Q.q[i] : i \in P}),
       d |-> [Q.d EXCEPT ![t] = n - RemainingAt(Q.q, Q.d, k - 1)]]

\* _add_timeout(): _is_timeout_insert_point() walks down the queue and takes
\* what it passes from the duration, up to the first timeout that expires no
\* earlier; that one then counts from the new one.
add_timeout(Q, t, n) ==
  LET P == {i \in 1..Len(Q.q) : n <= RemainingAt(Q.q, Q.d, i)}
      k == IF P = {} THEN Len(Q.q) + 1 ELSE CHOOSE i \in P : \A j \in P : i <= j
      left == n - RemainingAt(Q.q, Q.d, k - 1)
  IN  [q |-> sys_dlist_insert_at(Q.q, t, {Q.q[i] : i \in P}),
       d |-> [u \in Timeout |-> CASE u = t -> left
                                  [] u # t /\ P # {} /\ u = Q.q[k] -> Q.d[u] - left
                                  [] OTHER -> Q.d[u]]]

\* Mutant: the ticks of the aborted timeout are lost to the ones after it.
abort_no_adjust(Q, t) ==
  [q |-> sys_dlist_remove(Q.q, t), d |-> [Q.d EXCEPT ![t] = -1]]

\* _abort_timeout() of a timeout on the queue
abort_timeout(Q, t) ==
  LET k == CHOOSE i \in 1..Len(Q.q) : Q.q[i] = t
      next == Q.q[k + 1]
  IN  [q |-> sys_dlist_remove(Q.q, t),
       d |-> IF sys_dlist_is_tail(Q.q, t)
             THEN [Q.d EXCEPT ![t] = -1]
             ELSE [Q.d EXCEPT ![t] = -1, ![next] = @ + Q.d[t]]]

\* sys_dlist_get() and the sentinel, at the start of _handle_one_timeout()
dequeue(Q) == [q |-> Tail(Q.q), d |-> [Q.d EXCEPT ![Head(Q.q)] = -1]]

Queue == [q |-> tq, d |-> delta]
SetQueue(Q) == tq' = Q.q /\ delta' = Q.d

\* K_FOREVER is -1
get_next_timeout_expiry == IF tq = << >> THEN -1 ELSE delta[Head(tq)]

(***************************************************************************)
(* The tick                                                                *)
(***************************************************************************)

\* handle_expired_timeouts(n), of the n ticks that the driver announces.  The code
\* relies on it that these are no more than the first timeout has left.
handle_expired_timeouts(n) ==
  /\ ~ticking
  /\ delta' = IF tq = << >> THEN delta ELSE [delta EXCEPT ![Head(tq)] = @ - n]
  /\ ticking' = TRUE
  /\ UNCHANGED tq

\* The condition of the loop in _handle_timeouts()
HeadIsDue == tq # << >> /\ delta[Head(tq)] = 0

handle_timeouts_end ==
  /\ ticking /\ ~HeadIsDue
  /\ ticking' = FALSE
  /\ UNCHANGED <<tq, delta>>

(***************************************************************************)
(* The users: any of them may arm, abort and re-arm timeouts, in the       *)
(* callback of an expired timeout too.                                     *)
(***************************************************************************)

Init == tq = << >> /\ delta = [t \in Timeout |-> -1] /\ ticking = FALSE

Arm(t, n) == ~Armed(t) /\ SetQueue(add_timeout(Queue, t, n)) /\ UNCHANGED ticking

Abort(t) == Armed(t) /\ SetQueue(abort_timeout(Queue, t)) /\ UNCHANGED ticking

\* k_timer_start() on a running timer
Rearm(t, n) ==
  Armed(t) /\ SetQueue(add_timeout(abort_timeout(Queue, t), t, n)) /\ UNCHANGED ticking

\* _handle_one_timeout(); n is the period of a periodic timer, else 0.
handle_one_timeout(n) ==
  /\ ticking /\ HeadIsDue
  /\ LET Q == dequeue(Queue)
     IN  SetQueue(IF n > 0 THEN add_timeout(Q, Head(tq), n) ELSE Q)
  /\ UNCHANGED ticking

(***************************************************************************)
(* Properties                                                              *)
(***************************************************************************)

\* A timeout is on the queue, once, exactly when its delta is not the sentinel
\* -1 that _abort_timeout() and k_timer_start() test, and deltas are never
\* negative; between ticks none is left at zero at the head, where the loop of
\* _handle_timeouts() would find it a tick late or never.
QueueMatchesDeltas ==
  /\ NoDup(tq)
  /\ \A t \in Timeout : Linked(tq, t) <=> Armed(t)
  /\ \A t \in Timeout : Armed(t) => delta[t] >= 0
  /\ ~ticking /\ tq # << >> => delta[Head(tq)] > 0

\* What the queue is to implement, independent countdowns: whatever is armed, aborted
\* and re-armed around it, and in callbacks, a timeout expires in its own tick.
Countdowns == INSTANCE Deadlines WITH rem <- Left
=============================================================================
