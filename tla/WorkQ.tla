------------------------------- MODULE WorkQ -------------------------------
(***************************************************************************)
(* Work queues, delayed work and alerts (work_q.c, alert.c, and the inline *)
(* functions of kernel.h).                                                 *)
(*                                                                         *)
(* A work item is submitted by setting its pending bit and putting it into *)
(* the fifo of a queue, two steps between which the caller may be          *)
(* preempted.  The thread of the queue gets it, clears the bit and calls   *)
(* the handler.  The delayed calls, and the timeout callback, run with     *)
(* interrupts locked.  The fifo is the one of Queues.tla, in the form      *)
(* Channel.tla gives it; the ticks of a delay are counted by TimeoutQ.tla, *)
(* here a countdown ends at any time.                                      *)
(*                                                                         *)
(* Callers are threads, handlers and ISRs.                                 *)
(***************************************************************************)
EXTENDS Integers, Sequences, FiniteSets

CONSTANTS
  WorkQueue, sys_work_q,   \* the queues, and k_sys_work_q
  Work,                    \* struct k_work items
  DelayedWork,             \* struct k_delayed_work items
  Alert, DefaultAlert,     \* alerts with a handler, and with K_ALERT_DEFAULT
  Caller, NULL,
  MaxSends,                \* bound on send_count
  MaxPending               \* max_num_pending_alerts

ASSUME WorkQAssumption ==
  /\ sys_work_q \in WorkQueue /\ NULL \notin WorkQueue
  /\ Work \cap DelayedWork = {} /\ Alert \cap (Work \cup DelayedWork \cup DefaultAlert) = {}
  /\ MaxSends \in Nat \ {0} /\ MaxPending \in Nat \ {0}

Item == Work \cup DelayedWork \cup Alert

VARIABLES
  pending,     \* the items whose K_WORK_STATE_PENDING bit is set
  fifo,        \* work_q->fifo
  main,        \* where work_q_main() is: [at, item]
  call,        \* where a caller is: [at, queue, item]
  work_q,      \* work->work_q of the delayed items
  counting,    \* the delayed items whose timeout is on the timeout queue
  send_count,  \* alert->send_count
  sem          \* the count of alert->sem

vars == <<pending, fifo, main, call, work_q, counting, send_count, sem>>

Waiting == [at |-> "fifo_get", item |-> NULL]
Outside == [at |-> "outside", queue |-> NULL, item |-> NULL]

\* k_work_init(), k_delayed_work_init(), k_alert_init(), k_work_q_start()
Init ==
  /\ pending = {} /\ counting = {}
  /\ fifo = [q \in WorkQueue |-> << >>]
  /\ main = [q \in WorkQueue |-> Waiting]
  /\ call = [c \in Caller |-> Outside]
  /\ work_q = [w \in DelayedWork |-> NULL]
  /\ send_count = [a \in Alert |-> 0]
  /\ sem = [a \in Alert \cup DefaultAlert |-> 0]

(***************************************************************************)
(* Submission                                                              *)
(***************************************************************************)

\* Mutant: the bit is tested and set in two steps, and the test was made before.
submit_untested(c, q, w) ==
  /\ pending' = pending \cup {w}
  /\ call' = [call EXCEPT ![c] = [at |-> "fifo_put", queue |-> q, item |-> w]]

\* k_work_submit_to_queue(), up to the call of k_fifo_put()
test_and_set_pending(c, q, w) ==
  /\ pending' = pending \cup {w}
  /\ call' = [call EXCEPT ![c] = IF w \in pending THEN Outside
                                 ELSE [at |-> "fifo_put", queue |-> q, item |-> w]]

k_work_submit_to_queue(c, q, w) ==
  /\ call[c] = Outside
  /\ test_and_set_pending(c, q, w)
  /\ UNCHANGED <<fifo, main, work_q, counting, send_count, sem>>

\* Mutant: the item is put in front of the ones that wait.
put_in_front(c) ==
  /\ call[c].at = "fifo_put"
  /\ fifo' = [fifo EXCEPT ![call[c].queue] = <<call[c].item>> \o @]
  /\ call' = [call EXCEPT ![c] = Outside]
  /\ UNCHANGED <<pending, main, work_q, counting, send_count, sem>>

\* ... which links it behind them
k_fifo_put(c) ==
  /\ call[c].at = "fifo_put"
  /\ fifo' = [fifo EXCEPT ![call[c].queue] = Append(@, call[c].item)]
  /\ call' = [call EXCEPT ![c] = Outside]
  /\ UNCHANGED <<pending, main, work_q, counting, send_count, sem>>

\* ... and the whole of it with interrupts locked
SubmitLocked(q, w) ==
  /\ pending' = pending \cup {w}
  /\ fifo' = IF w \in pending THEN fifo ELSE [fifo EXCEPT ![q] = Append(@, w)]

(***************************************************************************)
(* Delayed work                                                            *)
(***************************************************************************)

\* What k_delayed_work_cancel() returns
CancelResult(w) ==
  CASE w \in pending                       -> "EINPROGRESS"
    [] w \notin pending /\ work_q[w] = NULL -> "EINVAL"
    [] OTHER                               -> "OK"

\* What k_delayed_work_submit_to_queue() returns
SubmitResult(q, w) ==
  CASE work_q[w] \notin {NULL, q} -> "EADDRINUSE"
    [] work_q[w] = q              -> CancelResult(w)
    [] OTHER                      -> "OK"

\* k_delayed_work_submit_to_queue() that starts a countdown, or restarts it.  A
\* call that fails changes nothing.
k_delayed_work_submit_to_queue(q, w) ==
  /\ SubmitResult(q, w) = "OK"
  /\ work_q' = [work_q EXCEPT ![w] = q]
  /\ counting' = counting \cup {w}
  /\ UNCHANGED <<pending, fifo, main, call, send_count, sem>>

\* ... with no delay
k_delayed_work_submit_now(q, w) ==
  /\ SubmitResult(q, w) = "OK"
  /\ work_q' = [work_q EXCEPT ![w] = q]
  /\ counting' = IF work_q[w] = q THEN counting \ {w} ELSE counting
  /\ SubmitLocked(q, w)
  /\ UNCHANGED <<main, call, send_count, sem>>

\* Mutant: the item is detached and its countdown goes on.
cancel_no_abort(w) ==
  /\ CancelResult(w) = "OK"
  /\ work_q' = [work_q EXCEPT ![w] = NULL]
  /\ UNCHANGED <<pending, fifo, main, call, counting, send_count, sem>>

k_delayed_work_cancel(w) ==
  /\ CancelResult(w) = "OK"
  /\ counting' = counting \ {w}
  /\ work_q' = [work_q EXCEPT ![w] = NULL]
  /\ UNCHANGED <<pending, fifo, main, call, send_count, sem>>

\* The callback of an expired countdown
work_timeout(w) ==
  /\ w \in counting
  /\ counting' = counting \ {w}
  /\ SubmitLocked(work_q[w], w)
  /\ work_q' = [work_q EXCEPT ![w] = NULL]
  /\ UNCHANGED <<main, call, send_count, sem>>

(***************************************************************************)
(* The thread of a queue                                                   *)
(***************************************************************************)

\* work_q_main(): k_fifo_get() returns an item
work_q_main_get(q) ==
  /\ main[q] = Waiting /\ fifo[q] # << >>
  /\ main' = [main EXCEPT ![q] = [at |-> "got", item |-> Head(fifo[q])]]
  /\ fifo' = [fifo EXCEPT ![q] = Tail(@)]
  /\ UNCHANGED <<pending, call, work_q, counting, send_count, sem>>

\* ... its pending bit is cleared, and the handler called if it was set
work_q_main_clear(q) ==
  /\ main[q].at = "got"
  /\ pending' = pending \ {main[q].item}
  /\ main' = [main EXCEPT ![q] = IF main[q].item \in pending
                                 THEN [@ EXCEPT !.at = "handler"] ELSE Waiting]
  /\ UNCHANGED <<fifo, call, work_q, counting, send_count, sem>>

\* ... the handler returns, and k_yield()
work_q_main_loop(q) ==
  /\ main[q].at = "handler" /\ main[q].item \notin Alert
  /\ main' = [main EXCEPT ![q] = Waiting]
  /\ UNCHANGED <<pending, fifo, call, work_q, counting, send_count, sem>>

(***************************************************************************)
(* Alerts                                                                  *)
(***************************************************************************)

\* k_sem_give() on the semaphore of an alert, that has a limit
SemGive(a) == sem' = [sem EXCEPT ![a] = IF @ < MaxPending THEN @ + 1 ELSE @]

\* k_alert_send() to an alert with a handler: the first of several sends submits
\* the work item.
k_alert_send(c, a) ==
  /\ call[c] = Outside /\ send_count[a] < MaxSends
  /\ send_count' = [send_count EXCEPT ![a] = @ + 1]
  /\ call' = IF send_count[a] = 0
             THEN [call EXCEPT ![c] = [at |-> "send", queue |-> sys_work_q, item |-> a]]
             ELSE call
  /\ UNCHANGED <<pending, fifo, main, work_q, counting, sem>>

k_alert_send_submit(c) ==
  /\ call[c].at = "send"
  /\ test_and_set_pending(c, call[c].queue, call[c].item)
  /\ UNCHANGED <<fifo, main, work_q, counting, send_count, sem>>

\* ... and to one that is only pended
k_alert_send_default(a) ==
  /\ SemGive(a)
  /\ UNCHANGED <<pending, fifo, main, call, work_q, counting, send_count>>

\* _alert_deliver(), the handler of the work item of an alert: the alert's own
\* handler, which may have it pended,
alert_deliver(q) ==
  /\ main[q].at = "handler" /\ main[q].item \in Alert
  /\ main' = [main EXCEPT ![q].at = "delivered"]
  /\ SemGive(main[q].item) \/ UNCHANGED sem
  /\ UNCHANGED <<pending, fifo, call, work_q, counting, send_count>>

\* Mutant: it returns when no alert was left before the one just delivered.
deliver_one_more(q) ==
  /\ main[q].at = "delivered"
  /\ send_count' = [send_count EXCEPT ![main[q].item] = IF @ = 0 THEN 0 ELSE @ - 1]
  /\ main' = [main EXCEPT ![q] = IF send_count[main[q].item] = 0 THEN Waiting
                                 ELSE [@ EXCEPT !.at = "handler"]]
  /\ UNCHANGED <<pending, fifo, call, work_q, counting, sem>>

\* ... until as many have been delivered as were sent
alert_deliver_next(q) ==
  /\ main[q].at = "delivered"
  /\ send_count' = [send_count EXCEPT ![main[q].item] = @ - 1]
  /\ main' = [main EXCEPT ![q] = IF send_count[main[q].item] = 1 THEN Waiting
                                 ELSE [@ EXCEPT !.at = "handler"]]
  /\ UNCHANGED <<pending, fifo, call, work_q, counting, sem>>

\* k_alert_recv() of a pended alert; the wait for one is a semaphore's (Sched.tla).
k_alert_recv(a) ==
  /\ sem[a] > 0
  /\ sem' = [sem EXCEPT ![a] = @ - 1]
  /\ UNCHANGED <<pending, fifo, main, call, work_q, counting, send_count>>

(***************************************************************************)
(* Specification                                                           *)
(***************************************************************************)

MainStep(q) ==
  \/ work_q_main_get(q) \/ work_q_main_clear(q) \/ work_q_main_loop(q)
  \/ alert_deliver(q) \/ alert_deliver_next(q)

CallStep(c) == k_fifo_put(c) \/ k_alert_send_submit(c)

Next ==
  \/ \E c \in Caller : CallStep(c)
  \/ \E c \in Caller, q \in WorkQueue, w \in Work : k_work_submit_to_queue(c, q, w)
  \/ \E q \in WorkQueue, w \in DelayedWork :
       k_delayed_work_submit_to_queue(q, w) \/ k_delayed_work_submit_now(q, w)
  \/ \E w \in DelayedWork : k_delayed_work_cancel(w) \/ work_timeout(w)
  \/ \E q \in WorkQueue : MainStep(q)
  \/ \E c \in Caller, a \in Alert : k_alert_send(c, a)
  \/ \E a \in DefaultAlert : k_alert_send_default(a)
  \/ \E a \in Alert \cup DefaultAlert : k_alert_recv(a)

Spec == Init /\ [][Next]_vars

\* A caller that was preempted runs again, and the thread of a queue gets to run
\* and its handlers return; a countdown ends with the clock.
FairSpec ==
  /\ Spec
  /\ \A c \in Caller : WF_vars(CallStep(c))
  /\ \A q \in WorkQueue : WF_vars(MainStep(q))
  /\ \A w \in DelayedWork : WF_vars(work_timeout(w))

(***************************************************************************)
(* Properties                                                              *)
(***************************************************************************)

\* The hands that hold a submitted item: places in the fifos, callers that are about
\* to put it there, queue threads that have just got it.
FifoHands(w) ==
  UNION {{<<"fifo", q, i>> : i \in {j \in 1..Len(fifo[q]) : fifo[q][j] = w}} : q \in WorkQueue}
CallerHands(w) ==
  {<<"caller", c>> : c \in {d \in Caller : call[d].at = "fifo_put" /\ call[d].item = w}}
ThreadHands(w) ==
  {<<"thread", q>> : q \in {p \in WorkQueue : main[p].at = "got" /\ main[p].item = w}}
Hands(w) == FifoHands(w) \cup CallerHands(w) \cup ThreadHands(w)

\* A pending item is in exactly one hand, and one that is not pending in none:
\* never linked into two fifos, nor twice into one, by submissions that race with
\* each other, with the timeout or with the queue thread, and never marked pending
\* while no queue will ever run it.
PendingInOneHand == \A w \in Item : Cardinality(Hands(w)) = IF w \in pending THEN 1 ELSE 0

\* The callback of a countdown finds a queue in work->work_q, and a new countdown
\* is never started with the timeout still on the timeout queue: an item that is
\* detached from its queue does not count down.
CountdownHasQueue == \A w \in DelayedWork : w \in counting => work_q[w] # NULL

\* No alert is lost and none is delivered twice: there are alerts to deliver
\* exactly when the work item is on its way or its handler is at work.
AlertInFlight ==
  \A a \in Alert : send_count[a] > 0 <=>
    \/ a \in pending
    \/ \E c \in Caller : call[c].at = "send" /\ call[c].item = a
    \/ \E q \in WorkQueue : main[q].at \in {"handler", "delivered"} /\ main[q].item = a

\* Every item that is submitted is handed to its handler, whatever else is in the
\* queues, and every alert sent is followed by a delivery.  Alerts may be sent as
\* fast as they are delivered, and then _alert_deliver() never lets go of the
\* system work queue: only a stream of alerts that goes on for ever is left out.
SubmittedIsHandled ==
  \/ []<><<\E c \in Caller, a \in Alert : k_alert_send(c, a)>>_vars
  \/ /\ \A w \in Item :
          w \in pending ~> \E q \in WorkQueue : main[q] = [at |-> "handler", item |-> w]
     /\ \A a \in Alert :
          send_count[a] > 0 ~> main[sys_work_q] = [at |-> "delivered", item |-> a]
=============================================================================
