------------------------------- MODULE Timer -------------------------------
(***************************************************************************)
(* Kernel timers (timer.c) on the timeout queue: expiry, stop, and the     *)
(* thread that synchronises with a timer.                                  *)
(*                                                                         *)
(* Threads are interleaved freely: the priorities that decide which of     *)
(* them runs are the business of Sched.tla.  With ticking set, the         *)
(* interrupts are locked and only expiry functions run.  The timeouts that *)
(* belong to no timer are those of sleeping and waiting threads.           *)
(***************************************************************************)
EXTENDS TimeoutQ

CONSTANTS
  Tmr,         \* the timers, each named by its timeout object
  Thr,         \* threads that use them
  MaxStatus    \* expirations told apart: a status stands for itself or more

ASSUME TimerAssumption == Tmr \subseteq Timeout /\ MaxStatus \in Nat \ {0}

VARIABLES
  period,      \* timer->period in ticks
  status,      \* timer->status
  pc           \* where each thread is: [at, tmr, ret]

tvars == <<tq, delta, ticking, period, status, pc>>

\* "run": outside the timer API; "stop": in k_timer_stop() after the timeout was
\* aborted; "sync": on timer->wait_q in k_timer_status_sync(); "woken": readied
\* there, with ret the value _Swap() returns: 0 after an expiry, else -EAGAIN.
Running == [at |-> "run"]
At(th, where, tm) == pc[th].at = where /\ pc[th].tmr = tm

\* timer->wait_q: one thread at the most synchronises with a timer.
Waiters(tm) == {th \in Thr : At(th, "sync", tm)}
Syncing(tm) == {th \in Thr : At(th, "sync", tm) \/ At(th, "woken", tm)}

\* _unpend_first_thread() and _ready_thread(), with the value _Swap() will return
Wake(tm, ret) ==
  [th \in Thr |-> IF th \in Waiters(tm)
                  THEN [at |-> "woken", tmr |-> tm, ret |-> ret] ELSE pc[th]]

TimerInit ==
  /\ Init
  /\ period = [tm \in Tmr |-> 0]
  /\ status = [tm \in Tmr |-> 0]
  /\ pc = [th \in Thr |-> Running]

\* Mutant: the timeout of a timer that runs is not aborted.
started_twice(Q, tm, n) == add_timeout(Q, tm, n)

\* The queue k_timer_start() leaves
Started(Q, tm, n) == add_timeout(IF Q.d[tm] # -1 THEN abort_timeout(Q, tm) ELSE Q, tm, n)

\* k_timer_start() by a thread or an ISR; n is _TICK_ALIGN + the duration.
k_timer_start(tm, n, p) ==
  /\ ~ticking
  /\ SetQueue(Started(Queue, tm, n))
  /\ period' = [period EXCEPT ![tm] = p]
  /\ status' = [status EXCEPT ![tm] = 0]
  /\ UNCHANGED <<ticking, pc>>

\* k_timer_stop(), up to the stop function; a timer that does not run: nothing
k_timer_stop(th, tm) ==
  /\ ~ticking /\ pc[th] = Running
  /\ Armed(tm)
  /\ SetQueue(abort_timeout(Queue, tm))
  /\ pc' = [pc EXCEPT ![th] = [at |-> "stop", tmr |-> tm]]
  /\ UNCHANGED <<ticking, period, status>>

\* ... and from the stop function to the return
k_timer_stop_end(th) ==
  /\ ~ticking /\ pc[th].at = "stop"
  /\ pc' = [Wake(pc[th].tmr, -1) EXCEPT ![th] = Running]
  /\ UNCHANGED <<tq, delta, ticking, period, status>>

k_timer_status_get(tm) ==
  /\ ~ticking /\ Syncing(tm) = {}
  /\ status' = [status EXCEPT ![tm] = 0]
  /\ UNCHANGED <<tq, delta, ticking, period, pc>>

\* Mutant: the thread waits for a timer that is stopped as well.
sync_unasked(th, tm) ==
  /\ ~ticking /\ pc[th] = Running /\ Syncing(tm) = {}
  /\ pc' = IF status[tm] = 0
           THEN [pc EXCEPT ![th] = [at |-> "sync", tmr |-> tm]] ELSE pc
  /\ status' = [status EXCEPT ![tm] = 0]
  /\ UNCHANGED <<tq, delta, ticking, period>>

\* k_timer_status_sync(): waits if the timer runs and has not expired yet
k_timer_status_sync(th, tm) ==
  /\ ~ticking /\ pc[th] = Running /\ Syncing(tm) = {}
  /\ pc' = IF status[tm] = 0 /\ Armed(tm)
           THEN [pc EXCEPT ![th] = [at |-> "sync", tmr |-> tm]] ELSE pc
  /\ status' = [status EXCEPT ![tm] = 0]
  /\ UNCHANGED <<tq, delta, ticking, period>>

\* ... and what it does once it has been woken
k_timer_status_sync_end(th) ==
  /\ ~ticking /\ pc[th].at = "woken"
  /\ status' = [status EXCEPT ![pc[th].tmr] = 0]
  /\ pc' = [pc EXCEPT ![th] = Running]
  /\ UNCHANGED <<tq, delta, ticking, period>>

\* k_sleep(), waits with a timeout and their end before it expires
thread_timeout(t) ==
  /\ ~ticking /\ t \notin Tmr
  /\ IF Armed(t) THEN SetQueue(abort_timeout(Queue, t))
     ELSE \E n \in 1..MaxTicks : SetQueue(add_timeout(Queue, t, n))
  /\ UNCHANGED <<ticking, period, status, pc>>

\* As many ticks as the first timeout has left at the most (SysTick.tla)
tick_announce ==
  /\ \E n \in 1..MaxTicks :
       /\ get_next_timeout_expiry # -1 => n <= get_next_timeout_expiry
       /\ handle_expired_timeouts(n)
  /\ UNCHANGED <<period, status, pc>>

\* The queue _timer_expiration_handler() leaves before the expiry function runs
Expired(tm) ==
  LET Q == dequeue(Queue) IN IF period[tm] > 0 THEN add_timeout(Q, tm, period[tm]) ELSE Q

OneMore(n) == IF n < MaxStatus THEN n + 1 ELSE n

\* Mutant: the waiting thread of a periodic timer is not woken.
expire_wakes_oneshot ==
  /\ ticking /\ HeadIsDue /\ Head(tq) \in Tmr
  /\ LET tm == Head(tq) IN
     /\ SetQueue(Expired(tm))
     /\ status' = [status EXCEPT ![tm] = OneMore(@)]
     /\ pc' = IF period[tm] = 0 THEN Wake(tm, 0) ELSE pc
  /\ UNCHANGED <<ticking, period>>

\* _timer_expiration_handler() of a timer whose expiry function starts no timer
timer_expiration_handler ==
  /\ ticking /\ HeadIsDue /\ Head(tq) \in Tmr
  /\ LET tm == Head(tq) IN
     /\ SetQueue(Expired(tm))
     /\ status' = [status EXCEPT ![tm] = OneMore(@)]
     /\ pc' = Wake(tm, 0)
  /\ UNCHANGED <<ticking, period>>

\* ... and of one whose expiry function calls k_timer_start(), on any timer
timer_expiration_restart(tm, n, p) ==
  /\ ticking /\ HeadIsDue /\ Head(tq) \in Tmr
  /\ SetQueue(Started(Expired(Head(tq)), tm, n))
  /\ period' = [period EXCEPT ![tm] = p]
  /\ status' = [status EXCEPT ![Head(tq)] = OneMore(@), ![tm] = 0]
  /\ pc' = Wake(Head(tq), 0)
  /\ UNCHANGED ticking

\* _handle_one_timeout() of a thread's timeout
thread_times_out ==
  /\ ticking /\ HeadIsDue /\ Head(tq) \notin Tmr
  /\ SetQueue(dequeue(Queue))
  /\ UNCHANGED <<ticking, period, status, pc>>

tick_end == handle_timeouts_end /\ UNCHANGED <<period, status, pc>>

\* Some timer is started, by a thread, an ISR or an expiry function.
Restart ==
  \E tm \in Tmr, n \in 1..MaxTicks, p \in 0..MaxTicks :
    k_timer_start(tm, n, p) \/ timer_expiration_restart(tm, n, p)

TimerNext ==
  \/ Restart
  \/ \E tm \in Tmr : k_timer_status_get(tm)
  \/ \E th \in Thr, tm \in Tmr : k_timer_stop(th, tm) \/ k_timer_status_sync(th, tm)
  \/ \E th \in Thr : k_timer_stop_end(th) \/ k_timer_status_sync_end(th)
  \/ \E t \in Timeout : thread_timeout(t)
  \/ tick_announce \/ timer_expiration_handler \/ thread_times_out \/ tick_end

TimerSpec == TimerInit /\ [][TimerNext]_tvars

\* The clock ticks, the tick handler ends, and a thread that is ready gets to run
\* between two ticks at some time: its priority is not shut out for ever.  Strong
\* fairness, because every tick interrupts it.
TimerFairSpec ==
  /\ TimerSpec
  /\ WF_tvars(tick_announce)
  /\ WF_tvars(timer_expiration_handler \/ thread_times_out \/ tick_end)
  /\ \A th \in Thr : SF_tvars(k_timer_stop_end(th)) /\ SF_tvars(k_timer_status_sync_end(th))

(***************************************************************************)
(* Properties                                                              *)
(***************************************************************************)

\* No thread is stranded in k_timer_status_sync(): a thread on the wait queue of
\* a timer waits for a timer that runs, or that a thread in k_timer_stop() is
\* about to wake it from.
NoStrandedWaiter ==
  \A tm \in Tmr : Waiters(tm) # {} =>
    Armed(tm) \/ \E th \in Thr : At(th, "stop", tm)

\* k_timer_status_sync() returns, unless timers are restarted over and over.
SyncReturns ==
  \/ []<><<Restart>>_tvars
  \/ \A th \in Thr : (pc[th].at = "sync") ~> (pc[th].at = "run")

\* Timers and thread timeouts together implement the independent countdowns: a
\* period or a restart inside an expiry function never makes another one late.
TimersCountDown == Countdowns!Spec
=============================================================================
