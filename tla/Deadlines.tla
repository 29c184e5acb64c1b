----------------------------- MODULE Deadlines -----------------------------
(***************************************************************************)
(* What the timeout queue promises, with no queue: every armed timeout     *)
(* counts down by itself, expires in the tick that takes it to zero, not   *)
(* before and not after, and is inert once it has expired or was aborted.  *)
(***************************************************************************)
EXTENDS Integers

CONSTANTS Timeout, MaxTicks

VARIABLES
  rem,      \* ticks left of each timeout, -1 when it is not armed
  ticking   \* the expired timeouts of a tick are being handled

vars == <<rem, ticking>>

Armed(t) == rem[t] # -1

Init == rem = [t \in Timeout |-> -1] /\ ticking = FALSE

Arm(t, n) == ~Armed(t) /\ rem' = [rem EXCEPT ![t] = n] /\ UNCHANGED ticking

Abort(t) == Armed(t) /\ rem' = [rem EXCEPT ![t] = -1] /\ UNCHANGED ticking

\* A restart of an armed timeout in one step
Rearm(t, n) == Armed(t) /\ rem' = [rem EXCEPT ![t] = n] /\ UNCHANGED ticking

\* n ticks pass, at most as many as the first timeout has left.  None pass if the
\* driver wakes from an idle that was too short.
Elapse(n) ==
  /\ ~ticking
  /\ \A t \in Timeout : Armed(t) => rem[t] >= n
  /\ rem' = [t \in Timeout |-> IF Armed(t) THEN rem[t] - n ELSE -1]
  /\ ticking' = TRUE

\* t expires.  If it is periodic it is armed again with its period, and its
\* callback may arm a timeout, t itself or another.
Expire(t) ==
  /\ ticking /\ rem[t] = 0
  /\ \E m \in {-1} \cup 1..MaxTicks :
       \/ rem' = [rem EXCEPT ![t] = m]
       \/ \E u \in Timeout, n \in 1..MaxTicks : rem' = [rem EXCEPT ![t] = m, ![u] = n]
  /\ UNCHANGED ticking

\* The tick ends when nothing that is due is left.
TickEnd ==
  /\ ticking /\ \A t \in Timeout : rem[t] # 0
  /\ ticking' = FALSE
  /\ UNCHANGED rem

Next ==
  \/ \E t \in Timeout : Abort(t) \/ Expire(t)
                          \/ \E n \in 1..MaxTicks : Arm(t, n) \/ Rearm(t, n)
  \/ \E n \in 0..MaxTicks : Elapse(n)
  \/ TickEnd

Spec == Init /\ [][Next]_vars
=============================================================================
