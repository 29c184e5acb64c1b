----------------------------- MODULE MultiWait -----------------------------
(***************************************************************************)
(* What semaphores and semaphore groups promise, with no queues and no     *)
(* stand-ins: a give is counted only if nobody waits for that semaphore,   *)
(* else it goes to one thread that does, whose wait is then over for all   *)
(* the semaphores it named; nobody waits for a semaphore that is           *)
(* available.                                                              *)
(***************************************************************************)
EXTENDS Integers

CONSTANTS Thread, Sem, SemLimit, NULL

VARIABLES
  count,   \* gives not yet taken, up to the limit
  want,    \* the semaphores a thread waits for one of
  got      \* the semaphore a thread has been granted and not yet returned with

vars == <<count, want, got>>

Init ==
  /\ count = [s \in Sem |-> 0]
  /\ want = [t \in Thread |-> {}]
  /\ got = [t \in Thread |-> NULL]

Idle(t) == want[t] = {} /\ got[t] = NULL

Take(t, s) ==
  /\ Idle(t) /\ count[s] > 0
  /\ count' = [count EXCEPT ![s] = @ - 1]
  /\ got' = [got EXCEPT ![t] = s]
  /\ UNCHANGED want

Wait(t, S) ==
  /\ Idle(t) /\ \A s \in S : count[s] = 0
  /\ want' = [want EXCEPT ![t] = S]
  /\ UNCHANGED <<count, got>>

TimeOut(t) == want' = [want EXCEPT ![t] = {}] /\ UNCHANGED <<count, got>>

Grant(t, s) ==
  /\ s \in want[t]
  /\ got' = [got EXCEPT ![t] = s]
  /\ want' = [want EXCEPT ![t] = {}]
  /\ UNCHANGED count

Count(s) ==
  /\ \A t \in Thread : s \notin want[t]
  /\ count[s] < SemLimit
  /\ count' = [count EXCEPT ![s] = @ + 1]
  /\ UNCHANGED <<want, got>>

Return(t) == got' = [got EXCEPT ![t] = NULL] /\ UNCHANGED <<count, want>>

Reset(S) ==
  /\ count' = [s \in Sem |-> IF s \in S THEN 0 ELSE count[s]]
  /\ UNCHANGED <<want, got>>

Next ==
  \/ \E t \in Thread : TimeOut(t) \/ Return(t)
  \/ \E t \in Thread, s \in Sem : Take(t, s) \/ Grant(t, s)
  \/ \E t \in Thread, S \in SUBSET Sem : Wait(t, S)
  \/ \E s \in Sem : Count(s)
  \/ \E S \in SUBSET Sem : Reset(S)

Spec == Init /\ [][Next]_vars
=============================================================================
