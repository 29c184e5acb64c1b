------------------------------ MODULE MCSched ------------------------------
(***************************************************************************)
(* Small instances of the scheduler for TLC.                               *)
(***************************************************************************)
EXTENDS Sched

CONSTANTS t1, t2

MCPreemptPrio == {0, 1}
MCPrio2 == {-1, 0}
Symm == {[t \in Thread |-> t], [t \in Thread |-> IF t = t1 THEN t2 ELSE IF t = t2 THEN t1 ELSE t]}
=============================================================================
