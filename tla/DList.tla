------------------------------- MODULE DList -------------------------------
(***************************************************************************)
(* The doubly linked list of include/misc/dlist.h, which carries every     *)
(* queue of the kernel: the ready queues, the wait queues and the timeout  *)
(* queue.  A list is a sequence of the nodes linked on it, head first.     *)
(*                                                                         *)
(* A node has one pair of link fields, so it is on one list at a time.     *)
(* The sequence abstraction is exact as long as a node is appended only    *)
(* while it is on no list; the scheduler's invariants state just that.     *)
(***************************************************************************)
EXTENDS Integers, Sequences

\* The node e is linked on the list s.
Linked(s, e) == \E i \in 1..Len(s) : s[i] = e

\* No node is linked twice.
NoDup(s) == \A i, j \in 1..Len(s) : s[i] = s[j] => i = j

sys_dlist_is_empty(s) == s = << >>

sys_dlist_is_tail(s, e) == s # << >> /\ s[Len(s)] = e

sys_dlist_append(s, e) == Append(s, e)

sys_dlist_remove(s, e) ==
  IF Linked(s, e)
  THEN LET k == CHOOSE i \in 1..Len(s) : s[i] = e
       IN  [i \in 1..(Len(s) - 1) |-> IF i < k THEN s[i] ELSE s[i + 1]]
  ELSE s

\* Insert e before the first node for which the callback says so, one of C, else at
\* the tail.
sys_dlist_insert_at(s, e, C) ==
  LET P == {i \in 1..Len(s) : s[i] \in C}
      k == IF P = {} THEN Len(s) + 1 ELSE CHOOSE i \in P : \A j \in P : i <= j
  IN  [i \in 1..(Len(s) + 1) |->
         IF i < k THEN s[i] ELSE IF i = k THEN e ELSE s[i - 1]]
=============================================================================
