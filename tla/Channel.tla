------------------------------ MODULE Channel ------------------------------
(***************************************************************************)
(* What the data passing objects promise, with no threads waiting: items   *)
(* leave in the order of the object, each to one receiver, and an item     *)
(* passes the others by only if there are none.                            *)
(***************************************************************************)
EXTENDS Integers, Sequences

CONSTANTS Thread, Item, NULL

VARIABLES
  lifo,     \* the item put last leaves first; else the one put first does
  content,  \* the items in the object, the one to leave next first
  recv      \* the item a thread has been given and not yet returned with

vars == <<lifo, content, recv>>

Init == lifo \in BOOLEAN /\ content \in Seq(Item) /\ recv = [t \in Thread |-> NULL]

Added(c, xs) == IF lifo THEN xs \o c ELSE c \o xs

\* The items xs are sent; the first of them go straight to the threads ts.
Send(xs, ts) ==
  /\ ts # << >> => content = << >>
  /\ \A i, j \in 1..Len(ts) : ts[i] = ts[j] => i = j
  /\ \A i \in 1..Len(ts) : recv[ts[i]] = NULL
  /\ recv' = [t \in Thread |-> IF \E i \in 1..Len(ts) : ts[i] = t
                               THEN xs[CHOOSE i \in 1..Len(ts) : ts[i] = t] ELSE recv[t]]
  /\ content' = Added(content, SubSeq(xs, Len(ts) + 1, Len(xs)))
  /\ UNCHANGED lifo

\* A thread receives the first item, and the item of a blocked sender may follow.
Receive(t, xs) ==
  /\ content # << >> /\ recv[t] = NULL
  /\ recv' = [recv EXCEPT ![t] = Head(content)]
  /\ content' = Added(Tail(content), xs)
  /\ UNCHANGED lifo

Return(t) == recv' = [recv EXCEPT ![t] = NULL] /\ UNCHANGED <<lifo, content>>

Purge == content' = << >> /\ UNCHANGED <<lifo, recv>>

Next ==
  \/ \E t \in Thread : Return(t)
  \/ \E t \in Thread, x \in Item : Receive(t, << >>) \/ Receive(t, <<x>>)
  \/ \E m \in 1..2 : \E xs \in [1..m -> Item] :
       \E n \in 0..m : \E ts \in [1..n -> Thread] : Send(xs, ts)
  \/ Purge

Spec == Init /\ [][Next]_vars
=============================================================================
