------------------------------- MODULE Queues -------------------------------
(***************************************************************************)
(* The objects that pass data between threads and ISRs: fifo, lifo, stack, *)
(* message queue, and the memory slab, which passes its free blocks.  All  *)
(* of them hand an item straight to the first waiting thread, if there is  *)
(* one, and store it otherwise.                                            *)
(*                                                                         *)
(* Every call is atomic up to the context switch.  Threads are interleaved *)
(* freely, and a thread that was handed an item returns with it later.     *)
(* Calls that fail at once (K_NO_WAIT) change nothing.  What a thread may  *)
(* call without waiting, an ISR may call as well.                          *)
(***************************************************************************)
EXTENDS DList, FiniteSets

CONSTANTS
  Thread, NULL,
  Item,      \* data items, messages, blocks of the slab
  MaxMsgs,   \* entries of the message queue and of the stack
  AppPrio,   \* priorities of the threads
  Kinds      \* which objects are modelled

AllKinds == {"fifo", "lifo", "stack", "msgq", "slab"}

ASSUME QueuesAssumption ==
  /\ MaxMsgs \in Nat \ {0} /\ AppPrio \subseteq Int
  /\ NULL \notin Thread \cup Item /\ IsFiniteSet(Item) /\ Kinds \subseteq AllKinds

VARIABLES
  kind,      \* the object at hand
  list,      \* fifo->data_q, lifo->list, slab->free_list, stack: base up to next
  ring,      \* k_msgq: [buf, read_ptr, write_ptr, used_msgs]
  num_used,  \* slab->num_used
  wait_q,    \* the object's wait queue
  st,        \* where each thread is: [at, item, ret]
  app,       \* items in the hands of the application
  prio,      \* base.prio
  arrived    \* history: the waiting threads in the order in which they came

vars == <<kind, list, ring, num_used, wait_q, st, app, prio, arrived>>

\* "run": outside; "wait": on wait_q, item is the message of a blocked sender, else
\* NULL; "woken": _Swap() is to return ret, or the call has succeeded, with item
\* what it was handed.
Running == [at |-> "run"]
Waiting(x) == [at |-> "wait", item |-> x]
Woken(ret, x) == [at |-> "woken", item |-> x, ret |-> ret]
OK == 0
EAGAIN == -11
ENOMSG == -80

\* The free lists of a slab of which no block is out, its blocks in any order
create_free_list == {s \in [1..Cardinality(Item) -> Item] : NoDup(s)}

\* The ring buffer k_msgq_init() sets up
k_msgq_init == [buf |-> [i \in 0..(MaxMsgs - 1) |-> NULL],
                read_ptr |-> 0, write_ptr |-> 0, used_msgs |-> 0]

Init ==
  /\ kind \in Kinds
  /\ list \in IF kind = "slab" THEN create_free_list ELSE {<< >>}
  /\ app = IF kind = "slab" THEN {} ELSE Item
  /\ ring = k_msgq_init
  /\ num_used = 0
  /\ wait_q = << >> /\ arrived = << >>
  /\ st = [t \in Thread |-> Running]
  /\ prio \in [Thread -> AppPrio]

(***************************************************************************)
(* Waiting and being handed an item                                        *)
(***************************************************************************)

\* Mutant: a thread is put in front of the waiting threads of its priority.
insert_in_front(t) ==
  sys_dlist_insert_at(wait_q, t, {w \in Thread : prio[t] <= prio[w]})

\* _pend_thread(): by priority, behind the waiters of equal priority
WaitInsert(t) == sys_dlist_insert_at(wait_q, t, {w \in Thread : prio[t] < prio[w]})

\* _pend_current_thread(), with x in swap_data
Pend(t, x) ==
  /\ st[t] = Running
  /\ wait_q' = WaitInsert(t)
  /\ arrived' = Append(arrived, t)
  /\ st' = [st EXCEPT ![t] = Waiting(x)]

\* The first waiting threads, as many as there are items xs (one or two), are handed
\* these.
Hand(xs) ==
  LET n == IF Len(wait_q) < Len(xs) THEN Len(wait_q) ELSE Len(xs)
  IN  /\ wait_q' = SubSeq(wait_q, n + 1, Len(wait_q))
      /\ arrived' = CASE n = 0 -> arrived
                      [] n = 1 -> sys_dlist_remove(arrived, wait_q[1])
                      [] n = 2 -> sys_dlist_remove(sys_dlist_remove(arrived, wait_q[1]), wait_q[2])
      /\ st' = [t \in Thread |->
                  IF \E i \in 1..n : wait_q[i] = t
                  THEN Woken(OK, xs[CHOOSE i \in 1..n : wait_q[i] = t]) ELSE st[t]]

\* A thread gets x without waiting.
Got(t, x) ==
  /\ st[t] = Running
  /\ st' = [st EXCEPT ![t] = Woken(OK, x)]
  /\ UNCHANGED <<wait_q, arrived>>

\* A call of the application hands over x.
Give(x) == x \in app /\ app' = app \ {x}

(***************************************************************************)
(* Fifo, lifo, stack and memory slab                                       *)
(***************************************************************************)

k_fifo_put(x) ==
  /\ kind = "fifo" /\ Give(x)
  /\ Hand(<<x>>)
  /\ list' = IF wait_q = << >> THEN Append(list, x) ELSE list
  /\ UNCHANGED <<kind, ring, num_used, prio>>

\* Mutant: what is left of the list goes in front.
put_list_in_front(x, y) ==
  /\ kind = "fifo" /\ x # y /\ {x, y} \subseteq app /\ app' = app \ {x, y}
  /\ Hand(<<x, y>>)
  /\ list' = CASE Len(wait_q) = 0 -> <<x, y>> \o list
               [] Len(wait_q) = 1 -> <<y>> \o list
               [] OTHER -> list
  /\ UNCHANGED <<kind, ring, num_used, prio>>

\* k_fifo_put_list() and k_fifo_put_slist() with two items
k_fifo_put_list(x, y) ==
  /\ kind = "fifo" /\ x # y /\ {x, y} \subseteq app /\ app' = app \ {x, y}
  /\ Hand(<<x, y>>)
  /\ list' = CASE Len(wait_q) = 0 -> list \o <<x, y>>
               [] Len(wait_q) = 1 -> Append(list, y)
               [] OTHER -> list
  /\ UNCHANGED <<kind, ring, num_used, prio>>

k_lifo_put(x) ==
  /\ kind = "lifo" /\ Give(x)
  /\ Hand(<<x>>)
  /\ list' = IF wait_q = << >> THEN <<x>> \o list ELSE list
  /\ UNCHANGED <<kind, ring, num_used, prio>>

\* The application does not push to a full stack.
k_stack_push(x) ==
  /\ kind = "stack" /\ Len(list) < MaxMsgs /\ Give(x)
  /\ Hand(<<x>>)
  /\ list' = IF wait_q = << >> THEN Append(list, x) ELSE list
  /\ UNCHANGED <<kind, ring, num_used, prio>>

\* Mutant: a block that is handed over goes to the free list too.
free_always(x) ==
  /\ kind = "slab" /\ Give(x)
  /\ Hand(<<x>>)
  /\ list' = <<x>> \o list
  /\ num_used' = IF wait_q = << >> THEN num_used - 1 ELSE num_used
  /\ UNCHANGED <<kind, ring, prio>>

k_mem_slab_free(x) ==
  /\ kind = "slab" /\ Give(x)
  /\ Hand(<<x>>)
  /\ list' = IF wait_q = << >> THEN <<x>> \o list ELSE list
  /\ num_used' = IF wait_q = << >> THEN num_used - 1 ELSE num_used
  /\ UNCHANGED <<kind, ring, prio>>

\* k_fifo_get(), k_lifo_get() and k_mem_slab_alloc() take the first of the list ...
TakeFirst(t) ==
  \/ list # << >> /\ Got(t, Head(list)) /\ list' = Tail(list)
  \/ list = << >> /\ Pend(t, NULL) /\ UNCHANGED list

k_fifo_get(t) ==
  /\ kind = "fifo" /\ TakeFirst(t)
  /\ UNCHANGED <<kind, ring, num_used, app, prio>>

k_lifo_get(t) ==
  /\ kind = "lifo" /\ TakeFirst(t)
  /\ UNCHANGED <<kind, ring, num_used, app, prio>>

\* ... k_stack_pop() the last ...
k_stack_pop(t) ==
  /\ kind = "stack"
  /\ \/ /\ list # << >> /\ Got(t, list[Len(list)])
        /\ list' = SubSeq(list, 1, Len(list) - 1)
     \/ list = << >> /\ Pend(t, NULL) /\ UNCHANGED list
  /\ UNCHANGED <<kind, ring, num_used, app, prio>>

\* ... and the slab counts.
k_mem_slab_alloc(t) ==
  /\ kind = "slab" /\ TakeFirst(t)
  /\ num_used' = IF list = << >> THEN num_used ELSE num_used + 1
  /\ UNCHANGED <<kind, ring, app, prio>>

(***************************************************************************)
(* Message queue                                                           *)
(***************************************************************************)

\* A pointer moves to the next entry, and from buffer_end to buffer_start.
Bump(p) == IF p + 1 = MaxMsgs THEN 0 ELSE p + 1

Written(r, x) ==
  [buf |-> [r.buf EXCEPT ![r.write_ptr] = x], read_ptr |-> r.read_ptr,
   write_ptr |-> Bump(r.write_ptr), used_msgs |-> r.used_msgs + 1]

Consumed(r) ==
  [buf |-> r.buf, read_ptr |-> Bump(r.read_ptr),
   write_ptr |-> r.write_ptr, used_msgs |-> r.used_msgs - 1]

k_msgq_put(x) ==
  /\ kind = "msgq" /\ ring.used_msgs < MaxMsgs /\ Give(x)
  /\ Hand(<<x>>)
  /\ ring' = IF wait_q = << >> THEN Written(ring, x) ELSE ring
  /\ UNCHANGED <<kind, list, num_used, prio>>

k_msgq_put_wait(t, x) ==
  /\ kind = "msgq" /\ ring.used_msgs = MaxMsgs /\ Give(x)
  /\ Pend(t, x)
  /\ UNCHANGED <<kind, list, ring, num_used, prio>>

\* Mutant: a blocked sender is left waiting.
get_wakes_nobody(t) ==
  /\ kind = "msgq" /\ st[t] = Running
  /\ \/ /\ ring.used_msgs > 0
        /\ ring' = Consumed(ring)
        /\ Got(t, ring.buf[ring.read_ptr])
     \/ ring.used_msgs = 0 /\ Pend(t, NULL) /\ UNCHANGED ring
  /\ UNCHANGED <<kind, list, num_used, app, prio>>

\* k_msgq_get(): the message of the first blocked sender takes the place of the one
\* that was received.
k_msgq_get(t) ==
  /\ kind = "msgq" /\ st[t] = Running
  /\ \/ /\ ring.used_msgs > 0 /\ wait_q = << >>
        /\ ring' = Consumed(ring)
        /\ Got(t, ring.buf[ring.read_ptr])
     \/ /\ ring.used_msgs > 0 /\ wait_q # << >>
        /\ ring' = Written(Consumed(ring), st[Head(wait_q)].item)
        /\ st' = [st EXCEPT ![t] = Woken(OK, ring.buf[ring.read_ptr]),
                            ![Head(wait_q)] = Woken(OK, NULL)]
        /\ wait_q' = Tail(wait_q) /\ arrived' = sys_dlist_remove(arrived, Head(wait_q))
     \/ ring.used_msgs = 0 /\ Pend(t, NULL) /\ UNCHANGED ring
  /\ UNCHANGED <<kind, list, num_used, app, prio>>

\* The i-th message of the ring buffer
Message(r, i) == LET p == r.read_ptr + i - 1
                 IN  r.buf[IF p < MaxMsgs THEN p ELSE p - MaxMsgs]

Content ==
  CASE kind = "msgq"  -> [i \in 1..ring.used_msgs |-> Message(ring, i)]
    [] kind = "stack" -> [i \in 1..Len(list) |-> list[Len(list) + 1 - i]]
    [] OTHER          -> list

ItemsOf(s) == {s[i] : i \in 1..Len(s)}

\* Reading catches up with writing.
Purged(r) == [buf |-> r.buf, read_ptr |-> r.write_ptr, write_ptr |-> r.write_ptr, used_msgs |-> 0]

\* The discarded messages, and those of the senders that fail, are the application's
\* again.
k_msgq_purge ==
  /\ kind = "msgq"
  /\ st' = [t \in Thread |-> IF Linked(wait_q, t) THEN Woken(ENOMSG, NULL) ELSE st[t]]
  /\ wait_q' = << >> /\ arrived' = << >>
  /\ ring' = Purged(ring)
  /\ app' = app \cup ItemsOf(Content)
                \cup ({st[wait_q[i]].item : i \in 1..Len(wait_q)} \ {NULL})
  /\ UNCHANGED <<kind, list, num_used, prio>>

(***************************************************************************)
(* Timeouts and returns                                                    *)
(***************************************************************************)

\* The wait of t times out; a blocked sender keeps its message.
handle_one_timeout(t) ==
  /\ st[t].at = "wait"
  /\ wait_q' = sys_dlist_remove(wait_q, t) /\ arrived' = sys_dlist_remove(arrived, t)
  /\ st' = [st EXCEPT ![t] = Woken(EAGAIN, NULL)]
  /\ app' = app \cup ({st[t].item} \ {NULL})
  /\ UNCHANGED <<kind, list, ring, num_used, prio>>

\* A call that got an item, or whose wait is over, returns.
return(t) ==
  /\ st[t].at = "woken"
  /\ st' = [st EXCEPT ![t] = Running]
  /\ app' = app \cup ({st[t].item} \ {NULL})
  /\ UNCHANGED <<kind, list, ring, num_used, wait_q, prio, arrived>>

Next ==
  \/ \E x \in Item :
       \/ k_fifo_put(x) \/ k_lifo_put(x) \/ k_stack_push(x) \/ k_mem_slab_free(x)
       \/ k_msgq_put(x)
       \/ \E y \in Item : k_fifo_put_list(x, y)
       \/ \E t \in Thread : k_msgq_put_wait(t, x)
  \/ \E t \in Thread :
       \/ k_fifo_get(t) \/ k_lifo_get(t) \/ k_stack_pop(t) \/ k_mem_slab_alloc(t) \/ k_msgq_get(t)
       \/ handle_one_timeout(t) \/ return(t)
  \/ k_msgq_purge

Spec == Init /\ [][Next]_vars

(***************************************************************************)
(* Properties                                                              *)
(***************************************************************************)

Holders(x) == {t \in Thread : st[t].at # "run" /\ st[t].item = x}

\* Nothing is lost and nothing is there twice: every item is in the hands of the
\* application, once in the object, with the one blocked sender it belongs to or with
\* the one thread it was handed to, and the slab counts the blocks that are out.
ItemsConserved ==
  /\ \A x \in Item :
       (IF x \in app THEN 1 ELSE 0) + Cardinality(Holders(x))
         + Cardinality({i \in 1..Len(Content) : Content[i] = x}) = 1
  /\ kind = "slab" => num_used = Cardinality(Item) - Len(list)

\* No wakeup is lost: a thread waits to receive only while the object is empty and to
\* send only while it is full.  k_msgq_put() and k_msgq_get() rely on it when they take
\* the first thread of the one wait queue to be of the other side.
NobodyWaitsInVain ==
  \A t \in Thread : Linked(wait_q, t) =>
    IF st[t].item = NULL THEN Content = << >>
    ELSE kind = "msgq" /\ ring.used_msgs = MaxMsgs

\* Of the waiting threads the one of the highest priority that has waited longest is
\* served first.
ServedInOrder ==
  [][\A t, u \in Thread :
       /\ Linked(wait_q, t) /\ st'[t].at = "woken" /\ st'[t].ret = OK
       /\ Linked(wait_q, u) /\ Linked(wait_q', u)
       => \/ prio[t] < prio[u]
          \/ /\ prio[t] = prio[u]
             /\ \E i, j \in 1..Len(arrived) : i < j /\ arrived[i] = t /\ arrived[j] = u]_vars

\* Whoever waits and times out, the items leave in the order of the object: first in
\* first out for the fifo and the message queue, with its ring buffer, last in first
\* out for the others.
Channels == INSTANCE Channel WITH
  lifo <- kind \in {"lifo", "stack", "slab"}, content <- Content,
  recv <- [t \in Thread |-> IF st[t].at = "woken" THEN st[t].item ELSE NULL]

ItemsLeaveInOrder == Channels!Spec
=============================================================================
