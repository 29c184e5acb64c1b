------------------------------ MODULE Mailbox -------------------------------
(***************************************************************************)
(* Mailboxes (mailbox.c).  Sender and receiver of a message meet in either *)
(* order; the message then stays with the receiver, possibly long after    *)
(* k_mbox_get() has returned, until its data is retrieved and the message  *)
(* is disposed of.  Only then does a synchronous sender return.  An        *)
(* asynchronous one leaves a copy of its message in a descriptor with a    *)
(* dummy thread, which stands on the queue in its place.                   *)
(*                                                                         *)
(* A search of a queue and the match it ends in are one action: interrupts *)
(* are locked.  Between those, and between the steps of a disposal, other  *)
(* threads run.  A message has no data, a buffer, or a memory pool block;  *)
(* sizes are left out but for that of an empty message.  The pool is a set *)
(* of blocks (MemPool.tla), the stack of descriptors never waits (its pop  *)
(* is Queues.tla), and a call that fails with -ENOMSG changes nothing and  *)
(* is no step.                                                             *)
(***************************************************************************)
EXTENDS DList, FiniteSets

CONSTANTS
  Thread, NULL, ANY,
  Async,         \* async_msg: the asynchronous message descriptors, and their dummy threads
  Block,         \* the blocks of a memory pool
  AppPrio,       \* priorities of the threads
  SuspendableIn  \* where a thread may be when another suspends it

Sender == Thread \cup Async

ASSUME MailboxAssumption ==
  /\ NULL # ANY /\ Thread \cap Async = {} /\ {NULL, ANY} \cap (Sender \cup Block) = {}
  /\ {"empty", "buffer"} \cap Block = {}
  /\ IsFiniteSet(Async) /\ AppPrio \subseteq Int

VARIABLES
  tx_msg_queue,    \* senders, actual or dummy
  rx_msg_queue,    \* threads
  tx_msg,          \* swap_data of a sender: [source, target, data, sem]
  rx_msg,          \* receive descriptor of a thread: [_syncing_thread, source, data, buffer]
  st,              \* where each thread is
  suspended,       \* K_SUSPENDED
  async_msg_free,  \* stack of unused descriptors
  async,           \* the descriptor k_mbox_async_put() of each thread has popped
  sem,             \* the semaphore each thread has its asynchronous messages signal
  owned,           \* the blocks the application holds
  pool,            \* the free blocks
  prio             \* base.prio

vars == <<tx_msg_queue, rx_msg_queue, tx_msg, rx_msg, st, suspended, async_msg_free, async,
          sem, owned, pool, prio>>

\* st: "run"; "put": has a descriptor to send; "tx", "rx": pended on the queue;
\* "sync": pended on no queue while a receiver has its message; "taken": so too, but
\* not pended; "get": has received a message; "free", "notify", "give": disposes of one
Data == {"empty", "buffer"} \cup Block
NoMsg == [source |-> NULL, target |-> NULL, data |-> "empty", sem |-> FALSE]
NoRx == [_syncing_thread |-> NULL, source |-> NULL, data |-> "empty", buffer |-> FALSE]

\* init_mbox_module() and k_mbox_init()
Init ==
  /\ tx_msg_queue = << >> /\ rx_msg_queue = << >>
  /\ tx_msg = [s \in Sender |-> NoMsg]
  /\ rx_msg = [t \in Thread |-> NoRx]
  /\ st = [t \in Thread |-> "run"]
  /\ suspended = [t \in Thread |-> FALSE]
  /\ async_msg_free \in {q \in [1..Cardinality(Async) -> Async] : NoDup(q)}
  /\ async = [t \in Thread |-> NULL]
  /\ sem = [t \in Thread |-> 1]
  /\ owned \in SUBSET Block /\ pool = Block \ owned
  /\ prio \in [Thread -> AppPrio]

Runs(t, at) == st[t] = at /\ ~suspended[t]
Holds(t) == rx_msg[t]._syncing_thread # NULL

(***************************************************************************)
(* Matching                                                                *)
(***************************************************************************)

\* Mutant: a receiver has to name the source.
match_named(m, r, want) == (m.target = ANY \/ m.target = r) /\ want = m.source

\* The condition of _mbox_message_match(), for message m and receiver r that asks for
\* messages from want
_mbox_message_match(m, r, want) ==
  /\ m.target = ANY \/ m.target = r
  /\ want = ANY \/ want = m.source

\* Mutant: the receiver is left with the source it asked for.
matched_from_any(s, m, r) == [r EXCEPT !._syncing_thread = s, !.data = m.data]

\* The descriptor of the receiver after the match with sender s
Matched(s, m, r) ==
  [r EXCEPT !._syncing_thread = s, !.source = m.source, !.data = m.data]

First(q, S) == q[CHOOSE i \in DOMAIN q : q[i] \in S /\ \A j \in 1..(i - 1) : q[j] \notin S]

Prio(s, m) == prio[IF s \in Thread THEN s ELSE m[s].source]

\* _pend_thread()
PendTx(s, m) == sys_dlist_insert_at(tx_msg_queue, s, {u \in Sender : tx_msg[u].source # NULL
                                                       /\ Prio(s, m) < Prio(u, m)})
PendRx(t) == sys_dlist_insert_at(rx_msg_queue, t, {u \in Thread : prio[t] < prio[u]})

(***************************************************************************)
(* Sending                                                                 *)
(***************************************************************************)

\* The message a thread makes up to send; a block it sends is its own no more
Message(t, target, data, withsem) ==
  /\ data \in Block => data \in owned
  /\ target \in {ANY} \cup (Thread \ {t})
  /\ withsem => sem[t] = 1

\* _mbox_message_put() of message m by sender s, called by thread t.  A synchronous
\* sender is left in "sync" if a receiver took the message and in "tx" if none did.
_mbox_message_put(t, s, m) ==
  LET found == {r \in Thread : st[r] = "rx" /\ _mbox_message_match(m, r, rx_msg[r].source)}
      after == IF s \in Async THEN "run" ELSE IF found # {} THEN "sync" ELSE "tx"
  IN /\ tx_msg' = [tx_msg EXCEPT ![s] = m]
     /\ IF found # {}
        THEN LET r == First(rx_msg_queue, found) IN
             /\ rx_msg_queue' = sys_dlist_remove(rx_msg_queue, r)
             /\ rx_msg' = [rx_msg EXCEPT ![r] = Matched(s, m, @)]
             /\ st' = [st EXCEPT ![r] = "get", ![t] = after]
             /\ UNCHANGED tx_msg_queue
        ELSE /\ tx_msg_queue' = PendTx(s, [tx_msg EXCEPT ![s] = m])
             /\ st' = [st EXCEPT ![t] = after]
             /\ UNCHANGED <<rx_msg_queue, rx_msg>>

k_mbox_put(t, target, data) ==
  /\ Runs(t, "run") /\ Message(t, target, data, FALSE)
  /\ _mbox_message_put(t, t, [source |-> t, target |-> target, data |-> data, sem |-> FALSE])
  /\ owned' = owned \ {data}
  /\ UNCHANGED <<suspended, async_msg_free, async, sem, pool, prio>>

\* k_mbox_async_put(): the descriptor is popped and filled, then it is sent.  A thread
\* that has its message signal a semaphore has taken the signal of the one before.
_mbox_async_alloc(t, target, data, withsem) ==
  /\ Runs(t, "run") /\ Message(t, target, data, withsem)
  /\ async_msg_free # << >>
  /\ LET a == Head(async_msg_free) IN
     /\ tx_msg' = [tx_msg EXCEPT ![a] = [source |-> t, target |-> target, data |-> data,
                                         sem |-> withsem]]
     /\ async' = [async EXCEPT ![t] = a]
  /\ async_msg_free' = Tail(async_msg_free)
  /\ sem' = [sem EXCEPT ![t] = IF withsem THEN 0 ELSE @]
  /\ st' = [st EXCEPT ![t] = "put"]
  /\ owned' = owned \ {data}
  /\ UNCHANGED <<tx_msg_queue, rx_msg_queue, rx_msg, suspended, pool, prio>>

k_mbox_async_put(t) ==
  /\ Runs(t, "put")
  /\ _mbox_message_put(t, async[t], tx_msg[async[t]])
  /\ async' = [async EXCEPT ![t] = NULL]
  /\ UNCHANGED <<suspended, async_msg_free, sem, owned, pool, prio>>

(***************************************************************************)
(* Receiving                                                               *)
(***************************************************************************)

\* k_mbox_get() from source want, up to the unlock or the context switch.  The sender it
\* finds is off the queue and has no timeout, and is not marked as pending either.
k_mbox_get(t, want, buffer) ==
  /\ Runs(t, "run") /\ ~Holds(t) /\ want \in {ANY} \cup (Thread \ {t})
  /\ LET found == {s \in Sender : Linked(tx_msg_queue, s)
                                  /\ _mbox_message_match(tx_msg[s], t, want)}
         r == [NoRx EXCEPT !.source = want, !.buffer = buffer]
     IN IF found # {}
        THEN LET s == First(tx_msg_queue, found) IN
             /\ tx_msg_queue' = sys_dlist_remove(tx_msg_queue, s)
             /\ rx_msg' = [rx_msg EXCEPT ![t] = Matched(s, tx_msg[s], r)]
             /\ st' = [u \in Thread |-> IF u = t THEN "get" ELSE IF u = s THEN "taken" ELSE st[u]]
             /\ UNCHANGED rx_msg_queue
        ELSE /\ rx_msg_queue' = PendRx(t)
             /\ rx_msg' = [rx_msg EXCEPT ![t] = r]
             /\ st' = [st EXCEPT ![t] = "rx"]
             /\ UNCHANGED tx_msg_queue
  /\ UNCHANGED <<tx_msg, suspended, async_msg_free, async, sem, owned, pool, prio>>

\* _mbox_message_data_check(): a message that is not for later is disposed of.
_mbox_message_data_check(t) ==
  /\ Runs(t, "get")
  /\ st' = [st EXCEPT ![t] = IF rx_msg[t].buffer \/ rx_msg[t].data = "empty" THEN "free" ELSE "run"]
  /\ UNCHANGED <<tx_msg_queue, rx_msg_queue, tx_msg, rx_msg, suspended, async_msg_free, async,
                 sem, owned, pool, prio>>

\* k_mbox_data_get(), and k_mbox_data_block_get() that discards the data
k_mbox_data_get(t) ==
  /\ Runs(t, "run") /\ Holds(t)
  /\ st' = [st EXCEPT ![t] = "free"]
  /\ UNCHANGED <<tx_msg_queue, rx_msg_queue, tx_msg, rx_msg, suspended, async_msg_free, async,
                 sem, owned, pool, prio>>

\* Mutant: the descriptor still names the block when the message is disposed of.
block_get_shared(t, b) ==
  /\ Runs(t, "run") /\ Holds(t)
  /\ b = rx_msg[t].data \/ (rx_msg[t].data \notin Block /\ b \in pool)
  /\ owned' = owned \cup {b} /\ pool' = pool \ {b}
  /\ st' = [st EXCEPT ![t] = "free"]
  /\ UNCHANGED <<tx_msg_queue, rx_msg_queue, tx_msg, rx_msg, suspended, async_msg_free, async,
                 sem, prio>>

\* k_mbox_data_block_get(): the block of the message changes hands, or the data is
\* copied to a new one.  If there is none to be had, the message stays as it is.
k_mbox_data_block_get(t, b) ==
  /\ Runs(t, "run") /\ Holds(t)
  /\ b = rx_msg[t].data \/ (rx_msg[t].data \notin Block /\ b \in pool)
  /\ owned' = owned \cup {b} /\ pool' = pool \ {b}
  /\ rx_msg' = [rx_msg EXCEPT ![t].data = "buffer"]
  /\ st' = [st EXCEPT ![t] = "free"]
  /\ UNCHANGED <<tx_msg_queue, rx_msg_queue, tx_msg, suspended, async_msg_free, async, sem, prio>>

(***************************************************************************)
(* Disposal                                                                *)
(***************************************************************************)

\* The block of the message, if it is still there, goes back to the pool.
_mbox_message_dispose(t) ==
  /\ Runs(t, "free")
  /\ pool' = pool \cup ({rx_msg[t].data} \cap Block)
  /\ rx_msg' = [rx_msg EXCEPT ![t].data = "buffer"]
  /\ st' = [st EXCEPT ![t] = "notify"]
  /\ UNCHANGED <<tx_msg_queue, rx_msg_queue, tx_msg, suspended, async_msg_free, async, sem,
                 owned, prio>>

\* Mutant: the semaphore is looked for in the descriptor after that was freed.
notify_then_look(t) ==
  /\ Runs(t, "notify")
  /\ LET s == rx_msg[t]._syncing_thread IN
     /\ tx_msg' = [tx_msg EXCEPT ![s] = NoMsg]
     /\ async_msg_free' = IF s \in Async THEN <<s>> \o async_msg_free ELSE async_msg_free
     /\ st' = [u \in Thread |-> IF u \in {s, t} THEN "run" ELSE st[u]]
     /\ rx_msg' = [rx_msg EXCEPT ![t] = NoRx]
  /\ UNCHANGED <<tx_msg_queue, rx_msg_queue, suspended, async, sem, owned, pool, prio>>

\* The descriptor is freed, or the sending thread made ready.
notify_sender(t) ==
  /\ Runs(t, "notify")
  /\ LET s == rx_msg[t]._syncing_thread IN
     /\ tx_msg' = [tx_msg EXCEPT ![s] = NoMsg]
     /\ async_msg_free' = IF s \in Async THEN <<s>> \o async_msg_free ELSE async_msg_free
     /\ st' = [u \in Thread |-> IF u = s THEN "run" ELSE IF u # t THEN st[u]
                                ELSE IF tx_msg[s].sem THEN "give" ELSE "run"]
     /\ rx_msg' = [rx_msg EXCEPT ![t] =
                     [NoRx EXCEPT !.source = IF tx_msg[s].sem THEN tx_msg[s].source ELSE NULL]]
  /\ UNCHANGED <<tx_msg_queue, rx_msg_queue, suspended, async, sem, owned, pool, prio>>

\* k_sem_give() of the message's semaphore, remembered before the descriptor was freed
give_async_sem(t) ==
  /\ Runs(t, "give")
  /\ sem' = [sem EXCEPT ![rx_msg[t].source] = @ + 1]
  /\ rx_msg' = [rx_msg EXCEPT ![t] = NoRx]
  /\ st' = [st EXCEPT ![t] = "run"]
  /\ UNCHANGED <<tx_msg_queue, rx_msg_queue, tx_msg, suspended, async_msg_free, async,
                 owned, pool, prio>>

(***************************************************************************)
(* Timeouts and suspension                                                 *)
(***************************************************************************)

\* Mutant: k_mbox_get() leaves the timeout of the sender it takes off the queue armed.
times_out_taken(t) ==
  /\ st[t] \in {"tx", "rx", "taken"}
  /\ tx_msg_queue' = sys_dlist_remove(tx_msg_queue, t)
  /\ rx_msg_queue' = sys_dlist_remove(rx_msg_queue, t)
  /\ owned' = owned \cup ({tx_msg[t].data} \cap Block)
  /\ tx_msg' = [tx_msg EXCEPT ![t] = NoMsg]
  /\ rx_msg' = [rx_msg EXCEPT ![t] = IF st[t] = "rx" THEN NoRx ELSE @]
  /\ st' = [st EXCEPT ![t] = "run"]
  /\ UNCHANGED <<suspended, async_msg_free, async, sem, pool, prio>>

\* _handle_one_timeout().  A sender that times out has its block back.
times_out(t) ==
  /\ st[t] \in {"tx", "rx"}
  /\ tx_msg_queue' = sys_dlist_remove(tx_msg_queue, t)
  /\ rx_msg_queue' = sys_dlist_remove(rx_msg_queue, t)
  /\ owned' = owned \cup ({tx_msg[t].data} \cap Block)
  /\ tx_msg' = [tx_msg EXCEPT ![t] = NoMsg]
  /\ rx_msg' = [rx_msg EXCEPT ![t] = IF st[t] = "rx" THEN NoRx ELSE @]
  /\ st' = [st EXCEPT ![t] = "run"]
  /\ UNCHANGED <<suspended, async_msg_free, async, sem, pool, prio>>

k_thread_suspend(t) ==
  /\ ~suspended[t] /\ st[t] \in SuspendableIn
  /\ suspended' = [suspended EXCEPT ![t] = TRUE]
  /\ UNCHANGED <<tx_msg_queue, rx_msg_queue, tx_msg, rx_msg, st, async_msg_free, async, sem,
                 owned, pool, prio>>

\* k_thread_resume() readies a thread that is neither pending nor waiting for a timeout.
k_thread_resume(t) ==
  /\ suspended[t]
  /\ suspended' = [suspended EXCEPT ![t] = FALSE]
  /\ st' = [st EXCEPT ![t] = IF @ = "taken" THEN "run" ELSE @]
  /\ UNCHANGED <<tx_msg_queue, rx_msg_queue, tx_msg, rx_msg, async_msg_free, async, sem,
                 owned, pool, prio>>

Next ==
  \/ \E t \in Thread, target \in Thread \cup {ANY}, d \in Data :
       \/ k_mbox_put(t, target, d)
       \/ \E w \in BOOLEAN : _mbox_async_alloc(t, target, d, w)
  \/ \E t \in Thread, want \in Thread \cup {ANY}, buffer \in BOOLEAN : k_mbox_get(t, want, buffer)
  \/ \E t \in Thread, b \in Block : k_mbox_data_block_get(t, b)
  \/ \E t \in Thread : \/ k_mbox_async_put(t) \/ _mbox_message_data_check(t) \/ k_mbox_data_get(t)
                       \/ _mbox_message_dispose(t) \/ notify_sender(t) \/ give_async_sem(t)
                       \/ times_out(t) \/ k_thread_suspend(t) \/ k_thread_resume(t)

Spec == Init /\ [][Next]_vars

(***************************************************************************)
(* Properties                                                              *)
(***************************************************************************)

HasMessageOf(s) == {t \in Thread : rx_msg[t]._syncing_thread = s}

\* A synchronous sender is blocked from the time it is queued or matched to the time its
\* receiver has disposed of the message, and a descriptor is in use as long: each message
\* is either on the queue or with one receiver, and the sender of a message that a
\* receiver still has is never back in its own code, where the buffer and the
\* descriptor of the message on its stack would go.
BlockedUntilDisposed ==
  \A s \in Sender :
    Cardinality(HasMessageOf(s)) + (IF Linked(tx_msg_queue, s) THEN 1 ELSE 0)
      = IF s \in Thread THEN IF st[s] \in {"tx", "sync", "taken"} THEN 1 ELSE 0
        ELSE IF Linked(async_msg_free, s) \/ \E t \in Thread : async[t] = s THEN 0 ELSE 1

\* No message waits on the queue for a receiver that waits there for it, whoever came
\* first: the doc's condition for a sender and a receiver to be compatible.
NoCompatiblePairWaits ==
  \A s \in Sender, t \in Thread : Linked(tx_msg_queue, s) /\ st[t] = "rx" =>
    \/ tx_msg[s].target \notin {ANY, t}
    \/ rx_msg[t].source \notin {ANY, tx_msg[s].source}

\* Every memory pool block has one owner: the pool, the application, a message that is
\* still to be received, or the receiver of one.  None is freed twice or lost, whichever
\* of the data calls ends the message, and with a sender that times out.
Unreceived == {s \in Sender : Linked(tx_msg_queue, s) \/ \E t \in Thread : async[t] = s}
BlocksConserved ==
  \A b \in Block :
    (IF b \in owned THEN 1 ELSE 0) + (IF b \in pool THEN 1 ELSE 0)
      + Cardinality({s \in Unreceived : tx_msg[s].data = b})
      + Cardinality({t \in Thread : rx_msg[t].data = b}) = 1

\* A thread whose asynchronous messages signal a semaphore, and who takes it before
\* each, finds it given exactly when its message is gone.
AsyncFlowControl ==
  \A t \in Thread :
    sem[t] + Cardinality({a \in Async : tx_msg[a].source = t /\ tx_msg[a].sem})
      + Cardinality({u \in Thread : st[u] = "give" /\ rx_msg[u].source = t}) = 1

\* Whoever came first, a message meets one receiver, of those it is for, and as soon as
\* one is there that it fits; the receiver has the source and the data that were sent,
\* and keeps the message until it has disposed of it: queues, descriptors and dummy
\* threads implement a rendezvous.
OfferOf(s) ==
  IF Linked(tx_msg_queue, s) \/ \E t \in Thread : rx_msg[t]._syncing_thread = s
  THEN [source |-> tx_msg[s].source, target |-> tx_msg[s].target, data |-> tx_msg[s].data]
  ELSE [source |-> NULL, target |-> NULL, data |-> NULL]
AskOf(t) == IF st[t] = "rx" THEN rx_msg[t].source ELSE NULL
MetOf(t) ==
  IF Holds(t)
  THEN [sender |-> rx_msg[t]._syncing_thread, source |-> rx_msg[t].source, data |-> rx_msg[t].data]
  ELSE [sender |-> NULL, source |-> NULL, data |-> NULL]

Meetings == INSTANCE Rendezvous WITH
  Retrieved <- "buffer",
  offer <- [s \in Sender |-> OfferOf(s)],
  ask <- [t \in Thread |-> AskOf(t)],
  met <- [t \in Thread |-> MetOf(t)]

ImplementsRendezvous == Meetings!Spec
=============================================================================
