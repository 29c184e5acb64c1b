--------------------------- MODULE MailboxProofs ----------------------------
(***************************************************************************)
(* Proofs about mailboxes, for any threads, descriptors and blocks, as     *)
(* long as no thread is suspended while its message waits on the queue.    *)
(***************************************************************************)
EXTENDS Mailbox, DListProofs, FunctionTheorems

\* What the theorems are proved under: k_thread_resume() would make a sender ready whose
\* message was taken while it was suspended.
NoSenderSuspended == SuspendableIn \cap {"tx", "taken"} = {}

Place == {"run", "put", "tx", "rx", "sync", "taken", "get", "free", "notify", "give"}
TxState == [source : Thread \cup {NULL}, target : Thread \cup {ANY, NULL}, data : Data, sem : BOOLEAN]
RxState == [_syncing_thread : Sender \cup {NULL}, source : Thread \cup {ANY, NULL}, data : Data,
            buffer : BOOLEAN]

TypeInv ==
  /\ tx_msg_queue \in Seq(Sender) /\ rx_msg_queue \in Seq(Thread) /\ async_msg_free \in Seq(Async)
  /\ tx_msg \in [Sender -> TxState] /\ rx_msg \in [Thread -> RxState]
  /\ st \in [Thread -> Place] /\ suspended \in [Thread -> BOOLEAN]
  /\ async \in [Thread -> Async \cup {NULL}]
  /\ sem \in [Thread -> {0, 1}]
  /\ owned \in SUBSET Block /\ pool \in SUBSET Block

\* Who has the message of s: a receiver, or a thread in k_mbox_async_put()
Has(t, s) == rx_msg[t]._syncing_thread = s
Fills(t, s) == async[t] = s

\* The queues and the places of the threads
QueueInv ==
  /\ NoDup(tx_msg_queue) /\ NoDup(rx_msg_queue) /\ NoDup(async_msg_free)
  /\ \A t \in Thread : /\ Linked(rx_msg_queue, t) <=> st[t] = "rx"
                       /\ Linked(tx_msg_queue, t) <=> st[t] = "tx"
                       /\ st[t] = "put" <=> async[t] # NULL
                       /\ suspended[t] => st[t] \notin {"tx", "taken"}

\* Messages that were received: who has one, and where the sender is meanwhile
HandInv ==
  /\ \A t \in Thread : /\ st[t] \in {"get", "free", "notify"} => Holds(t)
                       /\ st[t] \in {"rx", "give"} => ~Holds(t)
                       /\ st[t] = "notify" \/ ~Holds(t) => rx_msg[t].data \notin Block
  /\ \A t, u \in Thread, s \in Sender : Has(t, s) /\ Has(u, s) => t = u
  /\ \A s \in Thread : st[s] \in {"sync", "taken"} <=> \E t \in Thread : Has(t, s)
  /\ \A s \in Thread : st[s] \notin {"tx", "sync", "taken"} => tx_msg[s] = NoMsg

\* A descriptor is on the stack, in the hands of a sender, on the queue, or received.
DescInv ==
  \A a \in Async :
    /\ Linked(async_msg_free, a) => /\ tx_msg[a] = NoMsg /\ ~Linked(tx_msg_queue, a)
                                    /\ \A t \in Thread : ~Fills(t, a) /\ ~Has(t, a)
    /\ \A t \in Thread : Fills(t, a) => /\ ~Linked(tx_msg_queue, a)
                                        /\ \A u \in Thread : ~Has(u, a) /\ (Fills(u, a) => u = t)
    /\ Linked(tx_msg_queue, a) => \A t \in Thread : ~Has(t, a)
    /\ \/ Linked(async_msg_free, a) \/ Linked(tx_msg_queue, a)
       \/ \E t \in Thread : Fills(t, a) \/ Has(t, a)

\* The message of s has still to be received.
Waits(s) == Linked(tx_msg_queue, s) \/ \E t \in Thread : Fills(t, s)

\* A block has one owner: the application, the pool, a message or its receiver.
Sends(s, b) == Waits(s) /\ tx_msg[s].data = b
Keeps(t, b) == rx_msg[t].data = b

BlockInv ==
  \A b \in Block :
    /\ ~(b \in owned /\ b \in pool)
    /\ b \in owned \cup pool => (\A s \in Sender : ~Sends(s, b)) /\ \A t \in Thread : ~Keeps(t, b)
    /\ b \notin owned \cup pool => (\E s \in Sender : Sends(s, b)) \/ \E t \in Thread : Keeps(t, b)
    /\ \A s \in Sender, t \in Thread : ~(Sends(s, b) /\ Keeps(t, b))
    /\ \A s, r \in Sender : Sends(s, b) /\ Sends(r, b) => s = r
    /\ \A t, u \in Thread : Keeps(t, b) /\ Keeps(u, b) => t = u

\* The signal of t is in its semaphore, in a message, or on its way from one.
Signals(a, t) == tx_msg[a].source = t /\ tx_msg[a].sem
Gives(u, t) == st[u] = "give" /\ rx_msg[u].source = t

FlowInv ==
  /\ \A s \in Sender : tx_msg[s].sem => tx_msg[s].source \in Thread /\ s \in Async
  /\ \A u \in Thread : st[u] = "give" => rx_msg[u].source \in Thread
  /\ \A t \in Thread :
       /\ sem[t] = 1 => /\ \A a \in Async : ~Signals(a, t)
                        /\ \A u \in Thread : ~Gives(u, t)
       /\ sem[t] = 0 => (\E a \in Async : Signals(a, t)) \/ \E u \in Thread : Gives(u, t)
       /\ \A a \in Async, u \in Thread : ~(Signals(a, t) /\ Gives(u, t))
       /\ \A a, b \in Async : Signals(a, t) /\ Signals(b, t) => a = b
       /\ \A u, v \in Thread : Gives(u, t) /\ Gives(v, t) => u = v

IInv == TypeInv /\ QueueInv /\ HandInv /\ DescInv /\ BlockInv /\ FlowInv /\ NoCompatiblePairWaits

\* The first node of a list that is in S
LEMMA FirstProps ==
  ASSUME NEW T, NEW q \in Seq(T), NEW S, \E x \in S : Linked(q, x)
  PROVE  First(q, S) \in S /\ First(q, S) \in T /\ Linked(q, First(q, S))
<1> DEFINE P == {i \in 1..Len(q) : q[i] \in S}
<1>1. Len(q) \in Nat /\ DOMAIN q = 1..Len(q) /\ \A i \in 1..Len(q) : q[i] \in T
  BY LenProperties, ElementOfSeq
<1>2. P \in SUBSET (1..Len(q)) /\ P # {}
  BY DEF Linked
<1>3. \E i \in P : \A j \in P : i <= j
  BY <1>1, <1>2, FirstOf
<1>4. \E i \in DOMAIN q : q[i] \in S /\ \A j \in 1..(i - 1) : q[j] \notin S
  BY <1>1, <1>3
<1> DEFINE f == CHOOSE i \in DOMAIN q : q[i] \in S /\ \A j \in 1..(i - 1) : q[j] \notin S
<1>5. f \in DOMAIN q /\ q[f] \in S
  BY <1>4
<1>6. First(q, S) = q[f]
  BY DEF First
<1> HIDE DEF f
<1> QED BY <1>1, <1>5, <1>6 DEF Linked

\* The parts of a message and of a receive descriptor
LEMMA RecordProps ==
  /\ NoMsg \in TxState /\ NoMsg.source = NULL /\ NoMsg.data = "empty" /\ NoMsg.sem = FALSE
  /\ NoRx \in RxState /\ NoRx._syncing_thread = NULL /\ NoRx.source = NULL /\ NoRx.data = "empty"
  /\ "empty" \notin Block /\ "buffer" \notin Block
  /\ NULL \notin Sender /\ ANY \notin Sender /\ NULL \notin Block
  /\ \A s \in Sender : s \in Thread <=> s \notin Async
BY MailboxAssumption DEF NoMsg, NoRx, TxState, RxState, Data, Sender

\* A receiver's descriptor after a match
LEMMA MatchedProps ==
  ASSUME NEW s \in Sender, NEW m \in TxState, NEW r \in RxState
  PROVE  /\ Matched(s, m, r) \in RxState
         /\ Matched(s, m, r)._syncing_thread = s /\ Matched(s, m, r).source = m.source
         /\ Matched(s, m, r).data = m.data
BY DEF Matched, TxState, RxState

LEMMA RxSource ==
  ASSUME NEW v \in Thread \cup {ANY, NULL}, NEW r, r = [NoRx EXCEPT !.source = v]
  PROVE  r \in RxState /\ r._syncing_thread = NULL /\ r.source = v /\ r.data = "empty"
<1>1. r = [_syncing_thread |-> NULL, source |-> v, data |-> "empty", buffer |-> FALSE]
  BY DEF NoRx
<1>2. r \in RxState
  BY RecordProps DEF RxState
<1>3. r._syncing_thread = NULL /\ r.source = v /\ r.data = "empty"
  BY <1>1
<1> QED BY <1>2, <1>3

\* A node is pushed on a stack.
LEMMA PushProps ==
  ASSUME NEW T, NEW q \in Seq(T), NEW e \in T
  PROVE  /\ <<e>> \o q \in Seq(T)
         /\ \A x : Linked(<<e>> \o q, x) <=> Linked(q, x) \/ x = e
         /\ NoDup(q) /\ ~Linked(q, e) => NoDup(<<e>> \o q)
<1> DEFINE r == <<e>> \o q
<1>1. /\ r \in Seq(T) /\ Len(q) \in Nat /\ Len(r) = Len(q) + 1 /\ r[1] = e
      /\ \A i \in 2..(Len(q) + 1) : r[i] = q[i - 1]
  BY LenProperties
<1> HIDE DEF r
<1>2. \A x : Linked(q, x) \/ x = e => Linked(r, x)
  <2>1. \A i \in 1..Len(q) : i + 1 \in 1..Len(r) /\ r[i + 1] = q[i]
    BY <1>1
  <2> QED BY <1>1, <2>1 DEF Linked
<1>3. \A x : Linked(r, x) => Linked(q, x) \/ x = e
  <2>1. \A i \in 1..Len(r) : i = 1 \/ (i - 1 \in 1..Len(q) /\ r[i] = q[i - 1])
    BY <1>1
  <2> QED BY <1>1, <2>1 DEF Linked
<1>4. ASSUME NoDup(q), ~Linked(q, e) PROVE NoDup(r)
  <2>1. \A i \in 1..Len(r) : i = 1 \/ (i - 1 \in 1..Len(q) /\ r[i] = q[i - 1])
    BY <1>1
  <2>2. \A i \in 1..Len(q) : q[i] # e
    BY <1>4 DEF Linked
  <2> QED BY SMTT(60), <1>1, <1>4, <2>1, <2>2 DEF NoDup
<1> QED BY <1>1, <1>2, <1>3, <1>4 DEF r

LEMMA InitInv ==
  ASSUME Init
  PROVE  IInv
<1>1. /\ \A x : ~Linked(<< >>, x)
      /\ NoDup(<< >>) /\ << >> \in Seq(Sender) /\ << >> \in Seq(Thread)
  BY DEF Linked, NoDup
<1> DEFINE n == Cardinality(Async)
<1>2. n \in Nat
  BY MailboxAssumption, FS_CardinalityType
<1>3. async_msg_free \in [1..n -> Async] /\ NoDup(async_msg_free)
  BY DEF Init
<1>4. async_msg_free \in Seq(Async) /\ Len(async_msg_free) = n
  BY <1>2, <1>3, FunctionIsSeq
<1>5. \A a \in Async : Linked(async_msg_free, a)
  <2>1. IsFiniteSet(1..n) /\ Cardinality(1..n) = n
    BY <1>2, FS_Interval
  <2>2. async_msg_free \in Injection(1..n, Async)
    BY <1>3, <1>4, Fun_IsInj DEF NoDup
  <2>3. async_msg_free \in Surjection(1..n, Async)
    BY <2>1, <2>2, MailboxAssumption, FS_Injection
  <2> QED BY <1>4, <2>3, Fun_SurjectionProperties DEF Linked
<1>6. TypeInv
  BY <1>1, <1>4, RecordProps DEF Init, TypeInv, Place
<1>7. QueueInv
  BY <1>1, <1>3 DEF Init, QueueInv
<1>8. HandInv
  BY RecordProps DEF Init, HandInv, Has, Holds, Sender
<1>9. DescInv
  BY <1>1, <1>5, RecordProps DEF Init, DescInv, Has, Fills, Sender
<1>10. BlockInv
  BY <1>1, RecordProps DEF Init, BlockInv, Sends, Keeps, Waits, Fills
<1>11. FlowInv
  BY RecordProps DEF Init, FlowInv, Signals, Gives, Sender
<1>12. NoCompatiblePairWaits
  BY <1>1 DEF Init, NoCompatiblePairWaits
<1> QED BY <1>6, <1>7, <1>8, <1>9, <1>10, <1>11, <1>12 DEF IInv

\* Steps that only move a thread on: to the data of its message, or to the disposal
LEMMA MoveStep ==
  ASSUME IInv, NEW t \in Thread, NEW x \in {"run", "free"},
         st[t] \in {"run", "get"}, Holds(t), st' = [st EXCEPT ![t] = x],
         UNCHANGED <<tx_msg_queue, rx_msg_queue, tx_msg, rx_msg, suspended, async_msg_free, async,
                     sem, owned, pool, prio>>
  PROVE  IInv'
<1>1. /\ st' \in [Thread -> Place] /\ st'[t] = x
      /\ \A u \in Thread : u # t => st'[u] = st[u]
  BY DEF IInv, TypeInv, Place
<1>2. /\ \A u, s : (Has(u, s)' <=> Has(u, s)) /\ (Fills(u, s)' <=> Fills(u, s))
      /\ \A u : Holds(u)' <=> Holds(u)
      /\ \A a, v : Signals(a, v)' <=> Signals(a, v)
      /\ \A s : Waits(s)' <=> Waits(s)
  BY DEF Has, Fills, Holds, Signals, Waits
<1>3. TypeInv'
  BY <1>1 DEF IInv, TypeInv
<1>4. QueueInv'
  BY <1>1 DEF IInv, QueueInv
<1>5. HandInv'
  BY <1>1, <1>2 DEF IInv, HandInv
<1>6. DescInv'
  BY <1>2 DEF IInv, DescInv
<1>7. BlockInv'
  BY <1>2 DEF IInv, BlockInv, Sends, Keeps
<1>8. FlowInv'
  <2>1. \A u \in Thread : \A v : Gives(u, v)' <=> Gives(u, v)
    BY <1>1 DEF Gives
  <2> QED BY <1>1, <1>2, <2>1 DEF IInv, FlowInv
<1>9. NoCompatiblePairWaits'
  BY <1>1 DEF IInv, NoCompatiblePairWaits
<1> QED BY <1>3, <1>4, <1>5, <1>6, <1>7, <1>8, <1>9 DEF IInv

LEMMA DataStep ==
  ASSUME IInv, NEW t \in Thread, _mbox_message_data_check(t) \/ k_mbox_data_get(t)
  PROVE  IInv'
<1>1. CASE _mbox_message_data_check(t)
  BY <1>1, MoveStep DEF _mbox_message_data_check, Runs, IInv, HandInv
<1>2. CASE k_mbox_data_get(t)
  BY <1>2, MoveStep DEF k_mbox_data_get, Runs
<1> QED BY <1>1, <1>2

\* k_thread_suspend() and k_thread_resume()
LEMMA SuspendStep ==
  ASSUME NoSenderSuspended, IInv, NEW t \in Thread, k_thread_suspend(t) \/ k_thread_resume(t)
  PROVE  IInv'
<1>1. /\ st' = st /\ suspended' \in [Thread -> BOOLEAN]
      /\ \A u \in Thread : suspended'[u] => suspended[u] \/ st[u] \notin {"tx", "taken"}
      /\ UNCHANGED <<tx_msg_queue, rx_msg_queue, tx_msg, rx_msg, async_msg_free, async, sem, owned, pool>>
  <2>1. CASE k_thread_suspend(t)
    BY <2>1 DEF k_thread_suspend, NoSenderSuspended, IInv, TypeInv
  <2>2. CASE k_thread_resume(t)
    <3>1. st[t] # "taken"
      BY <2>2 DEF k_thread_resume, IInv, QueueInv
    <3> QED BY <2>2, <3>1 DEF k_thread_resume, IInv, TypeInv
  <2> QED BY <2>1, <2>2
<1>2. TypeInv' /\ QueueInv'
  BY <1>1 DEF IInv, TypeInv, QueueInv
<1>3. HandInv' /\ DescInv'
  BY <1>1 DEF IInv, HandInv, DescInv, Holds, Has, Fills
<1>4. BlockInv'
  BY <1>1 DEF IInv, BlockInv, Sends, Keeps, Waits, Fills
<1>5. FlowInv' /\ NoCompatiblePairWaits'
  BY <1>1 DEF IInv, FlowInv, Signals, Gives, NoCompatiblePairWaits
<1> QED BY <1>2, <1>3, <1>4, <1>5 DEF IInv

\* The data of a message is gone.
LEMMA DataGone ==
  ASSUME TypeInv, NEW t \in Thread, rx_msg' = [rx_msg EXCEPT ![t].data = "buffer"]
  PROVE  /\ rx_msg' \in [Thread -> RxState] /\ rx_msg'[t].data = "buffer"
         /\ \A u \in Thread : /\ rx_msg'[u].source = rx_msg[u].source
                              /\ Holds(u)' <=> Holds(u)
                              /\ \A s : Has(u, s)' <=> Has(u, s)
                              /\ u # t => rx_msg'[u].data = rx_msg[u].data
BY ZenonT(60) DEF TypeInv, RxState, Data, Holds, Has

\* The block of t's message, if it is still there, becomes the application's or the pool's.
LEMMA BlockOutStep ==
  ASSUME IInv, NEW t \in Thread, NEW p \in {"free", "notify"}, st[t] \in {"run", "free"}, Holds(t),
         rx_msg' = [rx_msg EXCEPT ![t].data = "buffer"],
         st' = [st EXCEPT ![t] = p],
         owned' \in SUBSET Block, pool' \in SUBSET Block, owned' \cap pool' = {},
         owned' \cup pool' = owned \cup pool \cup ({rx_msg[t].data} \cap Block),
         UNCHANGED <<tx_msg_queue, rx_msg_queue, tx_msg, suspended, async_msg_free, async, sem>>
  PROVE  IInv'
<1>1. /\ st' \in [Thread -> Place] /\ st'[t] = p
      /\ \A u \in Thread : u # t => st'[u] = st[u]
  BY DEF IInv, TypeInv, Place
<1>2. /\ rx_msg' \in [Thread -> RxState] /\ rx_msg'[t].data = "buffer" /\ "buffer" \notin Block
      /\ \A u \in Thread : /\ rx_msg'[u].source = rx_msg[u].source
                           /\ Holds(u)' <=> Holds(u)
                           /\ \A s : Has(u, s)' <=> Has(u, s)
                           /\ u # t => rx_msg'[u].data = rx_msg[u].data
  BY DataGone, RecordProps DEF IInv
<1>3. /\ \A u, s : Fills(u, s)' <=> Fills(u, s)
      /\ \A a, v : Signals(a, v)' <=> Signals(a, v)
      /\ \A s : Waits(s)' <=> Waits(s)
  BY DEF Fills, Signals, Waits
<1>4. TypeInv'
  BY <1>1, <1>2 DEF IInv, TypeInv
<1>5. QueueInv'
  BY <1>1 DEF IInv, QueueInv
<1>6. HandInv'
  BY <1>1, <1>2 DEF IInv, HandInv
<1>7. DescInv'
  BY <1>2, <1>3 DEF IInv, DescInv
<1>8. BlockInv'
  <2>1. \A x \in Sender, b \in Block : Sends(x, b)' <=> Sends(x, b)
    BY <1>3 DEF Sends
  <2>2. \A u \in Thread, b \in Block : Keeps(u, b)' <=> Keeps(u, b) /\ u # t
    BY <1>2 DEF Keeps
  <2>3. \A b \in Block : b \in owned' \cup pool' <=> b \in owned \cup pool \/ Keeps(t, b)
    BY DEF Keeps
  <2>4. \A b \in Block : ~(b \in owned' /\ b \in pool')
    OBVIOUS
  <2> QED BY <2>1, <2>2, <2>3, <2>4 DEF IInv, BlockInv
<1>9. FlowInv'
  <2>1. \A u \in Thread : \A v : Gives(u, v)' <=> Gives(u, v)
    BY <1>1, <1>2 DEF Gives
  <2> QED BY <1>1, <1>2, <1>3, <2>1 DEF IInv, FlowInv
<1>10. NoCompatiblePairWaits'
  BY <1>1, <1>2 DEF IInv, NoCompatiblePairWaits
<1> QED BY <1>4, <1>5, <1>6, <1>7, <1>8, <1>9, <1>10 DEF IInv

LEMMA BlockGetStep ==
  ASSUME IInv, NEW t \in Thread, NEW b \in Block, k_mbox_data_block_get(t, b)
  PROVE  IInv'
<1>1. /\ st[t] = "run" /\ Holds(t)
      /\ b = rx_msg[t].data \/ (rx_msg[t].data \notin Block /\ b \in pool)
      /\ owned' = owned \cup {b} /\ pool' = pool \ {b}
      /\ rx_msg' = [rx_msg EXCEPT ![t].data = "buffer"]
      /\ st' = [st EXCEPT ![t] = "free"]
      /\ UNCHANGED <<tx_msg_queue, rx_msg_queue, tx_msg, suspended, async_msg_free, async, sem>>
  BY DEF k_mbox_data_block_get, Runs
<1>2. /\ owned' \in SUBSET Block /\ pool' \in SUBSET Block /\ owned' \cap pool' = {}
      /\ owned' \cup pool' = owned \cup pool \cup ({rx_msg[t].data} \cap Block)
  BY <1>1 DEF IInv, TypeInv, BlockInv, Keeps
<1> QED BY <1>1, <1>2, BlockOutStep

LEMMA DisposeStep ==
  ASSUME IInv, NEW t \in Thread, _mbox_message_dispose(t)
  PROVE  IInv'
<1>1. /\ st[t] = "free" /\ owned' = owned
      /\ pool' = pool \cup ({rx_msg[t].data} \cap Block)
      /\ rx_msg' = [rx_msg EXCEPT ![t].data = "buffer"]
      /\ st' = [st EXCEPT ![t] = "notify"]
      /\ UNCHANGED <<tx_msg_queue, rx_msg_queue, tx_msg, suspended, async_msg_free, async, sem>>
  BY DEF _mbox_message_dispose, Runs
<1>2. /\ Holds(t) /\ owned' \in SUBSET Block /\ pool' \in SUBSET Block /\ owned' \cap pool' = {}
      /\ owned' \cup pool' = owned \cup pool \cup ({rx_msg[t].data} \cap Block)
  BY <1>1 DEF IInv, TypeInv, HandInv, BlockInv, Keeps
<1> QED BY <1>1, <1>2, BlockOutStep

\* The receiver signals the sender's semaphore.
LEMMA GiveStep ==
  ASSUME IInv, NEW t \in Thread, give_async_sem(t)
  PROVE  IInv'
<1> DEFINE v == rx_msg[t].source
<1>1. /\ st[t] = "give"
      /\ sem' = [sem EXCEPT ![v] = @ + 1]
      /\ rx_msg' = [rx_msg EXCEPT ![t] = NoRx]
      /\ st' = [st EXCEPT ![t] = "run"]
      /\ UNCHANGED <<tx_msg_queue, rx_msg_queue, tx_msg, suspended, async_msg_free, async, owned, pool>>
  BY DEF give_async_sem, Runs
<1>2. v \in Thread /\ Gives(t, v) /\ ~Holds(t) /\ rx_msg[t].data \notin Block
  BY <1>1 DEF IInv, FlowInv, HandInv, Gives
<1>3. sem[v] = 0 /\ \A a \in Async : ~Signals(a, v)
  BY <1>2 DEF IInv, FlowInv, TypeInv
<1>4. \A u \in Thread : Gives(u, v) => u = t
  BY <1>2 DEF IInv, FlowInv
<1> HIDE DEF v
<1>5. /\ st' \in [Thread -> Place] /\ st'[t] = "run"
      /\ \A u \in Thread : u # t => st'[u] = st[u]
  BY <1>1 DEF IInv, TypeInv, Place
<1>6. /\ rx_msg' \in [Thread -> RxState] /\ rx_msg'[t] = NoRx
      /\ \A u \in Thread : u # t => rx_msg'[u] = rx_msg[u]
  BY <1>1, RecordProps DEF IInv, TypeInv
<1>7. /\ \A u \in Thread : Holds(u)' <=> Holds(u)
      /\ \A u \in Thread, s \in Sender : Has(u, s)' <=> Has(u, s)
  BY <1>2, <1>6, RecordProps DEF Holds, Has
<1>8. /\ \A u, s : Fills(u, s)' <=> Fills(u, s)
      /\ \A a, w : Signals(a, w)' <=> Signals(a, w)
      /\ \A s : Waits(s)' <=> Waits(s)
  BY <1>1 DEF Fills, Signals, Waits
<1>9. sem' \in [Thread -> {0, 1}] /\ sem'[v] = 1 /\ \A w \in Thread : w # v => sem'[w] = sem[w]
  BY <1>1, <1>2, <1>3 DEF IInv, TypeInv
<1>10. TypeInv'
  BY <1>1, <1>5, <1>6, <1>9 DEF IInv, TypeInv
<1>11. QueueInv'
  BY <1>1, <1>5 DEF IInv, QueueInv
<1>12. HandInv'
  <2>1. Thread \subseteq Sender
    BY DEF Sender
  <2> QED BY <1>1, <1>2, <1>5, <1>6, <1>7, <2>1, RecordProps DEF IInv, HandInv
<1>13. DescInv'
  <2>1. Async \subseteq Sender
    BY DEF Sender
  <2> QED BY <1>1, <1>7, <1>8, <2>1 DEF IInv, DescInv
<1>14. BlockInv'
  <2>1. \A x \in Sender, b \in Block : Sends(x, b)' <=> Sends(x, b)
    BY <1>1, <1>8 DEF Sends
  <2>2. \A u \in Thread, b \in Block : Keeps(u, b)' <=> Keeps(u, b)
    BY <1>2, <1>6, RecordProps DEF Keeps
  <2> QED BY <1>1, <2>1, <2>2 DEF IInv, BlockInv
<1>15. FlowInv'
  <2>1. \A u \in Thread : \A w : Gives(u, w)' <=> Gives(u, w) /\ u # t
    BY <1>5, <1>6 DEF Gives
  <2>2. \A w : Gives(t, w) => w = v
    BY DEF Gives, v
  <2> QED BY <1>1, <1>2, <1>3, <1>4, <1>5, <1>6, <1>8, <1>9, <2>1, <2>2 DEF IInv, FlowInv
<1>16. NoCompatiblePairWaits'
  BY <1>1, <1>5, <1>6 DEF IInv, NoCompatiblePairWaits
<1> QED BY <1>10, <1>11, <1>12, <1>13, <1>14, <1>15, <1>16 DEF IInv

\* A thread that waits on a queue times out.
LEMMA TimesOutStep ==
  ASSUME IInv, NEW t \in Thread, times_out(t)
  PROVE  IInv'
<1>1. /\ st[t] \in {"tx", "rx"}
      /\ tx_msg_queue' = sys_dlist_remove(tx_msg_queue, t)
      /\ rx_msg_queue' = sys_dlist_remove(rx_msg_queue, t)
      /\ owned' = owned \cup ({tx_msg[t].data} \cap Block)
      /\ tx_msg' = [tx_msg EXCEPT ![t] = NoMsg]
      /\ rx_msg' = [rx_msg EXCEPT ![t] = IF st[t] = "rx" THEN NoRx ELSE @]
      /\ st' = [st EXCEPT ![t] = "run"]
      /\ UNCHANGED <<suspended, async_msg_free, async, sem, pool>>
  BY DEF times_out
<1>2. /\ tx_msg_queue' \in Seq(Sender) /\ NoDup(tx_msg_queue')
      /\ \A x : Linked(tx_msg_queue', x) <=> Linked(tx_msg_queue, x) /\ x # t
  BY <1>1, UnlinkProps DEF IInv, TypeInv, QueueInv
<1>3. /\ rx_msg_queue' \in Seq(Thread) /\ NoDup(rx_msg_queue')
      /\ \A x : Linked(rx_msg_queue', x) <=> Linked(rx_msg_queue, x) /\ x # t
  BY <1>1, UnlinkProps DEF IInv, TypeInv, QueueInv
<1>4. /\ st' \in [Thread -> Place] /\ st'[t] = "run"
      /\ \A u \in Thread : u # t => st'[u] = st[u]
  BY <1>1 DEF IInv, TypeInv, Place
<1>5. t \in Sender /\ t \notin Async /\ Thread \subseteq Sender /\ Async \subseteq Sender
  BY MailboxAssumption DEF Sender
<1>6. /\ tx_msg' \in [Sender -> TxState] /\ tx_msg'[t] = NoMsg
      /\ \A s \in Sender : s # t => tx_msg'[s] = tx_msg[s]
  BY <1>1, <1>5, RecordProps DEF IInv, TypeInv
<1>7. /\ st[t] = "rx" => ~Holds(t) /\ rx_msg[t].data \notin Block /\ tx_msg[t] = NoMsg
      /\ \A u \in Thread : ~Has(u, t) /\ ~Fills(u, t)
  BY <1>1, <1>5, MailboxAssumption DEF IInv, TypeInv, HandInv, Fills
<1>8. /\ rx_msg' \in [Thread -> RxState]
      /\ \A u \in Thread : u # t \/ st[u] # "rx" => rx_msg'[u] = rx_msg[u]
      /\ st[t] = "rx" => rx_msg'[t] = NoRx
  BY <1>1, RecordProps DEF IInv, TypeInv
<1>9. /\ \A u \in Thread : Holds(u)' <=> Holds(u)
      /\ \A u \in Thread, s \in Sender : Has(u, s)' <=> Has(u, s)
      /\ \A u \in Thread : \/ rx_msg'[u].data = rx_msg[u].data
                           \/ rx_msg'[u].data \notin Block /\ rx_msg[u].data \notin Block
  BY <1>7, <1>8, RecordProps DEF Holds, Has
<1>10. /\ \A u, s : Fills(u, s)' <=> Fills(u, s)
       /\ \A a \in Async : \A v : Signals(a, v)' <=> Signals(a, v)
       /\ \A s : Waits(s)' <=> Waits(s) /\ s # t
  BY <1>1, <1>2, <1>5, <1>6, <1>7 DEF Fills, Signals, Waits
<1>11. TypeInv'
  BY <1>1, <1>2, <1>3, <1>4, <1>6, <1>8 DEF IInv, TypeInv
<1>12. QueueInv'
  BY <1>1, <1>2, <1>3, <1>4 DEF IInv, QueueInv
<1>13. HandInv'
  BY <1>1, <1>4, <1>5, <1>6, <1>9 DEF IInv, HandInv
<1>14. DescInv'
  BY <1>1, <1>2, <1>5, <1>6, <1>9, <1>10 DEF IInv, DescInv
<1>15. BlockInv'
  <2>1. \A b \in Block : Sends(t, b) <=> tx_msg[t].data = b
    BY <1>1, <1>7, RecordProps DEF IInv, QueueInv, Sends, Waits
  <2>2. \A x \in Sender, b \in Block : Sends(x, b)' <=> Sends(x, b) /\ x # t
    BY <1>6, <1>10 DEF Sends
  <2>3. \A u \in Thread, b \in Block : Keeps(u, b)' <=> Keeps(u, b)
    BY <1>9 DEF Keeps
  <2>4. \A b \in Block : b \in owned' <=> b \in owned \/ Sends(t, b)
    BY <1>1, <2>1
  <2>5. pool' = pool
    BY <1>1
  <2> QED BY <1>5, <2>2, <2>3, <2>4, <2>5 DEF IInv, BlockInv
<1>16. FlowInv'
  <2>1. \A u \in Thread : \A v : Gives(u, v)' <=> Gives(u, v)
    BY <1>1, <1>4, <1>8 DEF Gives
  <2>2. \A u \in Thread : st'[u] = "give" => st[u] = "give" /\ rx_msg'[u] = rx_msg[u]
    BY <1>4, <1>8
  <2> QED BY <1>1, <1>5, <1>6, <1>10, <2>1, <2>2, RecordProps DEF IInv, FlowInv
<1>17. NoCompatiblePairWaits'
  BY <1>2, <1>4, <1>6, <1>8 DEF IInv, NoCompatiblePairWaits
<1> QED BY <1>11, <1>12, <1>13, <1>14, <1>15, <1>16, <1>17 DEF IInv

\* The sender is made ready, or its descriptor freed.
LEMMA NotifyStep ==
  ASSUME IInv, NEW t \in Thread, notify_sender(t)
  PROVE  IInv'
<1> DEFINE s == rx_msg[t]._syncing_thread
           src == IF tx_msg[s].sem THEN tx_msg[s].source ELSE NULL
<1>1. /\ st[t] = "notify"
      /\ tx_msg' = [tx_msg EXCEPT ![s] = NoMsg]
      /\ async_msg_free' = IF s \in Async THEN <<s>> \o async_msg_free ELSE async_msg_free
      /\ st' = [u \in Thread |-> IF u = s THEN "run" ELSE IF u # t THEN st[u]
                                 ELSE IF tx_msg[s].sem THEN "give" ELSE "run"]
      /\ rx_msg' = [rx_msg EXCEPT ![t] = [NoRx EXCEPT !.source = src]]
      /\ UNCHANGED <<tx_msg_queue, rx_msg_queue, suspended, async, sem, owned, pool>>
  BY DEF notify_sender, Runs
<1>2. s \in Sender /\ Has(t, s) /\ rx_msg[t].data \notin Block
  <2>1. Holds(t) /\ rx_msg[t].data \notin Block
    BY <1>1 DEF IInv, HandInv
  <2>2. rx_msg[t]._syncing_thread \in Sender \cup {NULL}
    BY DEF IInv, TypeInv, RxState
  <2> QED BY <2>1, <2>2 DEF Holds, Has
<1>3. /\ s # t /\ ~Waits(s) /\ \A u \in Thread : Has(u, s) => u = t
      /\ s \in Thread => st[s] \in {"sync", "taken"}
      /\ s \in Async => ~Linked(async_msg_free, s)
  <2>1. \A u \in Thread : Has(u, s) => u = t
    BY <1>2 DEF IInv, HandInv
  <2>2. s \in Thread => st[s] \in {"sync", "taken"} /\ s # t
    BY <1>1, <1>2 DEF IInv, HandInv
  <2>3. s \in Async => ~Linked(async_msg_free, s) /\ ~Linked(tx_msg_queue, s)
                       /\ \A u \in Thread : ~Fills(u, s)
    BY <1>2 DEF IInv, DescInv
  <2>4. s \in Thread => ~Linked(tx_msg_queue, s) /\ \A u \in Thread : ~Fills(u, s)
    <3>1. \A u \in Thread : async[u] \in Async \cup {NULL}
      BY DEF IInv, TypeInv
    <3>2. s \in Thread => s \notin Async \cup {NULL}
      BY <1>2, RecordProps
    <3>3. s \in Thread => ~Linked(tx_msg_queue, s)
      BY <2>2 DEF IInv, QueueInv
    <3> HIDE DEF s
    <3> QED BY <3>1, <3>2, <3>3 DEF Fills
  <2>5. s \in Thread \/ s \in Async
    BY <1>2 DEF Sender
  <2>6. s # t
    BY <2>2, <2>5, MailboxAssumption
  <2> QED BY <2>1, <2>2, <2>3, <2>4, <2>5, <2>6 DEF Waits
<1>4. /\ Thread \subseteq Sender /\ Async \subseteq Sender /\ Thread \cap Async = {}
      /\ s \in Thread \/ s \in Async
  BY <1>2, MailboxAssumption DEF Sender
<1>5. /\ tx_msg' \in [Sender -> TxState] /\ tx_msg'[s] = NoMsg
      /\ \A x \in Sender : x # s => tx_msg'[x] = tx_msg[x]
  BY <1>1, <1>2, RecordProps DEF IInv, TypeInv
<1>6. tx_msg[s] \in TxState /\ src \in Thread \cup {NULL} /\ tx_msg[s].sem \in BOOLEAN
  BY <1>2 DEF IInv, TypeInv, TxState
<1>8. /\ rx_msg' \in [Thread -> RxState]
      /\ rx_msg'[t]._syncing_thread = NULL /\ rx_msg'[t].source = src /\ rx_msg'[t].data = "empty"
      /\ \A u \in Thread : u # t => rx_msg'[u] = rx_msg[u]
  <2> DEFINE r == [NoRx EXCEPT !.source = src]
  <2>1. r \in RxState /\ r._syncing_thread = NULL /\ r.source = src /\ r.data = "empty"
    <3> HIDE DEF src
    <3> QED BY <1>6, RxSource
  <2> HIDE DEF r
  <2> QED BY <1>1, <2>1 DEF IInv, TypeInv, r
<1>9. /\ st' \in [Thread -> Place] /\ st'[t] = (IF tx_msg[s].sem THEN "give" ELSE "run")
      /\ s \in Thread => st'[s] = "run"
      /\ \A u \in Thread : u # t /\ u # s => st'[u] = st[u]
  BY <1>1, <1>3 DEF IInv, TypeInv, Place
<1>10. /\ async_msg_free' \in Seq(Async) /\ NoDup(async_msg_free')
       /\ \A a \in Async : Linked(async_msg_free', a) <=> Linked(async_msg_free, a) \/ a = s
  <2>1. CASE s \in Async
    BY <1>1, <1>3, <2>1, PushProps DEF IInv, TypeInv, QueueInv
  <2>2. CASE s \notin Async
    BY <1>1, <2>2 DEF IInv, TypeInv, QueueInv
  <2> QED BY <2>1, <2>2
<1> HIDE DEF s
<1>11. /\ \A u \in Thread, x \in Sender : Has(u, x)' <=> Has(u, x) /\ u # t
       /\ \A u \in Thread : Holds(u)' <=> Holds(u) /\ u # t
       /\ \A x \in Sender : Has(t, x) => x = s
  <2>1. \A u \in Thread, x \in Sender : Has(u, x)' <=> Has(u, x) /\ u # t
    BY <1>8, RecordProps DEF Has
  <2>2. \A u \in Thread : Holds(u)' <=> Holds(u) /\ u # t
    BY <1>8 DEF Holds
  <2>3. \A x \in Sender : Has(t, x) => x = s
    BY DEF Has, s
  <2> QED BY <2>1, <2>2, <2>3
<1>12. /\ \A u, x : Fills(u, x)' <=> Fills(u, x)
       /\ \A x : Waits(x)' <=> Waits(x)
  BY <1>1 DEF Fills, Waits
<1>13. TypeInv'
  BY <1>1, <1>5, <1>8, <1>9, <1>10 DEF IInv, TypeInv
<1>14. QueueInv'
  BY <1>1, <1>3, <1>9, <1>10 DEF IInv, QueueInv
<1>15. HandInv'
  <2>1. \A u \in Thread : rx_msg'[u].data \in Block => rx_msg'[u].data = rx_msg[u].data /\ u # t
    BY <1>8, RecordProps
  <2>2. \A u \in Thread : /\ st'[u] \in {"get", "free", "notify"} => Holds(u)'
                          /\ st'[u] \in {"rx", "give"} => ~Holds(u)'
                          /\ st'[u] = "notify" \/ ~Holds(u)' => rx_msg'[u].data \notin Block
    BY <1>3, <1>9, <1>11, <2>1 DEF IInv, HandInv
  <2>3. \A u, v \in Thread, x \in Sender : Has(u, x)' /\ Has(v, x)' => u = v
    BY <1>11 DEF IInv, HandInv
  <2>4. \A x \in Thread : st'[x] \in {"sync", "taken"} <=> \E u \in Thread : Has(u, x)'
    <3> TAKE x \in Thread
    <3>1. CASE x = s
      BY <1>3, <1>4, <1>9, <1>11, <3>1
    <3>2. CASE x = t
      BY <1>1, <1>4, <1>9, <1>11, <3>2 DEF IInv, HandInv
    <3>3. CASE x # s /\ x # t
      BY <1>4, <1>9, <1>11, <3>3 DEF IInv, HandInv
    <3> QED BY <3>1, <3>2, <3>3
  <2>5. \A x \in Thread : st'[x] \notin {"tx", "sync", "taken"} => tx_msg'[x] = NoMsg
    BY <1>1, <1>4, <1>5, <1>9 DEF IInv, HandInv
  <2> QED BY <2>2, <2>3, <2>4, <2>5 DEF HandInv
<1>16. DescInv'
  BY <1>1, <1>2, <1>3, <1>4, <1>5, <1>10, <1>11, <1>12 DEF IInv, DescInv, Waits
<1>17. BlockInv'
  <2>1. \A x \in Sender, b \in Block : Sends(x, b)' <=> Sends(x, b)
    BY <1>3, <1>5, <1>12 DEF Sends
  <2>2. \A u \in Thread, b \in Block : Keeps(u, b)' <=> Keeps(u, b)
    BY <1>2, <1>8, RecordProps DEF Keeps
  <2> QED BY <1>1, <2>1, <2>2 DEF IInv, BlockInv
<1>18. FlowInv'
  <2>1. \A a \in Async : \A v \in Thread : Signals(a, v)' <=> Signals(a, v) /\ a # s
    BY <1>4, <1>5, RecordProps, MailboxAssumption DEF Signals
  <2>2. \A u, v \in Thread : Gives(u, v)' <=> Gives(u, v) \/ (u = t /\ s \in Async /\ Signals(s, v))
    <3> TAKE u, v \in Thread
    <3>1. tx_msg[s].sem => s \in Async
      BY <1>2 DEF IInv, FlowInv
    <3>2. CASE u = t
      BY <1>1, <1>8, <1>9, <3>1, <3>2 DEF Gives, Signals
    <3>3. CASE u # t
      BY <1>3, <1>4, <1>8, <1>9, <3>3 DEF Gives
    <3> QED BY <3>2, <3>3
  <2>3. \A x \in Sender : tx_msg'[x].sem => tx_msg'[x].source \in Thread /\ x \in Async
    BY <1>5, RecordProps DEF IInv, FlowInv
  <2>4. \A u \in Thread : st'[u] = "give" => rx_msg'[u].source \in Thread
    <3>1. st'[t] = "give" => src \in Thread
      BY <1>2, <1>9 DEF IInv, FlowInv
    <3> QED BY <1>8, <1>9, <1>4, <3>1 DEF IInv, FlowInv
  <2>5. sem' = sem
    BY <1>1
  <2> QED BY <2>1, <2>2, <2>3, <2>4, <2>5 DEF IInv, FlowInv
<1>19. NoCompatiblePairWaits'
  BY <1>1, <1>3, <1>5, <1>8, <1>9 DEF IInv, NoCompatiblePairWaits, Waits
<1> QED BY <1>13, <1>14, <1>15, <1>16, <1>17, <1>18, <1>19 DEF IInv

\* A descriptor is taken off the stack and filled.
LEMMA AllocStep ==
  ASSUME IInv, NEW t \in Thread, NEW target \in Thread \cup {ANY}, NEW d \in Data, NEW w \in BOOLEAN,
         _mbox_async_alloc(t, target, d, w)
  PROVE  IInv'
<1> DEFINE a == Head(async_msg_free)
           m == [source |-> t, target |-> target, data |-> d, sem |-> w]
<1>1. /\ st[t] = "run" /\ async_msg_free # << >>
      /\ d \in Block => d \in owned
      /\ w => sem[t] = 1
      /\ tx_msg' = [tx_msg EXCEPT ![a] = m]
      /\ async' = [async EXCEPT ![t] = a]
      /\ async_msg_free' = Tail(async_msg_free)
      /\ sem' = [sem EXCEPT ![t] = IF w THEN 0 ELSE @]
      /\ st' = [st EXCEPT ![t] = "put"]
      /\ owned' = owned \ {d}
      /\ UNCHANGED <<tx_msg_queue, rx_msg_queue, rx_msg, suspended, pool>>
  BY DEF _mbox_async_alloc, Runs, Message
<1>2. /\ a \in Async /\ Linked(async_msg_free, a)
      /\ async_msg_free' \in Seq(Async) /\ NoDup(async_msg_free')
      /\ \A x : Linked(async_msg_free', x) <=> Linked(async_msg_free, x) /\ x # a
  BY <1>1, TailProps DEF IInv, TypeInv, QueueInv
<1>3. m \in TxState /\ m.source = t /\ m.data = d /\ m.sem = w
  BY DEF TxState
<1> HIDE DEF a, m
<1>4. /\ a \in Sender /\ a \notin Thread /\ Async \subseteq Sender /\ Thread \subseteq Sender
      /\ a # NULL /\ async[t] = NULL
  BY <1>1, <1>2, MailboxAssumption DEF Sender, IInv, QueueInv
<1>5. /\ tx_msg[a] = NoMsg /\ ~Linked(tx_msg_queue, a) /\ ~Waits(a)
      /\ \A u \in Thread : ~Fills(u, a) /\ ~Has(u, a)
  BY <1>2 DEF IInv, DescInv, Waits
<1>6. /\ tx_msg' \in [Sender -> TxState] /\ tx_msg'[a] = m
      /\ \A x \in Sender : x # a => tx_msg'[x] = tx_msg[x]
  BY <1>1, <1>3, <1>4 DEF IInv, TypeInv
<1>7. /\ st' \in [Thread -> Place] /\ st'[t] = "put"
      /\ \A u \in Thread : u # t => st'[u] = st[u]
  BY <1>1 DEF IInv, TypeInv, Place
<1>8. /\ async' \in [Thread -> Async \cup {NULL}] /\ async'[t] = a
      /\ \A u \in Thread : u # t => async'[u] = async[u]
  BY <1>1, <1>2 DEF IInv, TypeInv
<1>9. /\ sem' \in [Thread -> {0, 1}] /\ sem'[t] = (IF w THEN 0 ELSE sem[t])
      /\ \A u \in Thread : u # t => sem'[u] = sem[u]
  BY <1>1 DEF IInv, TypeInv
<1>10. /\ \A u, x : Has(u, x)' <=> Has(u, x)
       /\ \A u : Holds(u)' <=> Holds(u)
  BY <1>1 DEF Has, Holds
<1>11. \A u \in Thread, x \in Sender : Fills(u, x)' <=> Fills(u, x) \/ (u = t /\ x = a)
  BY <1>4, <1>8, RecordProps DEF Fills
<1>12. \A x \in Sender : Waits(x)' <=> Waits(x) \/ x = a
  BY <1>1, <1>11 DEF Waits
<1>13. TypeInv'
  BY <1>1, <1>2, <1>6, <1>7, <1>8, <1>9 DEF IInv, TypeInv
<1>14. QueueInv'
  BY <1>1, <1>2, <1>4, <1>7, <1>8 DEF IInv, QueueInv
<1>15. HandInv'
  BY <1>1, <1>4, <1>6, <1>7, <1>10 DEF IInv, HandInv
<1>16. DescInv'
  BY <1>1, <1>2, <1>4, <1>5, <1>6, <1>10, <1>11 DEF IInv, DescInv
<1>17. BlockInv'
  <2>1. \A x \in Sender, b \in Block : Sends(x, b)' <=> Sends(x, b) \/ (x = a /\ b = d)
    BY <1>3, <1>5, <1>6, <1>12 DEF Sends
  <2>2. \A u \in Thread, b \in Block : Keeps(u, b)' <=> Keeps(u, b)
    BY <1>1 DEF Keeps
  <2>3. \A b \in Block : b \in owned' <=> b \in owned /\ b # d
    BY <1>1
  <2>4. \A b \in Block : b = d => b \in owned
    BY <1>1
  <2>5. pool' = pool
    BY <1>1
  <2> QED BY <1>4, <2>1, <2>2, <2>3, <2>4, <2>5 DEF IInv, BlockInv
<1>18. FlowInv'
  <2>1. \A x \in Async, v \in Thread : Signals(x, v)' <=> Signals(x, v) \/ (x = a /\ v = t /\ w)
    BY <1>3, <1>4, <1>5, <1>6, RecordProps DEF Signals
  <2>2. \A u, v \in Thread : Gives(u, v)' <=> Gives(u, v)
    BY <1>1, <1>7 DEF Gives
  <2>3. \A x \in Sender : tx_msg'[x].sem => tx_msg'[x].source \in Thread /\ x \in Async
    BY <1>2, <1>3, <1>6 DEF IInv, FlowInv
  <2>4. \A u \in Thread : st'[u] = "give" => rx_msg'[u].source \in Thread
    BY <1>1, <1>7 DEF IInv, FlowInv
  <2> QED BY <1>1, <1>2, <1>9, <2>1, <2>2, <2>3, <2>4 DEF IInv, FlowInv
<1>19. NoCompatiblePairWaits'
  BY <1>1, <1>5, <1>6, <1>7 DEF IInv, NoCompatiblePairWaits
<1> QED BY <1>13, <1>14, <1>15, <1>16, <1>17, <1>18, <1>19 DEF IInv

\* What k_mbox_put() and k_mbox_async_put() have in common: thread t sends the message m
\* of s, its own or that of the descriptor it has filled.
PutBy(t, s, m) ==
  /\ s \in Sender /\ m \in TxState
  /\ \/ /\ s = t /\ st[t] = "run" /\ m.sem = FALSE /\ async' = async
        /\ m.data \in Block => m.data \in owned
        /\ owned' = owned \ {m.data}
     \/ /\ s \in Async /\ st[t] = "put" /\ Fills(t, s) /\ m = tx_msg[s]
        /\ async' = [async EXCEPT ![t] = NULL] /\ owned' = owned
  /\ tx_msg' = [tx_msg EXCEPT ![s] = m]
  /\ UNCHANGED <<suspended, async_msg_free, sem, pool>>

\* Nobody else has the message, or the block in it.
OnlySender(t, s, m) ==
  /\ s \in Sender /\ (s \in Thread => s = t) /\ (s = t => st[t] = "run")
  /\ s \in Thread \/ s \in Async
  /\ s \notin Thread => st[t] = "put"
  /\ tx_msg' \in [Sender -> TxState] /\ tx_msg'[s] = m
  /\ \A x \in Sender : x # s => tx_msg'[x] = tx_msg[x]
  /\ \A a \in Async : tx_msg'[a] = tx_msg[a]
  /\ async' \in [Thread -> Async \cup {NULL}] /\ async'[t] = NULL
  /\ \A u \in Thread : u # t => async'[u] = async[u]
  /\ \A u \in Thread, x \in Sender : Fills(u, x)' <=> Fills(u, x) /\ u # t
  /\ \A u \in Thread : (Fills(u, s) => u = t) /\ ~Has(u, s)
  /\ \A x \in Sender : Fills(t, x) => x = s
  /\ ~Linked(tx_msg_queue, s) /\ ~Linked(async_msg_free, s)

OnlyBlock(s, m) ==
  /\ owned' \in SUBSET Block
  /\ \A b \in Block : m.data = b => /\ b \notin owned' /\ b \notin pool
                                    /\ \A x \in Sender : Sends(x, b) => x = s
                                    /\ \A u \in Thread : ~Keeps(u, b)
  /\ \A b \in Block : m.data # b => ~Sends(s, b) /\ (b \in owned' <=> b \in owned)
  /\ \A x \in Sender : tx_msg'[x].sem => tx_msg'[x].source \in Thread /\ x \in Async
  /\ UNCHANGED <<suspended, async_msg_free, sem, pool>>

LEMMA PutProps ==
  ASSUME IInv, NEW t \in Thread, NEW s, NEW m, PutBy(t, s, m)
  PROVE  OnlySender(t, s, m) /\ OnlyBlock(s, m)
<1> USE DEF OnlySender, OnlyBlock
<1>0. UNCHANGED <<suspended, async_msg_free, sem, pool>>
  BY DEF PutBy
<1>1. /\ s \in Sender /\ m \in TxState /\ t \in Sender /\ NULL \notin Sender
      /\ \A x \in Sender : x \in Thread <=> x \notin Async
      /\ Async \subseteq Sender
  BY RecordProps DEF PutBy, Sender
<1>2. /\ tx_msg' \in [Sender -> TxState] /\ tx_msg'[s] = m
      /\ \A x \in Sender : x # s => tx_msg'[x] = tx_msg[x]
  BY <1>1 DEF PutBy, IInv, TypeInv
<1>3. async \in [Thread -> Async \cup {NULL}] /\ owned \in SUBSET Block
  BY DEF IInv, TypeInv
<1>4. CASE s = t
  <2>1. /\ st[t] = "run" /\ m.sem = FALSE /\ async' = async
        /\ m.data \in Block => m.data \in owned
        /\ owned' = owned \ {m.data}
    BY <1>1, <1>4 DEF PutBy
  <2>2. /\ async[t] = NULL /\ ~Linked(tx_msg_queue, t) /\ \A u \in Thread : ~Has(u, t)
    BY <2>1 DEF IInv, QueueInv, HandInv
  <2>3. /\ \A u \in Thread, x \in Sender : Fills(u, x)' <=> Fills(u, x)
        /\ \A x \in Sender : ~Fills(t, x)
        /\ \A u \in Thread : ~Fills(u, t)
    BY <1>1, <1>3, <2>1, <2>2 DEF Fills
  <2>4. \A x : Linked(async_msg_free, x) => x \in Async
    BY ElementOfSeq, LenProperties DEF IInv, TypeInv, Linked
  <2>5. \A b \in Block : ~Sends(t, b)
    BY <2>2, <2>3 DEF Sends, Waits
  <2>6. \A b \in Block : m.data = b => /\ b \notin owned' /\ b \notin pool
                                       /\ \A x \in Sender : ~Sends(x, b)
                                       /\ \A u \in Thread : ~Keeps(u, b)
    BY <2>1 DEF IInv, BlockInv
  <2>7. \A x \in Sender : tx_msg'[x].sem => tx_msg'[x].source \in Thread /\ x \in Async
    BY <1>2, <2>1 DEF IInv, FlowInv
  <2> QED BY <1>0, <1>1, <1>2, <1>3, <1>4, <2>1, <2>2, <2>3, <2>4, <2>5, <2>6, <2>7
<1>5. CASE s # t
  <2>1. /\ s \in Async /\ st[t] = "put" /\ Fills(t, s) /\ m = tx_msg[s]
        /\ async' = [async EXCEPT ![t] = NULL] /\ owned' = owned
    BY <1>5 DEF PutBy
  <2>2. /\ ~Linked(tx_msg_queue, s) /\ ~Linked(async_msg_free, s)
        /\ \A u \in Thread : (Fills(u, s) => u = t) /\ ~Has(u, s)
    BY <2>1 DEF IInv, DescInv
  <2>3. /\ async' \in [Thread -> Async \cup {NULL}] /\ async'[t] = NULL
        /\ \A u \in Thread : u # t => async'[u] = async[u]
    BY <1>3, <2>1
  <2>4. /\ \A u \in Thread, x \in Sender : Fills(u, x)' <=> Fills(u, x) /\ u # t
        /\ \A x \in Sender : Fills(t, x) => x = s
    BY <1>1, <2>1, <2>3 DEF Fills
  <2>5. \A b \in Block : Sends(s, b) <=> m.data = b
    BY <2>1 DEF Sends, Waits
  <2>6. \A b \in Block : m.data = b => /\ b \notin owned' /\ b \notin pool
                                       /\ \A x \in Sender : Sends(x, b) => x = s
                                       /\ \A u \in Thread : ~Keeps(u, b)
    BY <1>1, <2>1, <2>5 DEF IInv, BlockInv
  <2>7. \A x \in Sender : tx_msg'[x].sem => tx_msg'[x].source \in Thread /\ x \in Async
    BY <1>2, <2>1 DEF IInv, FlowInv
  <2> QED BY <1>0, <1>1, <1>2, <1>3, <1>5, <2>1, <2>2, <2>3, <2>4, <2>5, <2>6, <2>7
<1> QED BY <1>4, <1>5

\* The receivers the message fits
Fits(m) == {r \in Thread : st[r] = "rx" /\ _mbox_message_match(m, r, rx_msg[r].source)}

\* A receiver waits for the message.
LEMMA PutMatched ==
  ASSUME IInv, NEW t \in Thread, NEW s, NEW m, PutBy(t, s, m), NEW r \in Thread, st[r] = "rx",
         rx_msg_queue' = sys_dlist_remove(rx_msg_queue, r),
         rx_msg' = [rx_msg EXCEPT ![r] = Matched(s, m, @)],
         st' = [st EXCEPT ![r] = "get", ![t] = IF s \in Async THEN "run" ELSE "sync"],
         UNCHANGED tx_msg_queue
  PROVE  IInv'
<1> USE DEF OnlySender, OnlyBlock
<1>1. OnlySender(t, s, m)
  BY PutProps
<1>2. OnlyBlock(s, m)
  BY PutProps
<1>3. /\ Thread \subseteq Sender /\ Async \subseteq Sender /\ Thread \cap Async = {}
      /\ st[t] \in {"run", "put"} /\ r # t /\ r # s /\ NULL \notin Sender
  BY <1>1, RecordProps, MailboxAssumption DEF Sender
<1>4. /\ rx_msg_queue' \in Seq(Thread) /\ NoDup(rx_msg_queue')
      /\ \A x : Linked(rx_msg_queue', x) <=> Linked(rx_msg_queue, x) /\ x # r
  BY UnlinkProps DEF IInv, TypeInv, QueueInv
<1>5. /\ st' \in [Thread -> Place] /\ st'[r] = "get"
      /\ st'[t] = (IF s = t THEN "sync" ELSE "run")
      /\ \A u \in Thread : u # r /\ u # t => st'[u] = st[u]
  <2>1. s \in Async <=> s # t
    BY <1>1, <1>3
  <2> QED BY <1>3, <2>1 DEF IInv, TypeInv, Place
<1>6. /\ rx_msg' \in [Thread -> RxState]
      /\ rx_msg'[r]._syncing_thread = s /\ rx_msg'[r].data = m.data
      /\ \A u \in Thread : u # r => rx_msg'[u] = rx_msg[u]
  <2> DEFINE z == Matched(s, m, rx_msg[r])
  <2>1. m \in TxState /\ rx_msg[r] \in RxState
    BY DEF PutBy, IInv, TypeInv
  <2>2. z \in RxState /\ z._syncing_thread = s /\ z.data = m.data
    BY <1>1, <2>1, MatchedProps
  <2> HIDE DEF z
  <2> QED BY <2>2 DEF IInv, TypeInv, z
<1>7. ~Holds(r) /\ rx_msg[r].data \notin Block /\ \A x \in Sender : ~Has(r, x)
  BY <1>3 DEF IInv, HandInv, Holds, Has
<1>8. /\ \A u \in Thread, x \in Sender : Has(u, x)' <=> Has(u, x) \/ (u = r /\ x = s)
      /\ \A u \in Thread : Holds(u)' <=> Holds(u) \/ u = r
  BY <1>1, <1>3, <1>6, <1>7 DEF Has, Holds
<1>9. \A x \in Sender : Waits(x)' <=> Waits(x) /\ x # s
  <2>1. \A x \in Sender : (\E u \in Thread : Fills(u, x)') <=> (\E u \in Thread : Fills(u, x)) /\ x # s
    BY <1>1
  <2> QED BY <1>1, <2>1 DEF Waits
<1>10. TypeInv'
  BY <1>1, <1>2, <1>4, <1>5, <1>6 DEF IInv, TypeInv
<1>11. QueueInv'
  BY <1>1, <1>2, <1>3, <1>4, <1>5 DEF IInv, QueueInv
<1>12. HandInv'
  <2>1. \A u \in Thread : /\ st'[u] \in {"get", "free", "notify"} => Holds(u)'
                          /\ st'[u] \in {"rx", "give"} => ~Holds(u)'
                          /\ st'[u] = "notify" \/ ~Holds(u)' => rx_msg'[u].data \notin Block
    BY <1>3, <1>5, <1>6, <1>8 DEF IInv, HandInv
  <2>2. \A u, v \in Thread, x \in Sender : Has(u, x)' /\ Has(v, x)' => u = v
    BY <1>1, <1>7, <1>8 DEF IInv, HandInv
  <2>3. \A x \in Thread : st'[x] \in {"sync", "taken"} <=> \E u \in Thread : Has(u, x)'
    <3> TAKE x \in Thread
    <3>1. CASE x = t
      BY <1>1, <1>3, <1>5, <1>8, <3>1 DEF IInv, HandInv
    <3>2. CASE x # t
      BY <1>1, <1>3, <1>5, <1>8, <3>2 DEF IInv, HandInv
    <3> QED BY <3>1, <3>2
  <2>4. \A x \in Thread : st'[x] \notin {"tx", "sync", "taken"} => tx_msg'[x] = NoMsg
    BY <1>1, <1>3, <1>5 DEF IInv, HandInv
  <2> QED BY <2>1, <2>2, <2>3, <2>4 DEF HandInv
<1>13. DescInv'
  BY <1>1, <1>2, <1>3, <1>8 DEF IInv, DescInv
<1>14. BlockInv'
  <2>1. \A x \in Sender, b \in Block : Sends(x, b)' <=> Sends(x, b) /\ x # s
    BY <1>1, <1>9 DEF Sends
  <2>2. \A u \in Thread, b \in Block : Keeps(u, b)' <=> Keeps(u, b) \/ (u = r /\ m.data = b)
    BY <1>6, <1>7 DEF Keeps
  <2>3. pool' = pool
    BY <1>2
  <2> QED BY <1>1, <1>2, <2>1, <2>2, <2>3 DEF IInv, BlockInv
<1>15. FlowInv'
  <2>1. \A a \in Async, v \in Thread : Signals(a, v)' <=> Signals(a, v)
    BY <1>1 DEF Signals
  <2>2. \A u, v \in Thread : Gives(u, v)' <=> Gives(u, v)
    BY <1>3, <1>5, <1>6 DEF Gives
  <2>3. \A u \in Thread : st'[u] = "give" => rx_msg'[u].source \in Thread
    BY <1>5, <1>6 DEF IInv, FlowInv
  <2> QED BY <1>2, <2>1, <2>2, <2>3 DEF IInv, FlowInv
<1>16. NoCompatiblePairWaits'
  <2>1. \A u \in Thread : st'[u] = "rx" => st[u] = "rx" /\ rx_msg'[u] = rx_msg[u]
    BY <1>5, <1>6
  <2>2. \A x \in Sender : Linked(tx_msg_queue', x) => Linked(tx_msg_queue, x) /\ tx_msg'[x] = tx_msg[x]
    BY <1>1
  <2> QED BY <2>1, <2>2 DEF IInv, NoCompatiblePairWaits
<1> QED BY <1>10, <1>11, <1>12, <1>13, <1>14, <1>15, <1>16 DEF IInv

\* No receiver waits for the message: it is queued.
LEMMA PutQueued ==
  ASSUME IInv, NEW t \in Thread, NEW s, NEW m, PutBy(t, s, m), NEW C, Fits(m) = {},
         tx_msg_queue' = sys_dlist_insert_at(tx_msg_queue, s, C),
         st' = [st EXCEPT ![t] = IF s \in Async THEN "run" ELSE "tx"],
         s \in Thread => ~suspended[s],
         UNCHANGED <<rx_msg_queue, rx_msg>>
  PROVE  IInv'
<1> USE DEF OnlySender, OnlyBlock
<1>1. OnlySender(t, s, m)
  BY PutProps
<1>2. OnlyBlock(s, m)
  BY PutProps
<1>3. /\ Thread \subseteq Sender /\ Async \subseteq Sender /\ Thread \cap Async = {}
      /\ st[t] \in {"run", "put"} /\ NULL \notin Sender
  BY <1>1, RecordProps, MailboxAssumption DEF Sender
<1>4. /\ tx_msg_queue' \in Seq(Sender) /\ NoDup(tx_msg_queue')
      /\ \A x : Linked(tx_msg_queue', x) <=> Linked(tx_msg_queue, x) \/ x = s
  BY <1>1, InsertAtProps DEF IInv, TypeInv, QueueInv
<1>5. /\ st' \in [Thread -> Place] /\ st'[t] = (IF s = t THEN "tx" ELSE "run")
      /\ \A u \in Thread : u # t => st'[u] = st[u]
  <2>1. s \in Async <=> s # t
    BY <1>1, <1>3
  <2> QED BY <1>3, <2>1 DEF IInv, TypeInv, Place
<1>6. /\ \A u, x : Has(u, x)' <=> Has(u, x)
      /\ \A u : Holds(u)' <=> Holds(u)
  BY DEF Has, Holds
<1>7. \A x \in Sender : Waits(x)' <=> Waits(x) \/ x = s
  <2>1. \A x \in Sender : (\E u \in Thread : Fills(u, x)') <=> (\E u \in Thread : Fills(u, x)) /\ x # s
    BY <1>1
  <2> QED BY <1>4, <2>1 DEF Waits
<1>8. TypeInv'
  BY <1>1, <1>2, <1>4, <1>5 DEF IInv, TypeInv
<1>9. QueueInv'
  BY <1>1, <1>2, <1>3, <1>4, <1>5 DEF IInv, QueueInv
<1>10. HandInv'
  BY <1>1, <1>3, <1>5, <1>6 DEF IInv, HandInv
<1>11. DescInv'
  BY <1>1, <1>2, <1>3, <1>4, <1>6 DEF IInv, DescInv
<1>12. BlockInv'
  <2>1. \A x \in Sender, b \in Block : x # s => (Sends(x, b)' <=> Sends(x, b))
    BY <1>1, <1>7 DEF Sends
  <2>2. \A b \in Block : Sends(s, b)' <=> m.data = b
    BY <1>1, <1>7 DEF Sends
  <2>3. \A u \in Thread, b \in Block : Keeps(u, b)' <=> Keeps(u, b)
    BY DEF Keeps
  <2>4. pool' = pool
    BY <1>2
  <2> QED BY <1>1, <1>2, <2>1, <2>2, <2>3, <2>4 DEF IInv, BlockInv
<1>13. FlowInv'
  <2>1. \A a \in Async, v \in Thread : Signals(a, v)' <=> Signals(a, v)
    BY <1>1 DEF Signals
  <2>2. \A u, v \in Thread : Gives(u, v)' <=> Gives(u, v)
    BY <1>3, <1>5 DEF Gives
  <2>3. \A u \in Thread : st'[u] = "give" => rx_msg'[u].source \in Thread
    BY <1>5 DEF IInv, FlowInv
  <2> QED BY <1>2, <2>1, <2>2, <2>3 DEF IInv, FlowInv
<1>14. NoCompatiblePairWaits'
  <2>1. \A u \in Thread : st'[u] = "rx" => st[u] = "rx"
    BY <1>5
  <2>2. \A u \in Thread : st[u] = "rx" => m.target \notin {ANY, u} \/ rx_msg[u].source \notin {ANY, m.source}
    BY DEF Fits, _mbox_message_match
  <2>3. ASSUME NEW x \in Sender, NEW u \in Thread, Linked(tx_msg_queue', x), st'[u] = "rx"
        PROVE  tx_msg'[x].target \notin {ANY, u} \/ rx_msg'[u].source \notin {ANY, tx_msg'[x].source}
    <3>1. CASE x = s
      BY <1>1, <2>1, <2>2, <2>3, <3>1
    <3>2. CASE x # s
      BY <1>1, <1>4, <2>1, <2>3, <3>2 DEF IInv, NoCompatiblePairWaits
    <3> QED BY <3>1, <3>2
  <2> QED BY <2>3 DEF NoCompatiblePairWaits
<1> QED BY <1>8, <1>9, <1>10, <1>11, <1>12, <1>13, <1>14 DEF IInv

\* _mbox_message_put(), by either caller
LEMMA PutStep ==
  ASSUME IInv, NEW t \in Thread, ~suspended[t], NEW s, NEW m, PutBy(t, s, m),
         _mbox_message_put(t, s, m)
  PROVE  IInv'
<1> DEFINE r == First(rx_msg_queue, Fits(m))
<1>1. s \in Sender /\ (s \in Thread => s = t)
  BY PutProps DEF OnlySender
<1>2. CASE Fits(m) # {}
  <2>1. r \in Thread /\ st[r] = "rx"
    <3>1. \A u \in Fits(m) : u \in Thread /\ st[u] = "rx" /\ Linked(rx_msg_queue, u)
      BY DEF Fits, IInv, QueueInv
    <3>2. \E u \in Fits(m) : Linked(rx_msg_queue, u)
      BY <1>2, <3>1
    <3>3. rx_msg_queue \in Seq(Thread)
      BY DEF IInv, TypeInv
    <3>4. r \in Fits(m)
      BY <3>2, <3>3, FirstProps
    <3> QED BY <3>1, <3>4
  <2>2. /\ rx_msg_queue' = sys_dlist_remove(rx_msg_queue, r)
        /\ rx_msg' = [rx_msg EXCEPT ![r] = Matched(s, m, @)]
        /\ st' = [st EXCEPT ![r] = "get", ![t] = IF s \in Async THEN "run" ELSE "sync"]
        /\ UNCHANGED tx_msg_queue
    BY <1>2 DEF _mbox_message_put, Fits
  <2> HIDE DEF r
  <2> QED BY <2>1, <2>2, PutMatched
<1>3. CASE Fits(m) = {}
  <2>1. PICK C : tx_msg_queue' = sys_dlist_insert_at(tx_msg_queue, s, C)
    BY <1>3 DEF _mbox_message_put, Fits, PendTx
  <2>2. /\ st' = [st EXCEPT ![t] = IF s \in Async THEN "run" ELSE "tx"]
        /\ UNCHANGED <<rx_msg_queue, rx_msg>>
    BY <1>3 DEF _mbox_message_put, Fits
  <2> QED BY <1>1, <1>3, <2>1, <2>2, PutQueued
<1> QED BY <1>2, <1>3

LEMMA SendStep ==
  ASSUME IInv, NEW t \in Thread, NEW target \in Thread \cup {ANY}, NEW d \in Data,
         k_mbox_put(t, target, d)
  PROVE  IInv'
<1> DEFINE m == [source |-> t, target |-> target, data |-> d, sem |-> FALSE]
<1>1. /\ st[t] = "run" /\ ~suspended[t] /\ _mbox_message_put(t, t, m)
      /\ d \in Block => d \in owned
      /\ owned' = owned \ {d}
      /\ UNCHANGED <<suspended, async_msg_free, async, sem, pool>>
  BY DEF k_mbox_put, Runs, Message
<1>2. m \in TxState /\ m.data = d /\ m.sem = FALSE
  BY DEF TxState
<1> HIDE DEF m
<1>3. PutBy(t, t, m)
  BY <1>1, <1>2 DEF PutBy, _mbox_message_put, Sender
<1> QED BY <1>1, <1>3, PutStep

LEMMA AsyncSendStep ==
  ASSUME IInv, NEW t \in Thread, k_mbox_async_put(t)
  PROVE  IInv'
<1> DEFINE s == async[t]
           m == tx_msg[s]
<1>1. /\ st[t] = "put" /\ ~suspended[t] /\ _mbox_message_put(t, s, m)
      /\ async' = [async EXCEPT ![t] = NULL]
      /\ UNCHANGED <<suspended, async_msg_free, sem, owned, pool>>
  BY DEF k_mbox_async_put, Runs
<1>2. s \in Async /\ s \in Sender /\ Fills(t, s) /\ m \in TxState
  BY <1>1 DEF IInv, TypeInv, QueueInv, Sender, Fills
<1>3. PutBy(t, s, m)
  BY <1>1, <1>2 DEF PutBy, _mbox_message_put
<1> HIDE DEF s, m
<1> QED BY <1>1, <1>3, PutStep

\* The receive descriptor k_mbox_get() is called with
LEMMA RxWant ==
  ASSUME NEW v \in Thread \cup {ANY, NULL}, NEW f \in BOOLEAN,
         NEW r, r = [NoRx EXCEPT !.source = v, !.buffer = f]
  PROVE  r \in RxState /\ r._syncing_thread = NULL /\ r.source = v /\ r.data = "empty"
<1>1. r \in RxState
  BY RecordProps DEF RxState
<1>2. r._syncing_thread = NULL /\ r.source = v /\ r.data = "empty"
  BY RecordProps DEF RxState
<1> QED BY <1>1, <1>2

\* A message on the queue fits the receiver.
LEMMA GetMatched ==
  ASSUME IInv, NEW t \in Thread, st[t] = "run", ~Holds(t), NEW r \in RxState,
         NEW s \in Sender, Linked(tx_msg_queue, s),
         tx_msg_queue' = sys_dlist_remove(tx_msg_queue, s),
         rx_msg' = [rx_msg EXCEPT ![t] = Matched(s, tx_msg[s], r)],
         st' = [u \in Thread |-> IF u = t THEN "get" ELSE IF u = s THEN "taken" ELSE st[u]],
         UNCHANGED <<rx_msg_queue, tx_msg, suspended, async_msg_free, async, sem, owned, pool>>
  PROVE  IInv'
<1>1. /\ Thread \subseteq Sender /\ Async \subseteq Sender /\ Thread \cap Async = {}
      /\ s \in Thread \/ s \in Async
      /\ s \in Thread => st[s] = "tx" /\ ~suspended[s]
      /\ s # t /\ NULL \notin Sender
  BY RecordProps, MailboxAssumption DEF Sender, IInv, QueueInv
<1>2. /\ tx_msg_queue' \in Seq(Sender) /\ NoDup(tx_msg_queue')
      /\ \A x : Linked(tx_msg_queue', x) <=> Linked(tx_msg_queue, x) /\ x # s
  BY UnlinkProps DEF IInv, TypeInv, QueueInv
<1>3. /\ rx_msg' \in [Thread -> RxState]
      /\ rx_msg'[t]._syncing_thread = s /\ rx_msg'[t].data = tx_msg[s].data
      /\ \A u \in Thread : u # t => rx_msg'[u] = rx_msg[u]
  <2> DEFINE z == Matched(s, tx_msg[s], r)
  <2>1. tx_msg[s] \in TxState
    BY DEF IInv, TypeInv
  <2>2. z \in RxState /\ z._syncing_thread = s /\ z.data = tx_msg[s].data
    BY <2>1, MatchedProps
  <2> HIDE DEF z
  <2> QED BY <2>2 DEF IInv, TypeInv, z
<1>4. /\ st' \in [Thread -> Place] /\ st'[t] = "get" /\ (s \in Thread => st'[s] = "taken")
      /\ \A u \in Thread : u # t /\ u # s => st'[u] = st[u]
  BY <1>1 DEF IInv, TypeInv, Place
<1>5. /\ rx_msg[t].data \notin Block /\ \A x \in Sender : ~Has(t, x)
      /\ \A u \in Thread : ~Has(u, s) /\ ~Fills(u, s)
      /\ ~Linked(async_msg_free, s) \/ s \notin Async
  <2>1. rx_msg[t].data \notin Block
    BY DEF IInv, HandInv
  <2>2. \A x \in Sender : ~Has(t, x)
    BY <1>1 DEF Holds, Has
  <2>3. \A u \in Thread : ~Has(u, s)
    BY <1>1 DEF IInv, HandInv, DescInv
  <2>4. \A u \in Thread : ~Fills(u, s)
    <3>1. CASE s \in Async
      BY <3>1 DEF IInv, DescInv
    <3>2. CASE s \notin Async
      BY <1>1, <3>2 DEF IInv, TypeInv, Fills
    <3> QED BY <3>1, <3>2
  <2>5. ~Linked(async_msg_free, s) \/ s \notin Async
    BY DEF IInv, DescInv
  <2> QED BY <2>1, <2>2, <2>3, <2>4, <2>5
<1>6. /\ \A u \in Thread, x \in Sender : Has(u, x)' <=> Has(u, x) \/ (u = t /\ x = s)
      /\ \A u \in Thread : Holds(u)' <=> Holds(u) \/ u = t
  BY <1>1, <1>3, <1>5 DEF Has, Holds
<1>7. /\ \A u, x : Fills(u, x)' <=> Fills(u, x)
      /\ \A x \in Sender : Waits(x)' <=> Waits(x) /\ x # s
  BY <1>2, <1>5 DEF Fills, Waits
<1>8. TypeInv'
  BY <1>2, <1>3, <1>4 DEF IInv, TypeInv
<1>9. QueueInv'
  BY <1>1, <1>2, <1>4 DEF IInv, QueueInv
<1>10. HandInv'
  <2>1. \A u \in Thread : /\ st'[u] \in {"get", "free", "notify"} => Holds(u)'
                          /\ st'[u] \in {"rx", "give"} => ~Holds(u)'
                          /\ st'[u] = "notify" \/ ~Holds(u)' => rx_msg'[u].data \notin Block
    BY <1>3, <1>4, <1>6 DEF IInv, HandInv
  <2>2. \A u, v \in Thread, x \in Sender : Has(u, x)' /\ Has(v, x)' => u = v
    BY <1>5, <1>6 DEF IInv, HandInv
  <2>3. \A x \in Thread : st'[x] \in {"sync", "taken"} <=> \E u \in Thread : Has(u, x)'
    <3> TAKE x \in Thread
    <3>1. CASE x = s
      BY <1>1, <1>4, <1>6, <3>1
    <3>2. CASE x # s
      BY <1>1, <1>4, <1>6, <3>2 DEF IInv, HandInv
    <3> QED BY <3>1, <3>2
  <2>4. \A x \in Thread : st'[x] \notin {"tx", "sync", "taken"} => tx_msg'[x] = NoMsg
    BY <1>1, <1>4 DEF IInv, HandInv
  <2> QED BY <2>1, <2>2, <2>3, <2>4 DEF HandInv
<1>11. DescInv'
  BY <1>1, <1>2, <1>5, <1>6, <1>7 DEF IInv, DescInv
<1>12. BlockInv'
  <2>1. \A x \in Sender, b \in Block : Sends(x, b)' <=> Sends(x, b) /\ x # s
    BY <1>7 DEF Sends
  <2>2. \A u \in Thread, b \in Block : Keeps(u, b)' <=> Keeps(u, b) \/ (u = t /\ Sends(s, b))
    BY <1>3, <1>5 DEF Keeps, Sends, Waits
  <2> QED BY <2>1, <2>2 DEF IInv, BlockInv
<1>13. FlowInv'
  <2>1. \A a \in Async, v \in Thread : Signals(a, v)' <=> Signals(a, v)
    BY DEF Signals
  <2>2. \A u, v \in Thread : Gives(u, v)' <=> Gives(u, v)
    BY <1>1, <1>3, <1>4 DEF Gives
  <2>3. \A u \in Thread : st'[u] = "give" => rx_msg'[u].source \in Thread
    BY <1>3, <1>4 DEF IInv, FlowInv
  <2> QED BY <2>1, <2>2, <2>3 DEF IInv, FlowInv
<1>14. NoCompatiblePairWaits'
  BY <1>2, <1>3, <1>4 DEF IInv, NoCompatiblePairWaits
<1> QED BY <1>8, <1>9, <1>10, <1>11, <1>12, <1>13, <1>14 DEF IInv

\* No message on the queue fits: the receiver waits.
LEMMA GetQueued ==
  ASSUME IInv, NEW t \in Thread, st[t] = "run", ~Holds(t), NEW r \in RxState,
         r._syncing_thread = NULL, r.data = "empty", NEW C,
         \A s \in Sender : Linked(tx_msg_queue, s) => ~_mbox_message_match(tx_msg[s], t, r.source),
         rx_msg_queue' = sys_dlist_insert_at(rx_msg_queue, t, C),
         rx_msg' = [rx_msg EXCEPT ![t] = r],
         st' = [st EXCEPT ![t] = "rx"],
         UNCHANGED <<tx_msg_queue, tx_msg, suspended, async_msg_free, async, sem, owned, pool>>
  PROVE  IInv'
<1>1. /\ st' \in [Thread -> Place] /\ st'[t] = "rx"
      /\ \A u \in Thread : u # t => st'[u] = st[u]
  BY DEF IInv, TypeInv, Place
<1>2. /\ rx_msg' \in [Thread -> RxState] /\ rx_msg'[t] = r
      /\ \A u \in Thread : u # t => rx_msg'[u] = rx_msg[u]
  BY DEF IInv, TypeInv
<1>3. /\ rx_msg_queue' \in Seq(Thread) /\ NoDup(rx_msg_queue')
      /\ \A x : Linked(rx_msg_queue', x) <=> Linked(rx_msg_queue, x) \/ x = t
  BY InsertAtProps DEF IInv, TypeInv, QueueInv
<1>4. /\ rx_msg[t].data \notin Block /\ "empty" \notin Block /\ NULL \notin Sender
      /\ Thread \subseteq Sender /\ Async \subseteq Sender
  BY RecordProps DEF IInv, HandInv, Sender
<1>5. /\ \A u \in Thread : Holds(u)' <=> Holds(u)
      /\ \A u \in Thread, s \in Sender : Has(u, s)' <=> Has(u, s)
  BY <1>2, <1>4 DEF Holds, Has
<1>6. /\ \A u, s : Fills(u, s)' <=> Fills(u, s)
      /\ \A a, v : Signals(a, v)' <=> Signals(a, v)
      /\ \A s : Waits(s)' <=> Waits(s)
  BY DEF Fills, Signals, Waits
<1>7. TypeInv'
  BY <1>1, <1>2, <1>3 DEF IInv, TypeInv
<1>8. QueueInv'
  BY <1>1, <1>3 DEF IInv, QueueInv
<1>9. HandInv'
  BY <1>1, <1>2, <1>4, <1>5 DEF IInv, HandInv
<1>10. DescInv'
  BY <1>4, <1>5, <1>6 DEF IInv, DescInv
<1>11. BlockInv'
  <2>1. \A x \in Sender, b \in Block : Sends(x, b)' <=> Sends(x, b)
    BY <1>6 DEF Sends
  <2>2. \A u \in Thread, b \in Block : Keeps(u, b)' <=> Keeps(u, b)
    BY <1>2, <1>4 DEF Keeps
  <2> QED BY <2>1, <2>2 DEF IInv, BlockInv
<1>12. FlowInv'
  <2>1. \A u, v \in Thread : Gives(u, v)' <=> Gives(u, v)
    BY <1>1, <1>2 DEF Gives
  <2>2. \A u \in Thread : st'[u] = "give" => rx_msg'[u].source \in Thread
    BY <1>1, <1>2 DEF IInv, FlowInv
  <2> QED BY <1>6, <2>1, <2>2 DEF IInv, FlowInv
<1>13. NoCompatiblePairWaits'
  BY <1>1, <1>2 DEF IInv, NoCompatiblePairWaits, _mbox_message_match
<1> QED BY <1>7, <1>8, <1>9, <1>10, <1>11, <1>12, <1>13 DEF IInv

LEMMA GetStep ==
  ASSUME IInv, NEW t \in Thread, NEW want \in Thread \cup {ANY}, NEW buffer \in BOOLEAN,
         k_mbox_get(t, want, buffer)
  PROVE  IInv'
<1> DEFINE found == {s \in Sender : Linked(tx_msg_queue, s) /\ _mbox_message_match(tx_msg[s], t, want)}
           r == [NoRx EXCEPT !.source = want, !.buffer = buffer]
           s == First(tx_msg_queue, found)
<1>1. /\ st[t] = "run" /\ ~Holds(t)
      /\ UNCHANGED <<tx_msg, suspended, async_msg_free, async, sem, owned, pool>>
  BY DEF k_mbox_get, Runs
<1>2. r \in RxState /\ r._syncing_thread = NULL /\ r.source = want /\ r.data = "empty"
  BY RxWant
<1>3. CASE found # {}
  <2>1. /\ tx_msg_queue' = sys_dlist_remove(tx_msg_queue, s)
        /\ rx_msg' = [rx_msg EXCEPT ![t] = Matched(s, tx_msg[s], r)]
        /\ st' = [u \in Thread |-> IF u = t THEN "get" ELSE IF u = s THEN "taken" ELSE st[u]]
        /\ UNCHANGED rx_msg_queue
    BY <1>3 DEF k_mbox_get
  <2>2. s \in Sender /\ Linked(tx_msg_queue, s)
    <3>1. \E x \in found : Linked(tx_msg_queue, x)
      BY <1>3
    <3>2. tx_msg_queue \in Seq(Sender)
      BY DEF IInv, TypeInv
    <3> HIDE DEF found
    <3> QED BY <3>1, <3>2, FirstProps
  <2> HIDE DEF s, r
  <2> QED BY <1>1, <1>2, <2>1, <2>2, GetMatched
<1>4. CASE found = {}
  <2>1. /\ rx_msg' = [rx_msg EXCEPT ![t] = r]
        /\ st' = [st EXCEPT ![t] = "rx"]
        /\ UNCHANGED tx_msg_queue
    BY <1>4 DEF k_mbox_get
  <2>2. PICK C : rx_msg_queue' = sys_dlist_insert_at(rx_msg_queue, t, C)
    BY <1>4 DEF k_mbox_get, PendRx
  <2>3. \A x \in Sender : Linked(tx_msg_queue, x) => ~_mbox_message_match(tx_msg[x], t, r.source)
    BY <1>2, <1>4
  <2> HIDE DEF r
  <2> QED BY <1>1, <1>2, <2>1, <2>2, <2>3, GetQueued
<1> QED BY <1>3, <1>4

LEMMA MailboxStep ==
  ASSUME NoSenderSuspended, IInv, [Next]_vars
  PROVE  IInv'
<1>1. CASE UNCHANGED vars
  BY <1>1 DEF vars, IInv, TypeInv, QueueInv, HandInv, DescInv, BlockInv, FlowInv, NoCompatiblePairWaits,
              Holds, Has, Fills, Waits, Sends, Keeps, Signals, Gives
<1>2. ASSUME NEW t \in Thread, NEW target \in Thread \cup {ANY}, NEW d \in Data, k_mbox_put(t, target, d)
      PROVE  IInv'
  BY <1>2, SendStep
<1>3. ASSUME NEW t \in Thread, NEW target \in Thread \cup {ANY}, NEW d \in Data, NEW w \in BOOLEAN,
             _mbox_async_alloc(t, target, d, w)
      PROVE  IInv'
  BY <1>3, AllocStep
<1>4. ASSUME NEW t \in Thread, NEW want \in Thread \cup {ANY}, NEW buffer \in BOOLEAN,
             k_mbox_get(t, want, buffer)
      PROVE  IInv'
  BY <1>4, GetStep
<1>5. ASSUME NEW t \in Thread, NEW b \in Block, k_mbox_data_block_get(t, b)
      PROVE  IInv'
  BY <1>5, BlockGetStep
<1>6. ASSUME NEW t \in Thread,
             \/ k_mbox_async_put(t) \/ _mbox_message_data_check(t) \/ k_mbox_data_get(t)
             \/ _mbox_message_dispose(t) \/ notify_sender(t) \/ give_async_sem(t)
             \/ times_out(t) \/ k_thread_suspend(t) \/ k_thread_resume(t)
      PROVE  IInv'
  BY <1>6, AsyncSendStep, DataStep, DisposeStep, NotifyStep, GiveStep, TimesOutStep, SuspendStep
<1> QED BY <1>1, <1>2, <1>3, <1>4, <1>5, <1>6 DEF Next

\* The invariant of the mailbox (mailbox.c), for any number of threads, descriptors and
\* blocks: the queues and the places of the threads agree, every message, block and signal
\* is in one place, and no two waiting threads fit.
THEOREM MailboxInvariant ==
  ASSUME NoSenderSuspended
  PROVE  Spec => []IInv
<1>1. Init => IInv
  BY InitInv
<1>2. IInv /\ [Next]_vars => IInv'
  BY MailboxStep
<1> QED BY <1>1, <1>2, PTL DEF Spec

\* How many elements a set has, of which there can only be one
LEMMA CountOne ==
  ASSUME NEW S, \A x, y \in S : x = y
  PROVE  Cardinality(S) = IF S = {} THEN 0 ELSE 1
<1>1. CASE S = {}
  BY <1>1, FS_EmptySet
<1>2. CASE S # {}
  <2>1. PICK x \in S : TRUE
    BY <1>2
  <2>2. S = {x}
    BY <2>1
  <2> QED BY <2>2, FS_Singleton
<1> QED BY <1>1, <1>2

\* A synchronous sender stays blocked, and a descriptor in use, until the receiver has
\* disposed of the message (_mbox_message_dispose()).
THEOREM MailboxBlocks ==
  ASSUME NoSenderSuspended
  PROVE  Spec => []BlockedUntilDisposed
<1>1. ASSUME IInv PROVE BlockedUntilDisposed
  <2> SUFFICES ASSUME NEW s \in Sender
               PROVE  Cardinality(HasMessageOf(s)) + (IF Linked(tx_msg_queue, s) THEN 1 ELSE 0)
                        = IF s \in Thread THEN IF st[s] \in {"tx", "sync", "taken"} THEN 1 ELSE 0
                          ELSE IF Linked(async_msg_free, s) \/ \E t \in Thread : async[t] = s THEN 0 ELSE 1
    BY DEF BlockedUntilDisposed
  <2>1. \A t \in Thread : t \in HasMessageOf(s) <=> Has(t, s)
    BY DEF HasMessageOf, Has
  <2>2. HasMessageOf(s) \subseteq Thread /\ \A t, u \in HasMessageOf(s) : t = u
    BY <1>1 DEF IInv, HandInv, HasMessageOf, Has
  <2>3. Cardinality(HasMessageOf(s)) = IF \E t \in Thread : Has(t, s) THEN 1 ELSE 0
    BY <2>1, <2>2, CountOne
  <2>4. CASE s \in Thread
    BY <1>1, <2>3, <2>4 DEF IInv, QueueInv, HandInv
  <2>5. CASE s \in Async
    <3>1. s \notin Thread
      BY <2>5, RecordProps DEF Sender
    <3> QED BY <1>1, <2>3, <2>5, <3>1 DEF IInv, DescInv, Fills
  <2> QED BY <2>4, <2>5 DEF Sender
<1> QED BY <1>1, MailboxInvariant, PTL

\* No sender and receiver that fit wait at the same time (k_mbox_get(), _mbox_message_put()).
THEOREM MailboxPairs ==
  ASSUME NoSenderSuspended
  PROVE  Spec => []NoCompatiblePairWaits
<1>1. IInv => NoCompatiblePairWaits
  BY DEF IInv
<1> QED BY <1>1, MailboxInvariant, PTL

\* Every memory pool block has one owner, whichever way its message ends.
THEOREM MailboxBlocksConserved ==
  ASSUME NoSenderSuspended
  PROVE  Spec => []BlocksConserved
<1>1. ASSUME IInv PROVE BlocksConserved
  <2> SUFFICES ASSUME NEW b \in Block
               PROVE  (IF b \in owned THEN 1 ELSE 0) + (IF b \in pool THEN 1 ELSE 0)
                        + Cardinality({s \in Unreceived : tx_msg[s].data = b})
                        + Cardinality({t \in Thread : rx_msg[t].data = b}) = 1
    BY DEF BlocksConserved
  <2> DEFINE S == {s \in Unreceived : tx_msg[s].data = b}
             K == {t \in Thread : rx_msg[t].data = b}
  <2>1. S = {s \in Sender : Sends(s, b)} /\ K = {t \in Thread : Keeps(t, b)}
    BY DEF Unreceived, Sends, Waits, Fills, Keeps
  <2>2. /\ \A s, r \in S : s = r
        /\ \A t, u \in K : t = u
    BY <1>1, <2>1 DEF IInv, BlockInv
  <2>3. /\ Cardinality(S) = IF S = {} THEN 0 ELSE 1
        /\ Cardinality(K) = IF K = {} THEN 0 ELSE 1
    BY <2>2, CountOne
  <2>4. /\ ~(b \in owned /\ b \in pool)
        /\ b \in owned \cup pool => S = {} /\ K = {}
        /\ b \notin owned \cup pool => S # {} \/ K # {}
        /\ S = {} \/ K = {}
    BY <1>1, <2>1 DEF IInv, BlockInv
  <2> HIDE DEF S, K
  <2>5. (IF b \in owned THEN 1 ELSE 0) + (IF b \in pool THEN 1 ELSE 0) + Cardinality(S) + Cardinality(K) = 1
    BY <2>3, <2>4
  <2> QED BY <2>5 DEF S, K
<1> QED BY <1>1, MailboxInvariant, PTL

\* The semaphore of an asynchronous message is given once, and not before the message is gone.
THEOREM MailboxFlowControl ==
  ASSUME NoSenderSuspended
  PROVE  Spec => []AsyncFlowControl
<1>1. ASSUME IInv PROVE AsyncFlowControl
  <2> SUFFICES ASSUME NEW t \in Thread
               PROVE  sem[t] + Cardinality({a \in Async : tx_msg[a].source = t /\ tx_msg[a].sem})
                        + Cardinality({u \in Thread : st[u] = "give" /\ rx_msg[u].source = t}) = 1
    BY DEF AsyncFlowControl
  <2> DEFINE S == {a \in Async : tx_msg[a].source = t /\ tx_msg[a].sem}
             K == {u \in Thread : st[u] = "give" /\ rx_msg[u].source = t}
  <2>1. S = {a \in Async : Signals(a, t)} /\ K = {u \in Thread : Gives(u, t)}
    BY DEF Signals, Gives
  <2>2. /\ \A a, b \in S : a = b
        /\ \A u, v \in K : u = v
    BY <1>1, <2>1 DEF IInv, FlowInv
  <2>3. /\ Cardinality(S) = IF S = {} THEN 0 ELSE 1
        /\ Cardinality(K) = IF K = {} THEN 0 ELSE 1
    BY <2>2, CountOne
  <2>4. /\ sem[t] \in {0, 1}
        /\ sem[t] = 1 => S = {} /\ K = {}
        /\ sem[t] = 0 => S # {} \/ K # {}
        /\ S = {} \/ K = {}
    BY <1>1, <2>1 DEF IInv, TypeInv, FlowInv
  <2> HIDE DEF S, K
  <2>5. sem[t] + Cardinality(S) + Cardinality(K) = 1
    BY <2>3, <2>4
  <2> QED BY <2>5 DEF S, K
<1> QED BY <1>1, MailboxInvariant, PTL

(***************************************************************************)
(* The refinement                                                          *)
(***************************************************************************)

\* A message that was sent names its source, and a receiver that waits what it asks for.
SourceInv ==
  /\ \A s \in Thread : st[s] \in {"tx", "sync", "taken"} => tx_msg[s].source = s
  /\ \A a \in Async : ~Linked(async_msg_free, a) => tx_msg[a].source \in Thread
  /\ \A t \in Thread : st[t] = "rx" => rx_msg[t].source \in Thread \cup {ANY}

LEMMA SourceInit ==
  ASSUME Init
  PROVE  SourceInv
<1>1. IInv
  BY InitInv
<1>2. \A a \in Async : Linked(async_msg_free, a)
  <2>1. ASSUME NEW a \in Async, ~Linked(async_msg_free, a) PROVE FALSE
    <3>1. ~Linked(tx_msg_queue, a) /\ \A t \in Thread : ~Fills(t, a) /\ ~Has(t, a)
      BY RecordProps, MailboxAssumption DEF Init, Linked, Fills, Has, Sender
    <3> QED BY <1>1, <2>1, <3>1 DEF IInv, DescInv
  <2> QED BY <2>1
<1> QED BY <1>2 DEF Init, SourceInv

\* _mbox_message_put(): the message is t's own, or that of its descriptor.
LEMMA SourcePut ==
  ASSUME IInv, SourceInv, NEW t \in Thread, NEW s \in Sender, NEW m, m.source \in Thread,
         s \in Thread => s = t /\ m.source = t,
         _mbox_message_put(t, s, m), async_msg_free' = async_msg_free
  PROVE  SourceInv'
<1>1. /\ Thread \cap Async = {} /\ Thread \subseteq Sender /\ Async \subseteq Sender
      /\ s \in Thread \/ s \in Async
  BY MailboxAssumption DEF Sender
<1>2. /\ tx_msg'[s] = m
      /\ \A x \in Sender : x # s => tx_msg'[x] = tx_msg[x]
  BY DEF _mbox_message_put, IInv, TypeInv
<1>3. \A u \in Thread : /\ st'[u] = st[u] \/ u = t \/ st'[u] = "get"
                        /\ st'[t] \in {"run", "sync", "tx", "get"}
                        /\ st'[t] \in {"sync", "tx"} => s = t
  <2> DEFINE r == First(rx_msg_queue, Fits(m))
  <2>1. CASE Fits(m) # {}
    <3>1. st' = [st EXCEPT ![r] = "get", ![t] = IF s \in Async THEN "run" ELSE "sync"]
      BY <2>1 DEF _mbox_message_put, Fits
    <3> HIDE DEF r
    <3> QED BY <1>1, <3>1 DEF IInv, TypeInv
  <2>2. CASE Fits(m) = {}
    <3>1. st' = [st EXCEPT ![t] = IF s \in Async THEN "run" ELSE "tx"]
      BY <2>2 DEF _mbox_message_put, Fits
    <3> QED BY <1>1, <3>1 DEF IInv, TypeInv
  <2> QED BY <2>1, <2>2
<1>4. \A u \in Thread : st'[u] = "rx" => rx_msg'[u] = rx_msg[u] /\ st[u] = "rx"
  <2> DEFINE r == First(rx_msg_queue, Fits(m))
  <2>1. CASE Fits(m) # {}
    <3>1. /\ st' = [st EXCEPT ![r] = "get", ![t] = IF s \in Async THEN "run" ELSE "sync"]
          /\ rx_msg' = [rx_msg EXCEPT ![r] = Matched(s, m, @)]
      BY <2>1 DEF _mbox_message_put, Fits
    <3> HIDE DEF r
    <3> QED BY <3>1 DEF IInv, TypeInv
  <2>2. CASE Fits(m) = {}
    BY <2>2 DEF _mbox_message_put, Fits, IInv, TypeInv
  <2> QED BY <2>1, <2>2
<1> QED BY <1>1, <1>2, <1>3, <1>4 DEF SourceInv

LEMMA SourceNotify ==
  ASSUME IInv, SourceInv, NEW t \in Thread, notify_sender(t)
  PROVE  SourceInv'
<1> DEFINE s == rx_msg[t]._syncing_thread
<1>1. /\ tx_msg' = [tx_msg EXCEPT ![s] = NoMsg]
      /\ async_msg_free' = IF s \in Async THEN <<s>> \o async_msg_free ELSE async_msg_free
      /\ st' = [u \in Thread |-> IF u = s THEN "run" ELSE IF u # t THEN st[u]
                                 ELSE IF tx_msg[s].sem THEN "give" ELSE "run"]
      /\ \A u \in Thread : u # t => rx_msg'[u] = rx_msg[u]
  BY DEF notify_sender, IInv, TypeInv
<1> HIDE DEF s
<1>2. \A x : Linked(async_msg_free, x) \/ (s \in Async /\ x = s) => Linked(async_msg_free', x)
  BY <1>1, PushProps DEF IInv, TypeInv
<1>3. \A x \in Sender : x # s => tx_msg'[x] = tx_msg[x]
  BY <1>1 DEF IInv, TypeInv
<1>4. /\ \A a \in Async : a \in Sender
      /\ \A u \in Thread : u \in Sender
  BY DEF Sender
<1>5. \A u \in Thread : st'[u] \in {"tx", "sync", "taken", "rx"} => st'[u] = st[u] /\ u # s /\ u # t
  BY <1>1
<1> QED BY <1>1, <1>2, <1>3, <1>4, <1>5 DEF SourceInv

LEMMA SourceAlloc ==
  ASSUME IInv, SourceInv, NEW t \in Thread, NEW target \in Thread \cup {ANY}, NEW d \in Data, NEW w \in BOOLEAN,
         _mbox_async_alloc(t, target, d, w)
  PROVE  SourceInv'
<1> DEFINE a == Head(async_msg_free)
           m == [source |-> t, target |-> target, data |-> d, sem |-> w]
<1>1. /\ async_msg_free # << >>
      /\ tx_msg' = [tx_msg EXCEPT ![a] = m]
      /\ async_msg_free' = Tail(async_msg_free)
      /\ st' = [st EXCEPT ![t] = "put"]
      /\ UNCHANGED rx_msg
  BY DEF _mbox_async_alloc
<1>2. /\ a \in Async
      /\ \A x : Linked(async_msg_free', x) <=> Linked(async_msg_free, x) /\ x # a
  BY <1>1, TailProps DEF IInv, TypeInv, QueueInv
<1>3. m.source = t
  OBVIOUS
<1> HIDE DEF a, m
<1>4. /\ tx_msg'[a] = m /\ \A x \in Sender : x # a => tx_msg'[x] = tx_msg[x]
      /\ Thread \subseteq Sender /\ Async \subseteq Sender /\ a \notin Thread
  BY <1>1, <1>2, MailboxAssumption DEF IInv, TypeInv, Sender
<1>5. \A u \in Thread : st'[u] = IF u = t THEN "put" ELSE st[u]
  BY <1>1 DEF IInv, TypeInv
<1> QED BY <1>1, <1>2, <1>3, <1>4, <1>5 DEF SourceInv

LEMMA SourceGet ==
  ASSUME IInv, SourceInv, NEW t \in Thread, NEW want \in Thread \cup {ANY}, NEW buffer \in BOOLEAN,
         k_mbox_get(t, want, buffer)
  PROVE  SourceInv'
<1> DEFINE found == {s \in Sender : Linked(tx_msg_queue, s) /\ _mbox_message_match(tx_msg[s], t, want)}
           r == [NoRx EXCEPT !.source = want, !.buffer = buffer]
           s == First(tx_msg_queue, found)
<1>1. UNCHANGED <<tx_msg, async_msg_free>>
  BY DEF k_mbox_get
<1>2. r.source = want
  BY RxWant
<1>3. CASE found # {}
  <2>1. /\ rx_msg' = [rx_msg EXCEPT ![t] = Matched(s, tx_msg[s], r)]
        /\ st' = [u \in Thread |-> IF u = t THEN "get" ELSE IF u = s THEN "taken" ELSE st[u]]
    BY <1>3 DEF k_mbox_get
  <2>2. s \in Sender /\ Linked(tx_msg_queue, s)
    <3>1. \E x \in found : Linked(tx_msg_queue, x)
      BY <1>3
    <3>2. tx_msg_queue \in Seq(Sender)
      BY DEF IInv, TypeInv
    <3> HIDE DEF found
    <3> QED BY <3>1, <3>2, FirstProps
  <2>3. \A u \in Thread : u = s => st[u] = "tx"
    BY <2>2 DEF IInv, QueueInv
  <2> HIDE DEF s, r
  <2>4. \A u \in Thread : u # t => rx_msg'[u] = rx_msg[u]
    BY <2>1 DEF IInv, TypeInv
  <2> QED BY <1>1, <2>1, <2>3, <2>4 DEF SourceInv
<1>4. CASE found = {}
  <2>1. /\ rx_msg' = [rx_msg EXCEPT ![t] = r]
        /\ st' = [st EXCEPT ![t] = "rx"]
    BY <1>4 DEF k_mbox_get
  <2> HIDE DEF r
  <2>2. \A u \in Thread : /\ rx_msg'[u] = IF u = t THEN r ELSE rx_msg[u]
                          /\ st'[u] = IF u = t THEN "rx" ELSE st[u]
    BY <2>1 DEF IInv, TypeInv
  <2> QED BY <1>1, <1>2, <2>2 DEF SourceInv
<1> QED BY <1>3, <1>4

LEMMA SourceStep ==
  ASSUME IInv, SourceInv, [Next]_vars
  PROVE  SourceInv'
<1>1. CASE UNCHANGED vars
  BY <1>1 DEF vars, SourceInv
<1>2. ASSUME NEW t \in Thread, NEW target \in Thread \cup {ANY}, NEW d \in Data, k_mbox_put(t, target, d)
      PROVE  SourceInv'
  <2> DEFINE m == [source |-> t, target |-> target, data |-> d, sem |-> FALSE]
  <2>1. _mbox_message_put(t, t, m) /\ async_msg_free' = async_msg_free
    BY <1>2 DEF k_mbox_put
  <2>2. m.source = t /\ t \in Sender
    BY DEF Sender
  <2> HIDE DEF m
  <2> QED BY <2>1, <2>2, SourcePut
<1>3. ASSUME NEW t \in Thread, k_mbox_async_put(t)
      PROVE  SourceInv'
  <2> DEFINE s == async[t]
             m == tx_msg[s]
  <2>1. st[t] = "put" /\ _mbox_message_put(t, s, m) /\ async_msg_free' = async_msg_free
    BY <1>3 DEF k_mbox_async_put, Runs
  <2>2. s \in Async /\ s \in Sender /\ s \notin Thread /\ Fills(t, s)
    BY <2>1, MailboxAssumption DEF IInv, TypeInv, QueueInv, Sender, Fills
  <2>3. m.source \in Thread
    BY <2>2 DEF IInv, DescInv, SourceInv
  <2> HIDE DEF s, m
  <2> QED BY <2>1, <2>2, <2>3, SourcePut
<1>4. ASSUME NEW t \in Thread, NEW b \in Block, k_mbox_data_block_get(t, b)
      PROVE  SourceInv'
  <2>1. /\ rx_msg' = [rx_msg EXCEPT ![t].data = "buffer"] /\ st' = [st EXCEPT ![t] = "free"]
        /\ UNCHANGED <<tx_msg, async_msg_free>>
    BY <1>4 DEF k_mbox_data_block_get
  <2>2. \A u \in Thread : rx_msg'[u].source = rx_msg[u].source
    BY <2>1, DataGone DEF IInv
  <2> QED BY <2>1, <2>2 DEF SourceInv, IInv, TypeInv
<1>5. ASSUME NEW t \in Thread, _mbox_message_dispose(t)
      PROVE  SourceInv'
  <2>1. /\ rx_msg' = [rx_msg EXCEPT ![t].data = "buffer"] /\ st' = [st EXCEPT ![t] = "notify"]
        /\ UNCHANGED <<tx_msg, async_msg_free>>
    BY <1>5 DEF _mbox_message_dispose
  <2>2. \A u \in Thread : rx_msg'[u].source = rx_msg[u].source
    BY <2>1, DataGone DEF IInv
  <2> QED BY <2>1, <2>2 DEF SourceInv, IInv, TypeInv
<1>6. ASSUME NEW t \in Thread, _mbox_message_data_check(t) \/ k_mbox_data_get(t)
      PROVE  SourceInv'
  <2>1. /\ \A u \in Thread : st'[u] = st[u] \/ st'[u] \in {"run", "free"}
        /\ UNCHANGED <<tx_msg, rx_msg, async_msg_free>>
    BY <1>6 DEF _mbox_message_data_check, k_mbox_data_get, IInv, TypeInv
  <2> QED BY <2>1 DEF SourceInv
<1>7. ASSUME NEW t \in Thread, give_async_sem(t)
      PROVE  SourceInv'
  <2>1. /\ \A u \in Thread : (st'[u] = st[u] /\ rx_msg'[u] = rx_msg[u]) \/ st'[u] = "run"
        /\ UNCHANGED <<tx_msg, async_msg_free>>
    BY <1>7 DEF give_async_sem, IInv, TypeInv
  <2> QED BY <2>1 DEF SourceInv
<1>8. ASSUME NEW t \in Thread, times_out(t)
      PROVE  SourceInv'
  <2>1. /\ \A u \in Thread : u # t => st'[u] = st[u] /\ rx_msg'[u] = rx_msg[u]
        /\ st'[t] = "run" /\ \A x \in Sender : x # t => tx_msg'[x] = tx_msg[x]
        /\ UNCHANGED async_msg_free
    BY <1>8 DEF times_out, IInv, TypeInv
  <2>2. /\ \A a \in Async : a \in Sender /\ a # t
        /\ \A u \in Thread : u \in Sender
    BY MailboxAssumption DEF Sender
  <2> QED BY <2>1, <2>2 DEF SourceInv
<1>9. ASSUME NEW t \in Thread, k_thread_suspend(t) \/ k_thread_resume(t)
      PROVE  SourceInv'
  <2>1. /\ \A u \in Thread : st'[u] = st[u] \/ st'[u] = "run"
        /\ UNCHANGED <<tx_msg, rx_msg, async_msg_free>>
    BY <1>9 DEF k_thread_suspend, k_thread_resume, IInv, TypeInv
  <2> QED BY <2>1 DEF SourceInv
<1> QED BY <1>1, <1>2, <1>3, <1>4, <1>5, <1>6, <1>7, <1>8, <1>9, SourceGet, SourceAlloc, SourceNotify DEF Next

\* The variables of Rendezvous.tla, as Mailbox.tla maps them
offer == [s \in Sender |-> OfferOf(s)]
ask == [t \in Thread |-> AskOf(t)]
met == [t \in Thread |-> MetOf(t)]

NoOffer == [source |-> NULL, target |-> NULL, data |-> NULL]
NoMeeting == [sender |-> NULL, source |-> NULL, data |-> NULL]
Offered(m) == [source |-> m.source, target |-> m.target, data |-> m.data]
Meeting(s, m) == [sender |-> s, source |-> m.source, data |-> m.data]
Open(s) == offer[s] # NoOffer /\ \A t \in Thread : met[t].sender # s

\* The steps of Rendezvous.tla in these variables
LEMMA MappedPut ==
  ASSUME NEW s \in Sender, offer[s] = NoOffer, offer'[s] # NoOffer,
         offer' = [offer EXCEPT ![s] = offer'[s]],
         \/ /\ \A t \in Thread : ask[t] # NULL => ~_mbox_message_match(offer'[s], t, ask[t])
            /\ ask' = ask /\ met' = met
         \/ \E t \in Thread : /\ ask[t] # NULL /\ _mbox_message_match(offer'[s], t, ask[t])
                              /\ ask' = [ask EXCEPT ![t] = NULL]
                              /\ met' = [met EXCEPT ![t] = Meeting(s, offer'[s])]
  PROVE  Meetings!Next
<1> DEFINE m == offer'[s]
<1>1. \A t \in Thread : \A w : _mbox_message_match(m, t, w) <=> Meetings!Fits(m, t, w)
  BY DEF _mbox_message_match, Meetings!Fits
<1>2. Meetings!Put(s, m)
  BY <1>1 DEF Meetings!Put, Meetings!NoOffer, Meetings!Meeting, NoOffer, Meeting, offer, ask, met
<1> QED BY <1>2 DEF Meetings!Next, offer

LEMMA MappedWithdraw ==
  ASSUME NEW s \in Sender, Open(s), offer' = [offer EXCEPT ![s] = NoOffer], ask' = ask, met' = met
  PROVE  Meetings!Next
BY DEF Meetings!Next, Meetings!Withdraw, Meetings!Open, Meetings!NoOffer, Open, NoOffer, offer, ask, met

LEMMA MappedAsk ==
  ASSUME NEW t \in Thread, ask[t] = NULL, met[t] = NoMeeting, ask'[t] # NULL,
         \A s \in Sender : Open(s) => ~_mbox_message_match(offer[s], t, ask'[t]),
         ask' = [ask EXCEPT ![t] = ask'[t]], offer' = offer, met' = met
  PROVE  Meetings!Next
<1> DEFINE w == ask'[t]
<1>1. \A s \in Sender : _mbox_message_match(offer[s], t, w) <=> Meetings!Fits(offer[s], t, w)
  BY DEF _mbox_message_match, Meetings!Fits
<1>2. Meetings!Ask(t, w)
  BY <1>1 DEF Meetings!Ask, Meetings!Free, Meetings!Open, Meetings!NoOffer, Meetings!NoMeeting,
              Open, NoOffer, NoMeeting, offer, ask, met
<1> QED BY <1>2 DEF Meetings!Next, ask

LEMMA MappedReceive ==
  ASSUME NEW t \in Thread, NEW s \in Sender, ask[t] = NULL, met[t] = NoMeeting,
         Open(s), offer[s].target \in {ANY, t}, met'[t].sender = s,
         met' = [met EXCEPT ![t] = Meeting(s, offer[s])], offer' = offer, ask' = ask
  PROVE  Meetings!Next
<1>1. Meetings!Receive(t, s)
  BY DEF Meetings!Receive, Meetings!Free, Meetings!Open, Meetings!NoOffer, Meetings!NoMeeting,
         Meetings!Meeting, Meeting, Open, NoOffer, NoMeeting, offer, ask, met
<1> QED BY <1>1 DEF Meetings!Next, met

LEMMA MappedGiveUp ==
  ASSUME NEW t \in Thread, ask[t] # NULL, ask' = [ask EXCEPT ![t] = NULL], offer' = offer, met' = met
  PROVE  Meetings!Next
BY DEF Meetings!Next, Meetings!GiveUp, offer, ask, met

LEMMA MappedRetrieve ==
  ASSUME NEW t \in Thread, met[t] # NoMeeting, met' = [met EXCEPT ![t].data = "buffer"],
         offer' = offer, ask' = ask
  PROVE  Meetings!Next
BY DEF Meetings!Next, Meetings!Retrieve, Meetings!NoMeeting, NoMeeting, offer, ask, met

LEMMA MappedRelease ==
  ASSUME NEW t \in Thread, met[t] # NoMeeting, offer' = [offer EXCEPT ![met[t].sender] = NoOffer],
         met' = [met EXCEPT ![t] = NoMeeting], ask' = ask
  PROVE  Meetings!Next
BY DEF Meetings!Next, Meetings!Release, Meetings!NoMeeting, Meetings!NoOffer, NoOffer, NoMeeting,
       offer, ask, met

LEMMA MappedSame ==
  ASSUME offer' = offer, ask' = ask, met' = met
  PROVE  UNCHANGED Meetings!vars
BY DEF Meetings!vars, offer, ask, met

\* What the variables hold
Out(s) == Linked(tx_msg_queue, s) \/ \E t \in Thread : Has(t, s)

LEMMA Values ==
  /\ \A s \in Sender : offer[s] = IF Out(s) THEN Offered(tx_msg[s]) ELSE NoOffer
  /\ \A t \in Thread : ask[t] = IF st[t] = "rx" THEN rx_msg[t].source ELSE NULL
  /\ \A t \in Thread : met[t] = IF Holds(t) THEN Meeting(rx_msg[t]._syncing_thread, rx_msg[t])
                                ELSE NoMeeting
BY DEF offer, ask, met, OfferOf, AskOf, MetOf, Out, Has, Holds, Offered, NoOffer, Meeting, NoMeeting

LEMMA NewValues ==
  /\ \A s \in Sender : offer'[s] = IF Out(s)' THEN Offered(tx_msg'[s]) ELSE NoOffer
  /\ \A t \in Thread : ask'[t] = IF st'[t] = "rx" THEN rx_msg'[t].source ELSE NULL
  /\ \A t \in Thread : met'[t] = IF Holds(t)' THEN Meeting(rx_msg'[t]._syncing_thread, rx_msg'[t])
                                 ELSE NoMeeting
BY DEF offer, ask, met, OfferOf, AskOf, MetOf, Out, Has, Holds, Offered, NoOffer, Meeting, NoMeeting

\* The three functions change where their values do.
LEMMA Changes ==
  /\ (\A s \in Sender : offer'[s] = offer[s]) => offer' = offer
  /\ (\A t \in Thread : ask'[t] = ask[t]) => ask' = ask
  /\ (\A t \in Thread : met'[t] = met[t]) => met' = met
  /\ \A s \in Sender : (\A x \in Sender : x # s => offer'[x] = offer[x])
                         => offer' = [offer EXCEPT ![s] = offer'[s]]
  /\ \A t \in Thread : (\A x \in Thread : x # t => ask'[x] = ask[x])
                         => ask' = [ask EXCEPT ![t] = ask'[t]]
  /\ \A t \in Thread : (\A x \in Thread : x # t => met'[x] = met[x])
                         => met' = [met EXCEPT ![t] = met'[t]]
BY DEF offer, ask, met

LEMMA Parts ==
  /\ \A m : /\ Offered(m).source = m.source /\ Offered(m).target = m.target /\ Offered(m).data = m.data
            /\ m.source # NULL => Offered(m) # NoOffer
            /\ \A s : /\ Meeting(s, m).sender = s /\ Meeting(s, m).source = m.source
                      /\ Meeting(s, m).data = m.data
                      /\ Meeting(s, m) = Meeting(s, Offered(m))
                      /\ s # NULL => Meeting(s, m) # NoMeeting
            /\ \A t, w : _mbox_message_match(Offered(m), t, w) <=> _mbox_message_match(m, t, w)
  /\ NoMeeting.sender = NULL
BY DEF Offered, NoOffer, Meeting, NoMeeting, _mbox_message_match

\* _mbox_message_put(), by either caller, is a Put.
LEMMA PutRefines ==
  ASSUME IInv, SourceInv, NEW t \in Thread, NEW s, NEW m, PutBy(t, s, m), m.source \in Thread,
         _mbox_message_put(t, s, m)
  PROVE  Meetings!Next
<1> USE DEF OnlySender
<1>1. OnlySender(t, s, m)
  BY PutProps
<1>2. /\ s \in Sender /\ m \in TxState /\ NULL \notin Sender
      /\ NULL \notin Thread /\ st[t] \in {"run", "put"}
      /\ s \in Async <=> s # t
      /\ m.source # NULL
  BY <1>1, RecordProps, MailboxAssumption DEF Sender, PutBy
<1>3. ~Out(s) /\ offer[s] = NoOffer
  BY <1>1, Values DEF Out
<1>4. \A u \in Thread : st[u] = "rx" => rx_msg[u].source # NULL /\ ask[u] = rx_msg[u].source
  BY <1>2, Values, MailboxAssumption DEF SourceInv, Sender
<1>5. \A u \in Thread : st[u] # "rx" => ask[u] = NULL
  BY Values
<1>6. CASE Fits(m) # {}
  <2> DEFINE r == First(rx_msg_queue, Fits(m))
  <2>1. r \in Thread /\ st[r] = "rx" /\ _mbox_message_match(m, r, rx_msg[r].source)
    <3>1. \A u \in Fits(m) : /\ u \in Thread /\ st[u] = "rx" /\ Linked(rx_msg_queue, u)
                             /\ _mbox_message_match(m, u, rx_msg[u].source)
      BY DEF Fits, IInv, QueueInv
    <3>2. \E u \in Fits(m) : Linked(rx_msg_queue, u)
      BY <1>6, <3>1
    <3>3. rx_msg_queue \in Seq(Thread)
      BY DEF IInv, TypeInv
    <3>4. r \in Fits(m)
      BY <3>2, <3>3, FirstProps
    <3> QED BY <3>1, <3>4
  <2>2. /\ rx_msg' = [rx_msg EXCEPT ![r] = Matched(s, m, @)]
        /\ st' = [st EXCEPT ![r] = "get", ![t] = IF s \in Async THEN "run" ELSE "sync"]
        /\ UNCHANGED tx_msg_queue
    BY <1>6 DEF _mbox_message_put, Fits
  <2> HIDE DEF r
  <2>3. /\ rx_msg'[r]._syncing_thread = s /\ rx_msg'[r].source = m.source /\ rx_msg'[r].data = m.data
        /\ \A u \in Thread : u # r => rx_msg'[u] = rx_msg[u]
    <3> DEFINE z == Matched(s, m, rx_msg[r])
    <3>1. z._syncing_thread = s /\ z.source = m.source /\ z.data = m.data
      BY <1>2, <2>1, MatchedProps DEF IInv, TypeInv
    <3> HIDE DEF z
    <3> QED BY <2>1, <2>2, <3>1 DEF IInv, TypeInv, z
  <2>4. /\ st'[r] = "get" /\ st'[t] \in {"run", "sync"} /\ r # t
        /\ \A u \in Thread : u # r /\ u # t => st'[u] = st[u]
    BY <1>2, <2>1, <2>2 DEF IInv, TypeInv
  <2>5. ~Holds(r) /\ \A x \in Sender : ~Has(r, x)
    BY <1>2, <2>1 DEF IInv, HandInv, Holds, Has
  <2>6. /\ \A u \in Thread, x \in Sender : Has(u, x)' <=> Has(u, x) \/ (u = r /\ x = s)
        /\ \A u \in Thread : Holds(u)' <=> Holds(u) \/ u = r
    BY <1>2, <2>3, <2>5 DEF Has, Holds
  <2>7. \A x \in Sender : Out(x)' <=> Out(x) \/ x = s
    BY <1>2, <2>1, <2>2, <2>6 DEF Out
  <2>8. /\ offer'[s] = Offered(m)
        /\ \A x \in Sender : x # s => offer'[x] = offer[x]
    BY <1>1, <1>2, <2>7, Values, NewValues
  <2>9. /\ ask'[r] = NULL
        /\ \A u \in Thread : u # r => ask'[u] = ask[u]
    BY <1>2, <2>1, <2>3, <2>4, Values, NewValues
  <2>10. /\ met'[r] = Meeting(s, Offered(m))
         /\ \A u \in Thread : u # r => met'[u] = met[u]
    <3>1. met'[r] = Meeting(s, rx_msg'[r])
      BY <2>1, <2>3, <2>6, NewValues
    <3>2. Meeting(s, rx_msg'[r]) = Meeting(s, Offered(m))
      BY <2>3, Parts DEF Meeting
    <3>3. \A u \in Thread : u # r => met'[u] = met[u]
      BY <2>3, <2>6, Values, NewValues
    <3> QED BY <3>1, <3>2, <3>3
  <2>11. /\ ask[r] # NULL /\ _mbox_message_match(offer'[s], r, ask[r]) /\ offer'[s] # NoOffer
    BY <1>2, <1>4, <2>1, <2>8, Parts
  <2>12. /\ offer' = [offer EXCEPT ![s] = offer'[s]]
         /\ ask' = [ask EXCEPT ![r] = NULL]
         /\ met' = [met EXCEPT ![r] = Meeting(s, offer'[s])]
    BY <1>2, <2>1, <2>8, <2>9, <2>10, Changes
  <2> QED BY <1>2, <1>3, <2>1, <2>11, <2>12, MappedPut
<1>7. CASE Fits(m) = {}
  <2>1. PICK C : tx_msg_queue' = sys_dlist_insert_at(tx_msg_queue, s, C)
    BY <1>7 DEF _mbox_message_put, Fits, PendTx
  <2>2. /\ st' = [st EXCEPT ![t] = IF s \in Async THEN "run" ELSE "tx"]
        /\ UNCHANGED rx_msg
    BY <1>7 DEF _mbox_message_put, Fits
  <2>3. \A x : Linked(tx_msg_queue', x) <=> Linked(tx_msg_queue, x) \/ x = s
    BY <1>1, <2>1, InsertAtProps DEF IInv, TypeInv, QueueInv
  <2>4. \A x \in Sender : Out(x)' <=> Out(x) \/ x = s
    BY <2>2, <2>3 DEF Out, Has
  <2>5. /\ offer'[s] = Offered(m)
        /\ \A x \in Sender : x # s => offer'[x] = offer[x]
    BY <1>1, <2>4, Values, NewValues
  <2>6. \A u \in Thread : st'[u] = "rx" <=> st[u] = "rx"
    BY <1>2, <2>2 DEF IInv, TypeInv
  <2>7. ask' = ask /\ met' = met
    BY <2>2, <2>6, Values, NewValues, Changes DEF Holds
  <2>8. offer'[s] # NoOffer /\ offer' = [offer EXCEPT ![s] = offer'[s]]
    BY <1>2, <2>5, Parts, Changes
  <2>9. \A u \in Thread : ask[u] # NULL => ~_mbox_message_match(offer'[s], u, ask[u])
    BY <1>4, <1>5, <1>7, <2>5, Parts DEF Fits
  <2> QED BY <1>2, <1>3, <2>7, <2>8, <2>9, MappedPut
<1> QED BY <1>6, <1>7

\* k_mbox_get() is a Receive or an Ask.
LEMMA GetRefines ==
  ASSUME IInv, SourceInv, NEW t \in Thread, NEW want \in Thread \cup {ANY}, NEW buffer \in BOOLEAN,
         k_mbox_get(t, want, buffer)
  PROVE  Meetings!Next
<1> DEFINE found == {s \in Sender : Linked(tx_msg_queue, s) /\ _mbox_message_match(tx_msg[s], t, want)}
           r == [NoRx EXCEPT !.source = want, !.buffer = buffer]
           s == First(tx_msg_queue, found)
<1>1. st[t] = "run" /\ ~Holds(t) /\ UNCHANGED tx_msg
  BY DEF k_mbox_get, Runs
<1>2. r \in RxState /\ r._syncing_thread = NULL /\ r.source = want
  BY RxWant
<1>3. /\ NULL \notin Sender /\ want # NULL /\ Thread \subseteq Sender
      /\ ask[t] = NULL /\ met[t] = NoMeeting /\ \A x \in Sender : ~Has(t, x)
  BY <1>1, MailboxAssumption, Values DEF Sender, Holds, Has
<1>4. \A x \in Sender : Linked(tx_msg_queue, x) => /\ tx_msg[x].source # NULL
                                                   /\ \A u \in Thread : ~Has(u, x)
  <2>1. ASSUME NEW x \in Thread, Linked(tx_msg_queue, x)
        PROVE  tx_msg[x].source # NULL /\ \A u \in Thread : ~Has(u, x)
    BY <1>3, <2>1 DEF IInv, QueueInv, HandInv, SourceInv
  <2>2. ASSUME NEW x \in Async, Linked(tx_msg_queue, x)
        PROVE  tx_msg[x].source # NULL /\ \A u \in Thread : ~Has(u, x)
    BY <1>3, <2>2 DEF IInv, DescInv, SourceInv
  <2> QED BY <2>1, <2>2 DEF Sender
<1>5. \A x \in Sender : /\ Linked(tx_msg_queue, x) => Open(x) /\ offer[x] = Offered(tx_msg[x])
                        /\ Open(x) => Linked(tx_msg_queue, x)
  <2>1. ASSUME NEW x \in Sender, Linked(tx_msg_queue, x)
        PROVE  Open(x) /\ offer[x] = Offered(tx_msg[x])
    <3>1. offer[x] = Offered(tx_msg[x]) /\ offer[x] # NoOffer
      BY <1>4, <2>1, Values, Parts DEF Out
    <3>2. \A u \in Thread : met[u].sender # x
      BY <1>3, <1>4, <2>1, Values, Parts DEF Has
    <3> QED BY <3>1, <3>2 DEF Open
  <2>2. ASSUME NEW x \in Sender, Open(x), ~Linked(tx_msg_queue, x)
        PROVE  FALSE
    <3>1. PICK u \in Thread : Has(u, x)
      BY <2>2, Values DEF Open, Out
    <3>2. Holds(u) /\ met[u].sender = x
      BY <1>3, <3>1, Values, Parts DEF Has, Holds
    <3> QED BY <2>2, <3>2 DEF Open
  <2> QED BY <2>1, <2>2
<1>6. CASE found # {}
  <2>1. /\ tx_msg_queue' = sys_dlist_remove(tx_msg_queue, s)
        /\ rx_msg' = [rx_msg EXCEPT ![t] = Matched(s, tx_msg[s], r)]
        /\ st' = [u \in Thread |-> IF u = t THEN "get" ELSE IF u = s THEN "taken" ELSE st[u]]
    BY <1>6 DEF k_mbox_get
  <2>2. s \in Sender /\ Linked(tx_msg_queue, s) /\ _mbox_message_match(tx_msg[s], t, want)
    <3>1. \A x \in found : Linked(tx_msg_queue, x) /\ x \in Sender /\ _mbox_message_match(tx_msg[x], t, want)
      OBVIOUS
    <3>2. \E x \in found : Linked(tx_msg_queue, x)
      BY <1>6
    <3>3. tx_msg_queue \in Seq(Sender)
      BY DEF IInv, TypeInv
    <3> HIDE DEF found
    <3>4. s \in found
      BY <3>2, <3>3, FirstProps
    <3> QED BY <3>1, <3>4
  <2> HIDE DEF s, r
  <2>3. \A x : Linked(tx_msg_queue', x) <=> Linked(tx_msg_queue, x) /\ x # s
    BY <2>1, UnlinkProps DEF IInv, TypeInv, QueueInv
  <2>4. /\ rx_msg'[t]._syncing_thread = s /\ rx_msg'[t].source = tx_msg[s].source
        /\ rx_msg'[t].data = tx_msg[s].data
        /\ \A u \in Thread : u # t => rx_msg'[u] = rx_msg[u]
    <3> DEFINE z == Matched(s, tx_msg[s], r)
    <3>1. z._syncing_thread = s /\ z.source = tx_msg[s].source /\ z.data = tx_msg[s].data
      BY <1>2, <2>2, MatchedProps DEF IInv, TypeInv
    <3> HIDE DEF z
    <3> QED BY <2>1, <3>1 DEF IInv, TypeInv, z
  <2>5. /\ \A u \in Thread, x \in Sender : Has(u, x)' <=> Has(u, x) \/ (u = t /\ x = s)
        /\ \A u \in Thread : Holds(u)' <=> Holds(u) \/ u = t
    BY <1>1, <1>3, <2>2, <2>4 DEF Has, Holds
  <2>6. \A x \in Sender : Out(x)' <=> Out(x)
    BY <2>2, <2>3, <2>5 DEF Out
  <2>7. offer' = offer
    BY <1>1, <2>6, Values, NewValues, Changes
  <2>8. \A u \in Thread : st'[u] = "rx" <=> st[u] = "rx"
    <3>1. \A u \in Thread : u = s => st[u] = "tx"
      BY <2>2 DEF IInv, QueueInv
    <3> QED BY <1>1, <2>1, <3>1
  <2>9. ask' = ask
    <3>1. \A u \in Thread : ask'[u] = ask[u]
      <4> TAKE u \in Thread
      <4>1. CASE u = t
        BY <1>1, <2>8, <4>1, Values, NewValues
      <4>2. CASE u # t
        BY <2>4, <2>8, <4>2, Values, NewValues
      <4> QED BY <4>1, <4>2
    <3> QED BY <3>1, Changes
  <2>10. /\ met'[t] = Meeting(s, offer[s]) /\ met'[t].sender = s
         /\ \A u \in Thread : u # t => met'[u] = met[u]
    <3>1. met'[t] = Meeting(s, rx_msg'[t])
      BY <2>4, <2>5, NewValues
    <3>2. Meeting(s, rx_msg'[t]) = Meeting(s, offer[s])
      BY <1>5, <2>2, <2>4, Parts DEF Meeting
    <3>3. \A u \in Thread : u # t => met'[u] = met[u]
      BY <2>4, <2>5, Values, NewValues
    <3> QED BY <3>1, <3>2, <3>3, Parts
  <2>11. met' = [met EXCEPT ![t] = Meeting(s, offer[s])]
    BY <2>10, Changes
  <2>12. Open(s) /\ offer[s].target \in {ANY, t}
    BY <1>5, <2>2, Parts DEF _mbox_message_match
  <2> QED BY <1>3, <2>2, <2>7, <2>9, <2>10, <2>11, <2>12, MappedReceive
<1>7. CASE found = {}
  <2>1. /\ rx_msg' = [rx_msg EXCEPT ![t] = r]
        /\ st' = [st EXCEPT ![t] = "rx"]
        /\ UNCHANGED tx_msg_queue
    BY <1>7 DEF k_mbox_get
  <2>2. \A x \in Sender : Linked(tx_msg_queue, x) => ~_mbox_message_match(tx_msg[x], t, want)
    BY <1>7
  <2> HIDE DEF r
  <2>3. \A u \in Thread : /\ rx_msg'[u] = IF u = t THEN r ELSE rx_msg[u]
                          /\ st'[u] = IF u = t THEN "rx" ELSE st[u]
    BY <2>1 DEF IInv, TypeInv
  <2>4. /\ \A u \in Thread : Holds(u)' <=> Holds(u)
        /\ \A u \in Thread, x \in Sender : Has(u, x)' <=> Has(u, x)
    BY <1>1, <1>2, <1>3, <2>3 DEF Holds, Has
  <2>5. \A x \in Sender : Out(x)' <=> Out(x)
    BY <2>1, <2>4 DEF Out
  <2>6. offer' = offer
    BY <1>1, <2>5, Values, NewValues, Changes
  <2>7. met' = met
    BY <1>1, <2>3, <2>4, Values, NewValues, Changes
  <2>8. ask'[t] = want /\ \A u \in Thread : u # t => ask'[u] = ask[u]
    BY <1>2, <2>3, Values, NewValues
  <2>9. ask' = [ask EXCEPT ![t] = ask'[t]]
    BY <2>8, Changes
  <2>10. \A x \in Sender : Open(x) => ~_mbox_message_match(offer[x], t, ask'[t])
    BY <1>5, <2>2, <2>8, Parts
  <2> QED BY <1>3, <2>6, <2>7, <2>8, <2>9, <2>10, MappedAsk
<1> QED BY <1>6, <1>7

\* A timeout is a Withdraw or a GiveUp.
LEMMA TimesOutRefines ==
  ASSUME IInv, SourceInv, NEW t \in Thread, times_out(t)
  PROVE  Meetings!Next
<1>1. /\ st[t] \in {"tx", "rx"}
      /\ tx_msg_queue' = sys_dlist_remove(tx_msg_queue, t)
      /\ tx_msg' = [tx_msg EXCEPT ![t] = NoMsg]
      /\ rx_msg' = [rx_msg EXCEPT ![t] = IF st[t] = "rx" THEN NoRx ELSE @]
      /\ st' = [st EXCEPT ![t] = "run"]
  BY DEF times_out
<1>2. t \in Sender /\ NULL \notin Sender /\ NULL # ANY /\ NoRx._syncing_thread = NULL
  BY RecordProps, MailboxAssumption DEF Sender
<1>3. \A x \in Sender : Linked(tx_msg_queue', x) <=> Linked(tx_msg_queue, x) /\ x # t
  BY <1>1, UnlinkProps DEF IInv, TypeInv, QueueInv
<1>4. \A x \in Sender : x # t => tx_msg'[x] = tx_msg[x]
  BY <1>1 DEF IInv, TypeInv
<1>5. \A u \in Thread : /\ rx_msg'[u] = IF u = t /\ st[t] = "rx" THEN NoRx ELSE rx_msg[u]
                        /\ st'[u] = IF u = t THEN "run" ELSE st[u]
  BY <1>1 DEF IInv, TypeInv
<1>6. st[t] = "rx" => ~Holds(t)
  BY DEF IInv, HandInv
<1>7. /\ \A u \in Thread : Holds(u)' <=> Holds(u)
      /\ \A u \in Thread, x \in Sender : Has(u, x)' <=> Has(u, x)
  BY <1>2, <1>5, <1>6 DEF Holds, Has
<1>8. /\ \A u \in Thread : ~Has(u, t)
      /\ Linked(tx_msg_queue, t) <=> st[t] = "tx"
  BY <1>1 DEF IInv, HandInv, QueueInv
<1>9. \A x \in Sender : Out(x)' <=> Out(x) /\ x # t
  BY <1>3, <1>7, <1>8 DEF Out
<1>10. met' = met
  <2>1. \A u \in Thread : Holds(u) => rx_msg'[u] = rx_msg[u]
    BY <1>5, <1>6
  <2> QED BY <1>7, <2>1, Values, NewValues, Changes
<1>11. /\ offer'[t] = NoOffer /\ ask'[t] = NULL
       /\ \A x \in Sender : x # t => offer'[x] = offer[x]
       /\ \A u \in Thread : u # t => ask'[u] = ask[u]
  BY <1>2, <1>4, <1>5, <1>9, Values, NewValues
<1>12. CASE st[t] = "tx"
  <2>1. offer[t] # NoOffer /\ ask[t] = NULL
    BY <1>2, <1>8, <1>12, Values, Parts DEF Out, SourceInv
  <2>2. \A u \in Thread : met[u].sender # t
    BY <1>2, <1>8, Values, Parts DEF Has
  <2>3. offer' = [offer EXCEPT ![t] = NoOffer]
    BY <1>2, <1>11, Changes
  <2>4. ask' = ask
    BY <1>11, <2>1, Changes
  <2> QED BY <1>2, <1>10, <2>1, <2>2, <2>3, <2>4, MappedWithdraw DEF Open
<1>13. CASE st[t] = "rx"
  <2>1. ask[t] # NULL
    BY <1>2, <1>13, Values DEF SourceInv, Sender
  <2>2. ~Out(t) /\ offer[t] = NoOffer
    BY <1>2, <1>8, <1>13, Values DEF Out
  <2>3. offer' = offer
    BY <1>11, <2>2, Changes
  <2>4. ask' = [ask EXCEPT ![t] = NULL]
    BY <1>11, Changes
  <2> QED BY <1>10, <2>1, <2>3, <2>4, MappedGiveUp
<1> QED BY <1>1, <1>12, <1>13

\* The data leaves the message: a Retrieve.
LEMMA DataRefines ==
  ASSUME IInv, NEW t \in Thread, Holds(t), st[t] # "rx", NEW p \in {"free", "notify"},
         rx_msg' = [rx_msg EXCEPT ![t].data = "buffer"], st' = [st EXCEPT ![t] = p],
         UNCHANGED <<tx_msg_queue, tx_msg>>
  PROVE  Meetings!Next
<1>1. /\ \A u \in Thread : /\ rx_msg'[u].source = rx_msg[u].source
                           /\ Holds(u)' <=> Holds(u)
                           /\ \A s : Has(u, s)' <=> Has(u, s)
                           /\ u # t => rx_msg'[u].data = rx_msg[u].data
      /\ rx_msg'[t].data = "buffer"
  BY DataGone DEF IInv
<1>2. \A u \in Thread : /\ rx_msg'[u]._syncing_thread = rx_msg[u]._syncing_thread
                        /\ u # t => rx_msg'[u] = rx_msg[u]
  BY DEF IInv, TypeInv, RxState
<1>3. \A x \in Sender : Out(x)' <=> Out(x)
  BY <1>1 DEF Out
<1>4. offer' = offer
  BY <1>3, Values, NewValues, Changes
<1>5. \A u \in Thread : st'[u] = "rx" <=> st[u] = "rx"
  BY DEF IInv, TypeInv
<1>6. ask' = ask
  BY <1>1, <1>5, Values, NewValues, Changes
<1>7. \A u \in Thread : u # t => met'[u] = met[u]
  BY <1>1, <1>2, Values, NewValues
<1>8. met'[t] = [met[t] EXCEPT !.data = "buffer"]
  <2>1. met[t] = Meeting(rx_msg[t]._syncing_thread, rx_msg[t])
    BY Values
  <2>2. met'[t] = Meeting(rx_msg[t]._syncing_thread, rx_msg'[t])
    BY <1>1, <1>2, NewValues
  <2> QED BY <1>1, <2>1, <2>2 DEF Meeting
<1>9. met' = [met EXCEPT ![t].data = "buffer"]
  BY <1>7, <1>8, Changes
<1>10. met[t] # NoMeeting
  BY Values, Parts DEF Holds
<1> QED BY <1>4, <1>6, <1>9, <1>10, MappedRetrieve

\* The end of the disposal is a Release.
LEMMA NotifyRefines ==
  ASSUME IInv, NEW t \in Thread, notify_sender(t)
  PROVE  Meetings!Next
<1> DEFINE s == rx_msg[t]._syncing_thread
           src == IF tx_msg[s].sem THEN tx_msg[s].source ELSE NULL
           r == [NoRx EXCEPT !.source = src]
<1>1. /\ st[t] = "notify"
      /\ tx_msg' = [tx_msg EXCEPT ![s] = NoMsg]
      /\ st' = [u \in Thread |-> IF u = s THEN "run" ELSE IF u # t THEN st[u]
                                 ELSE IF tx_msg[s].sem THEN "give" ELSE "run"]
      /\ rx_msg' = [rx_msg EXCEPT ![t] = r]
      /\ UNCHANGED tx_msg_queue
  BY DEF notify_sender, Runs
<1>2. /\ Holds(t) /\ s \in Sender /\ Has(t, s) /\ NULL \notin Sender
      /\ \A u \in Thread : Has(u, s) => u = t
  BY <1>1, RecordProps DEF IInv, TypeInv, HandInv, Holds, Has, RxState
<1>3. r._syncing_thread = NULL
  <2>1. src \in Thread \cup {ANY, NULL}
    BY <1>2 DEF IInv, TypeInv, TxState
  <2> HIDE DEF src
  <2> QED BY <2>1, RxSource
<1>4. ~Linked(tx_msg_queue, s) /\ (s \in Thread => st[s] # "rx")
  BY <1>2 DEF IInv, QueueInv, HandInv, DescInv, Sender
<1> HIDE DEF r, src
<1>5. /\ rx_msg'[t] = r /\ \A u \in Thread : u # t => rx_msg'[u] = rx_msg[u]
      /\ \A x \in Sender : x # s => tx_msg'[x] = tx_msg[x]
  BY <1>1 DEF IInv, TypeInv
<1> HIDE DEF s
<1>6. /\ \A u \in Thread, x \in Sender : Has(u, x)' <=> Has(u, x) /\ u # t
      /\ \A u \in Thread : Holds(u)' <=> Holds(u) /\ u # t
  BY <1>2, <1>3, <1>5 DEF Has, Holds
<1>7. \A x \in Sender : Out(x)' <=> Out(x) /\ x # s
  <2>1. \A x \in Sender : Has(t, x) => x = s
    BY <1>2 DEF Has
  <2>2. \A x \in Sender : x # s => (Out(x)' <=> Out(x))
    BY <1>1, <1>6, <2>1 DEF Out
  <2>3. \A x \in Sender : x = s => ~Out(x)'
    BY <1>1, <1>2, <1>4, <1>6 DEF Out
  <2> QED BY <2>2, <2>3
<1>8. /\ offer'[s] = NoOffer
      /\ \A x \in Sender : x # s => offer'[x] = offer[x]
  BY <1>2, <1>5, <1>7, Values, NewValues
<1>9. \A u \in Thread : ask'[u] = ask[u]
  <2> TAKE u \in Thread
  <2>1. st'[u] = "rx" <=> st[u] = "rx"
    BY <1>1, <1>4
  <2>2. st[u] = "rx" => u # t
    BY <1>1
  <2> QED BY <1>5, <2>1, <2>2, Values, NewValues
<1>10. /\ met'[t] = NoMeeting
       /\ \A u \in Thread : u # t => met'[u] = met[u]
  BY <1>5, <1>6, Values, NewValues
<1>11. met[t].sender = s /\ met[t] # NoMeeting
  BY <1>2, Values, Parts DEF s
<1>12. /\ offer' = [offer EXCEPT ![met[t].sender] = NoOffer]
       /\ met' = [met EXCEPT ![t] = NoMeeting] /\ ask' = ask
  BY <1>2, <1>8, <1>9, <1>10, <1>11, Changes
<1> QED BY <1>11, <1>12, MappedRelease

\* Steps inside a call that Rendezvous.tla does not see
LEMMA InnerRefines ==
  ASSUME IInv,
         /\ \A u \in Thread : /\ st'[u] = "rx" <=> st[u] = "rx"
                              /\ Holds(u)' <=> Holds(u)
                              /\ Holds(u) \/ st[u] = "rx" => rx_msg'[u] = rx_msg[u]
         /\ \A x \in Sender : Out(x) => tx_msg'[x] = tx_msg[x],
         UNCHANGED tx_msg_queue
  PROVE  UNCHANGED Meetings!vars
<1>1. \A u \in Thread, x \in Sender : Has(u, x)' <=> Has(u, x)
  BY RecordProps DEF Has, Holds
<1>2. \A x \in Sender : Out(x)' <=> Out(x)
  BY <1>1 DEF Out
<1>3. offer' = offer
  <2>1. \A x \in Sender : offer'[x] = offer[x]
    BY <1>2, Values, NewValues
  <2> QED BY <2>1, Changes
<1>4. ask' = ask /\ met' = met
  BY Values, NewValues, Changes
<1> QED BY <1>3, <1>4, MappedSame

LEMMA RendezvousStep ==
  ASSUME NoSenderSuspended, IInv, SourceInv, [Next]_vars
  PROVE  Meetings!Next \/ UNCHANGED Meetings!vars
<1>1. CASE UNCHANGED vars
  BY <1>1, InnerRefines DEF vars, Holds
<1>2. ASSUME NEW t \in Thread, NEW target \in Thread \cup {ANY}, NEW d \in Data, k_mbox_put(t, target, d)
      PROVE  Meetings!Next
  <2> DEFINE m == [source |-> t, target |-> target, data |-> d, sem |-> FALSE]
  <2>1. /\ st[t] = "run" /\ _mbox_message_put(t, t, m)
        /\ d \in Block => d \in owned
        /\ owned' = owned \ {d}
        /\ UNCHANGED <<suspended, async_msg_free, async, sem, pool>>
    BY <1>2 DEF k_mbox_put, Runs, Message
  <2>2. m \in TxState /\ m.data = d /\ m.sem = FALSE /\ m.source = t
    BY DEF TxState
  <2> HIDE DEF m
  <2>3. PutBy(t, t, m)
    BY <2>1, <2>2 DEF PutBy, _mbox_message_put, Sender
  <2> QED BY <2>1, <2>2, <2>3, PutRefines
<1>3. ASSUME NEW t \in Thread, k_mbox_async_put(t)
      PROVE  Meetings!Next
  <2> DEFINE s == async[t]
             m == tx_msg[s]
  <2>1. /\ st[t] = "put" /\ _mbox_message_put(t, s, m)
        /\ async' = [async EXCEPT ![t] = NULL]
        /\ UNCHANGED <<suspended, async_msg_free, sem, owned, pool>>
    BY <1>3 DEF k_mbox_async_put, Runs
  <2>2. s \in Async /\ s \in Sender /\ Fills(t, s) /\ m \in TxState
    BY <2>1 DEF IInv, TypeInv, QueueInv, Sender, Fills
  <2>3. PutBy(t, s, m)
    BY <2>1, <2>2 DEF PutBy, _mbox_message_put
  <2>4. m.source \in Thread
    BY <2>2 DEF IInv, DescInv, SourceInv
  <2> HIDE DEF s, m
  <2> QED BY <2>1, <2>3, <2>4, PutRefines
<1>4. ASSUME NEW t \in Thread, NEW target \in Thread \cup {ANY}, NEW d \in Data, NEW w \in BOOLEAN,
             _mbox_async_alloc(t, target, d, w)
      PROVE  UNCHANGED Meetings!vars
  <2> DEFINE a == Head(async_msg_free)
             m == [source |-> t, target |-> target, data |-> d, sem |-> w]
  <2>1. /\ st[t] = "run" /\ async_msg_free # << >> /\ tx_msg' = [tx_msg EXCEPT ![a] = m]
        /\ st' = [st EXCEPT ![t] = "put"] /\ UNCHANGED <<tx_msg_queue, rx_msg>>
    BY <1>4 DEF _mbox_async_alloc, Runs
  <2>2. a \in Async /\ Linked(async_msg_free, a)
    BY <2>1, TailProps DEF IInv, TypeInv, QueueInv
  <2> HIDE DEF a, m
  <2>3. ~Out(a)
    BY <2>2 DEF IInv, DescInv, Out
  <2>4. \A x \in Sender : Out(x) => tx_msg'[x] = tx_msg[x]
    BY <2>1, <2>3 DEF IInv, TypeInv
  <2>5. \A u \in Thread : st'[u] = "rx" <=> st[u] = "rx"
    BY <2>1 DEF IInv, TypeInv
  <2>6. \A u \in Thread : rx_msg'[u] = rx_msg[u] /\ (Holds(u)' <=> Holds(u))
    BY <2>1 DEF Holds
  <2> QED BY <2>1, <2>4, <2>5, <2>6, InnerRefines
<1>5. ASSUME NEW t \in Thread, NEW b \in Block, k_mbox_data_block_get(t, b)
      PROVE  Meetings!Next
  BY <1>5, DataRefines DEF k_mbox_data_block_get, Runs
<1>6. ASSUME NEW t \in Thread, _mbox_message_dispose(t)
      PROVE  Meetings!Next
  BY <1>6, DataRefines DEF _mbox_message_dispose, Runs, IInv, HandInv
<1>7. ASSUME NEW t \in Thread,
             \/ _mbox_message_data_check(t) \/ k_mbox_data_get(t)
             \/ k_thread_suspend(t) \/ k_thread_resume(t)
      PROVE  UNCHANGED Meetings!vars
  <2>1. /\ \A u \in Thread : st'[u] = "rx" <=> st[u] = "rx"
        /\ UNCHANGED <<tx_msg_queue, tx_msg, rx_msg>>
    BY <1>7 DEF _mbox_message_data_check, k_mbox_data_get, k_thread_suspend, k_thread_resume, Runs,
                IInv, TypeInv
  <2>2. \A u \in Thread : rx_msg'[u] = rx_msg[u] /\ (Holds(u)' <=> Holds(u))
    BY <2>1 DEF Holds
  <2> QED BY <2>1, <2>2, InnerRefines
<1>8. ASSUME NEW t \in Thread, give_async_sem(t)
      PROVE  UNCHANGED Meetings!vars
  <2>1. /\ st[t] = "give" /\ rx_msg' = [rx_msg EXCEPT ![t] = NoRx]
        /\ st' = [st EXCEPT ![t] = "run"] /\ UNCHANGED <<tx_msg_queue, tx_msg>>
    BY <1>8 DEF give_async_sem, Runs
  <2>2. ~Holds(t)
    BY <2>1 DEF IInv, HandInv
  <2>3. \A u \in Thread : /\ st'[u] = "rx" <=> st[u] = "rx"
                          /\ rx_msg'[u] = IF u = t THEN NoRx ELSE rx_msg[u]
    BY <2>1 DEF IInv, TypeInv
  <2>4. \A u \in Thread : Holds(u)' <=> Holds(u)
    BY <2>2, <2>3, RecordProps DEF Holds
  <2> QED BY <2>1, <2>2, <2>3, <2>4, InnerRefines
<1> QED BY <1>1, <1>2, <1>3, <1>4, <1>5, <1>6, <1>7, <1>8, GetRefines, TimesOutRefines, NotifyRefines DEF Next

LEMMA RendezvousInit ==
  ASSUME Init
  PROVE  Meetings!Init
<1>1. \A s \in Sender : OfferOf(s) = NoOffer
  BY RecordProps DEF Init, OfferOf, Linked, NoOffer
<1>2. \A t \in Thread : st[t] # "rx" /\ rx_msg[t]._syncing_thread = NULL
  BY RecordProps DEF Init
<1>3. \A t \in Thread : AskOf(t) = NULL /\ MetOf(t) = NoMeeting
  BY <1>2 DEF OfferOf, AskOf, MetOf, Holds, NoMeeting
<1> QED BY <1>1, <1>3 DEF Meetings!Init, Meetings!NoOffer, Meetings!NoMeeting, NoOffer, NoMeeting

\* ImplementsRendezvous (run Mailbox): with queues, dummy threads and disposal in steps,
\* mailbox.c implements a rendezvous.  A message meets one receiver, of those it is for,
\* which is given the source and the data that were sent; neither waits once the other is
\* there; and the sender has its message back only when it is withdrawn unmet or released.
THEOREM MailboxRefines ==
  ASSUME NoSenderSuspended
  PROVE  Spec => ImplementsRendezvous
<1>1. Init => SourceInv /\ Meetings!Init
  BY SourceInit, RendezvousInit
<1>2. IInv /\ SourceInv /\ [Next]_vars => SourceInv'
  BY SourceStep
<1>3. IInv /\ SourceInv /\ [Next]_vars => [Meetings!Next]_(Meetings!vars)
  BY RendezvousStep
<1> QED BY <1>1, <1>2, <1>3, MailboxInvariant, PTL DEF Spec, Meetings!Spec, ImplementsRendezvous
=============================================================================
