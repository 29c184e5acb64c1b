---------------------------- MODULE WorkQProofs ----------------------------
(***************************************************************************)
(* Proofs about work queues, for any queues, items, alerts and callers.    *)
(***************************************************************************)
EXTENDS WorkQ, DListProofs

MainState == [at : {"fifo_get", "got", "handler", "delivered"}, item : Item \cup {NULL}]
CallState == [at : {"outside", "fifo_put", "send"}, queue : WorkQueue \cup {NULL},
              item : Item \cup {NULL}]

TypeInv ==
  /\ pending \in SUBSET Item /\ counting \in SUBSET DelayedWork
  /\ fifo \in [WorkQueue -> Seq(Item)]
  /\ main \in [WorkQueue -> MainState]
  /\ call \in [Caller -> CallState]
  /\ work_q \in [DelayedWork -> WorkQueue \cup {NULL}]
  /\ send_count \in [Alert -> Nat]
  /\ \A q \in WorkQueue : /\ main[q].at = "fifo_get" => main[q] = Waiting
                          /\ main[q].at # "fifo_get" => main[q].item \in Item
                          /\ main[q].at = "delivered" => main[q].item \in Alert
  /\ \A c \in Caller : /\ call[c].at = "outside" => call[c] = Outside
                       /\ call[c].at # "outside" => call[c].queue \in WorkQueue /\ call[c].item \in Item
                       /\ call[c].at = "send" => call[c].item \in Alert

\* Who holds the item w
InFifo(q, w) == Linked(fifo[q], w)
Putting(c, w) == call[c].at = "fifo_put" /\ call[c].item = w
Got(q, w) == main[q].at = "got" /\ main[q].item = w

\* An item in a hand is pending and in no other, and a pending item is in one.
HandInv ==
  /\ \A q \in WorkQueue : NoDup(fifo[q])
  /\ \A w \in Item, q \in WorkQueue :
       InFifo(q, w) => /\ w \in pending
                       /\ \A p \in WorkQueue : (InFifo(p, w) => p = q) /\ ~Got(p, w)
                       /\ \A c \in Caller : ~Putting(c, w)
  /\ \A w \in Item, c \in Caller :
       Putting(c, w) => /\ w \in pending
                        /\ \A d \in Caller : Putting(d, w) => d = c
                        /\ \A p \in WorkQueue : ~Got(p, w)
  /\ \A w \in Item, q \in WorkQueue :
       Got(q, w) => w \in pending /\ \A p \in WorkQueue : Got(p, w) => p = q
  /\ \A w \in pending : \/ \E q \in WorkQueue : InFifo(q, w) \/ Got(q, w)
                        \/ \E c \in Caller : Putting(c, w)

\* Who is at work on the alert a
Sending(c, a) == call[c].at = "send" /\ call[c].item = a
Delivering(q, a) == main[q].at \in {"handler", "delivered"} /\ main[q].item = a

\* An alert whose count is not zero is with one of them, or with its work item.
AlertInv ==
  \A a \in Alert :
    /\ send_count[a] > 0 <=> \/ a \in pending
                             \/ \E c \in Caller : Sending(c, a)
                             \/ \E q \in WorkQueue : Delivering(q, a)
    /\ a \in pending => /\ \A c \in Caller : ~Sending(c, a)
                        /\ \A q \in WorkQueue : ~Delivering(q, a)
    /\ \A c, d \in Caller : Sending(c, a) /\ Sending(d, a) => c = d
    /\ \A q, p \in WorkQueue : Delivering(q, a) /\ Delivering(p, a) => q = p
    /\ \A c \in Caller, q \in WorkQueue : ~(Sending(c, a) /\ Delivering(q, a))

IInv == TypeInv /\ HandInv /\ AlertInv /\ CountdownHasQueue

LEMMA InitInv == Init => IInv
<1> SUFFICES ASSUME Init PROVE IInv
  OBVIOUS
<1>1. TypeInv
  BY DEF Init, TypeInv, MainState, CallState, Waiting, Outside
<1>2. NoDup(<< >>) /\ \A x : ~Linked(<< >>, x)
  BY DEF NoDup, Linked
<1>3. HandInv
  BY <1>2 DEF Init, HandInv, InFifo, Putting, Got, Waiting, Outside
<1>4. AlertInv /\ CountdownHasQueue
  BY DEF Init, AlertInv, CountdownHasQueue, Sending, Delivering, Waiting, Outside
<1> QED BY <1>1, <1>3, <1>4 DEF IInv

\* An item that is not pending is put into the hand of a caller: of one that submits
\* it, or of one that sent the alert.
LEMMA SubmitInv ==
  ASSUME IInv, NEW c \in Caller, NEW q \in WorkQueue, NEW w \in Item, w \notin pending,
         \/ w \notin Alert /\ call[c] = Outside
         \/ Sending(c, w),
         pending' = pending \cup {w},
         call' = [call EXCEPT ![c] = [at |-> "fifo_put", queue |-> q, item |-> w]],
         UNCHANGED <<fifo, main, work_q, counting, send_count, sem>>
  PROVE  IInv'
<1>1. TypeInv'
  BY DEF IInv, TypeInv, CallState
<1>2. \A d \in Caller : \A x : /\ Putting(d, x)' <=> Putting(d, x) \/ (d = c /\ x = w)
                               /\ Sending(d, x)' <=> Sending(d, x) /\ d # c
  BY DEF IInv, TypeInv, Putting, Sending, Outside
<1>3. \A p \in WorkQueue : \A x : /\ InFifo(p, x)' <=> InFifo(p, x)
                                  /\ Got(p, x)' <=> Got(p, x)
                                  /\ Delivering(p, x)' <=> Delivering(p, x)
  BY DEF InFifo, Got, Delivering
<1>4. HandInv'
  BY <1>2, <1>3 DEF IInv, HandInv
<1>5. AlertInv'
  <2>1. \A a \in Alert : a # w => \A d \in Caller : Sending(d, a)' <=> Sending(d, a)
    BY <1>2 DEF Sending, Outside
  <2> QED BY <1>2, <1>3, <2>1 DEF IInv, AlertInv
<1> QED BY <1>1, <1>4, <1>5 DEF IInv, CountdownHasQueue

\* What Append() does to the nodes of a fifo
LEMMA AppendItem ==
  ASSUME NEW f \in Seq(Item), NEW w \in Item
  PROVE  /\ Append(f, w) \in Seq(Item)
         /\ \A x : Linked(Append(f, w), x) <=> Linked(f, x) \/ x = w
         /\ NoDup(f) /\ ~Linked(f, w) => NoDup(Append(f, w))
BY AppendNode

\* The caller's hand is emptied into the fifo.
LEMMA PutInv ==
  ASSUME IInv, NEW c \in Caller, k_fifo_put(c)
  PROVE  IInv'
<1> DEFINE q == call[c].queue
           w == call[c].item
<1>1. /\ Putting(c, w) /\ q \in WorkQueue /\ w \in Item
      /\ fifo' = [fifo EXCEPT ![q] = Append(fifo[q], w)] /\ call' = [call EXCEPT ![c] = Outside]
      /\ UNCHANGED <<pending, main, work_q, counting, send_count, sem>>
  BY DEF k_fifo_put, IInv, TypeInv, Putting
<1> HIDE DEF q, w
<1>2. fifo[q] \in Seq(Item) /\ NoDup(fifo[q]) /\ ~Linked(fifo[q], w)
  BY <1>1 DEF IInv, TypeInv, HandInv, InFifo
<1>3. /\ fifo'[q] \in Seq(Item) /\ NoDup(fifo'[q])
      /\ \A x : Linked(fifo'[q], x) <=> Linked(fifo[q], x) \/ x = w
  <2>1. fifo'[q] = Append(fifo[q], w)
    BY <1>1 DEF IInv, TypeInv
  <2> QED BY <1>1, <1>2, <2>1, AppendItem
<1>4. TypeInv'
  BY <1>1, <1>2, AppendItem DEF IInv, TypeInv, CallState, Outside
<1>5. \A d \in Caller : \A x : /\ Putting(d, x)' <=> Putting(d, x) /\ d # c
                               /\ Sending(d, x)' <=> Sending(d, x)
  BY <1>1 DEF IInv, TypeInv, Putting, Sending, Outside
<1>6. \A p \in WorkQueue : \A x : /\ InFifo(p, x)' <=> InFifo(p, x) \/ (p = q /\ x = w)
                                  /\ Got(p, x)' <=> Got(p, x)
                                  /\ Delivering(p, x)' <=> Delivering(p, x)
  BY <1>1, <1>3 DEF IInv, TypeInv, InFifo, Got, Delivering
<1>7. \A x : Putting(c, x) => x = w
  BY <1>1 DEF Putting
<1>8. \A p \in WorkQueue : NoDup(fifo'[p])
  BY <1>1, <1>3 DEF IInv, TypeInv, HandInv
<1>9. HandInv'
  BY <1>1, <1>5, <1>6, <1>7, <1>8 DEF IInv, HandInv
<1>10. AlertInv'
  BY <1>1, <1>5, <1>6 DEF IInv, AlertInv
<1> QED BY <1>1, <1>4, <1>9, <1>10 DEF IInv, CountdownHasQueue

\* With interrupts locked, a delayed item that is not pending goes to a fifo at once.
LEMMA LockedInv ==
  ASSUME IInv, NEW q \in WorkQueue, NEW w \in DelayedWork, SubmitLocked(q, w),
         UNCHANGED <<main, call, send_count>>,
         counting' \in SUBSET DelayedWork, work_q' \in [DelayedWork -> WorkQueue \cup {NULL}],
         CountdownHasQueue'
  PROVE  IInv'
<1>1. w \in Item /\ w \notin Alert
  BY WorkQAssumption DEF Item
<1>2. /\ \A d \in Caller : \A x : /\ Putting(d, x)' <=> Putting(d, x)
                                  /\ Sending(d, x)' <=> Sending(d, x)
      /\ \A p \in WorkQueue : \A x : /\ Got(p, x)' <=> Got(p, x)
                                     /\ Delivering(p, x)' <=> Delivering(p, x)
  BY DEF Putting, Sending, Got, Delivering
<1>3. CASE w \in pending
  <2>1. UNCHANGED <<pending, fifo>>
    BY <1>3 DEF SubmitLocked, IInv, TypeInv
  <2>2. \A p \in WorkQueue : \A x : InFifo(p, x)' <=> InFifo(p, x)
    BY <2>1 DEF InFifo
  <2>3. TypeInv'
    BY <2>1 DEF IInv, TypeInv
  <2> QED BY <1>2, <2>1, <2>2, <2>3 DEF IInv, HandInv, AlertInv
<1>4. CASE w \notin pending
  <2>1. pending' = pending \cup {w} /\ fifo' = [fifo EXCEPT ![q] = Append(fifo[q], w)]
    BY <1>4 DEF SubmitLocked
  <2>2. fifo[q] \in Seq(Item) /\ NoDup(fifo[q]) /\ ~Linked(fifo[q], w)
    BY <1>1, <1>4 DEF IInv, TypeInv, HandInv, InFifo
  <2>3. /\ Append(fifo[q], w) \in Seq(Item) /\ NoDup(Append(fifo[q], w))
        /\ \A x : Linked(Append(fifo[q], w), x) <=> Linked(fifo[q], x) \/ x = w
    BY <1>1, <2>2, AppendItem
  <2>4. \A p \in WorkQueue : \A x : InFifo(p, x)' <=> InFifo(p, x) \/ (p = q /\ x = w)
    BY <2>1, <2>3 DEF IInv, TypeInv, InFifo
  <2>5. TypeInv'
    BY <1>1, <2>1, <2>3 DEF IInv, TypeInv
  <2>6. \A p \in WorkQueue : NoDup(fifo'[p])
    BY <2>1, <2>3 DEF IInv, TypeInv, HandInv
  <2>7. HandInv'
    BY <1>1, <1>2, <1>4, <2>1, <2>4, <2>6 DEF IInv, HandInv
  <2>8. AlertInv'
    BY <1>1, <1>2, <2>1 DEF IInv, AlertInv
  <2> QED BY <2>5, <2>7, <2>8 DEF IInv
<1> QED BY <1>3, <1>4

\* The delayed calls and the timeout callback
LEMMA DelayedInv ==
  ASSUME IInv, NEW q \in WorkQueue, NEW w \in DelayedWork,
         \/ k_delayed_work_submit_to_queue(q, w) \/ k_delayed_work_submit_now(q, w)
         \/ k_delayed_work_cancel(w) \/ work_timeout(w)
  PROVE  IInv'
<1>1. q # NULL
  BY WorkQAssumption
<1>2. ASSUME UNCHANGED <<pending, fifo, main, call, send_count, sem>>, CountdownHasQueue',
             counting' \in SUBSET DelayedWork, work_q' \in [DelayedWork -> WorkQueue \cup {NULL}]
      PROVE  IInv'
  <2>1. TypeInv'
    BY <1>2 DEF IInv, TypeInv
  <2>2. HandInv' /\ AlertInv'
    BY <1>2 DEF IInv, HandInv, AlertInv, InFifo, Putting, Got, Sending, Delivering
  <2> QED BY <1>2, <2>1, <2>2 DEF IInv
<1>3. CASE k_delayed_work_submit_to_queue(q, w)
  <2>1. /\ counting' = counting \cup {w} /\ work_q' = [work_q EXCEPT ![w] = q]
        /\ UNCHANGED <<pending, fifo, main, call, send_count, sem>>
    BY <1>3 DEF k_delayed_work_submit_to_queue
  <2>2. CountdownHasQueue'
    BY <2>1, <1>1 DEF IInv, TypeInv, CountdownHasQueue
  <2> QED BY <1>2, <2>1, <2>2 DEF IInv, TypeInv
<1>4. CASE k_delayed_work_cancel(w)
  <2>1. /\ counting' = counting \ {w} /\ work_q' = [work_q EXCEPT ![w] = NULL]
        /\ UNCHANGED <<pending, fifo, main, call, send_count, sem>>
    BY <1>4 DEF k_delayed_work_cancel
  <2>2. CountdownHasQueue'
    BY <2>1 DEF IInv, TypeInv, CountdownHasQueue
  <2> QED BY <1>2, <2>1, <2>2 DEF IInv, TypeInv
<1>5. CASE k_delayed_work_submit_now(q, w)
  <2>1. /\ counting' \in SUBSET counting /\ work_q' = [work_q EXCEPT ![w] = q]
        /\ SubmitLocked(q, w) /\ UNCHANGED <<main, call, send_count>>
    BY <1>5 DEF k_delayed_work_submit_now
  <2>2. CountdownHasQueue'
    BY <2>1, <1>1 DEF IInv, TypeInv, CountdownHasQueue
  <2> QED BY <2>1, <2>2, LockedInv DEF IInv, TypeInv
<1>6. CASE work_timeout(w)
  <2>1. /\ counting' = counting \ {w} /\ work_q' = [work_q EXCEPT ![w] = NULL]
        /\ w \in counting
        /\ SubmitLocked(work_q[w], w) /\ UNCHANGED <<main, call, send_count>>
    BY <1>6 DEF work_timeout
  <2>2. CountdownHasQueue'
    BY <2>1 DEF IInv, TypeInv, CountdownHasQueue
  <2>3. work_q[w] \in WorkQueue
    BY <2>1 DEF IInv, TypeInv, CountdownHasQueue
  <2> QED BY <2>1, <2>2, <2>3, LockedInv DEF IInv, TypeInv
<1> QED BY <1>3, <1>4, <1>5, <1>6

\* k_fifo_get() moves the first item of a fifo to the hand of the queue's thread.
LEMMA GetInv ==
  ASSUME IInv, NEW q \in WorkQueue, work_q_main_get(q)
  PROVE  IInv'
<1> DEFINE w == Head(fifo[q])
           tail == Tail(fifo[q])
<1>1. /\ main[q] = Waiting /\ main' = [main EXCEPT ![q] = [at |-> "got", item |-> w]]
      /\ fifo' = [fifo EXCEPT ![q] = tail] /\ fifo[q] # << >>
      /\ UNCHANGED <<pending, call, work_q, counting, send_count, sem>>
  BY DEF work_q_main_get
<1>2. fifo[q] \in Seq(Item) /\ NoDup(fifo[q])
  BY DEF IInv, TypeInv, HandInv
<1>3. /\ w \in Item /\ Linked(fifo[q], w) /\ tail \in Seq(Item) /\ NoDup(tail)
      /\ \A x : Linked(tail, x) <=> Linked(fifo[q], x) /\ x # w
  BY <1>1, <1>2, TailProps
<1> HIDE DEF w, tail
<1>4. TypeInv'
  BY <1>1, <1>3 DEF IInv, TypeInv, MainState
<1>5. \A d \in Caller : \A x : /\ Putting(d, x)' <=> Putting(d, x)
                               /\ Sending(d, x)' <=> Sending(d, x)
  BY <1>1 DEF Putting, Sending
<1>6. \A p \in WorkQueue : \A x : /\ InFifo(p, x)' <=> InFifo(p, x) /\ ~(p = q /\ x = w)
                                  /\ Got(p, x)' <=> Got(p, x) \/ (p = q /\ x = w)
                                  /\ Delivering(p, x)' <=> Delivering(p, x)
  BY <1>1, <1>3 DEF IInv, TypeInv, InFifo, Got, Delivering, Waiting
<1>7. InFifo(q, w) /\ \A p \in WorkQueue : NoDup(fifo'[p])
  BY <1>1, <1>3 DEF IInv, TypeInv, HandInv, InFifo
<1>8. HandInv'
  BY <1>1, <1>3, <1>5, <1>6, <1>7 DEF IInv, HandInv
<1>9. AlertInv'
  BY <1>1, <1>5, <1>6 DEF IInv, AlertInv
<1> QED BY <1>1, <1>4, <1>8, <1>9 DEF IInv, CountdownHasQueue

\* The pending bit is cleared with the item in the hand of the thread, and so was set.
LEMMA ClearInv ==
  ASSUME IInv, NEW q \in WorkQueue, work_q_main_clear(q)
  PROVE  IInv'
<1> DEFINE w == main[q].item
<1>1. Got(q, w) /\ w \in Item
  BY DEF work_q_main_clear, Got, IInv, TypeInv
<1>2. w \in pending
  BY <1>1 DEF IInv, HandInv
<1>3. /\ pending' = pending \ {w}
      /\ main' = [main EXCEPT ![q] = [@ EXCEPT !.at = "handler"]]
      /\ UNCHANGED <<fifo, call, work_q, counting, send_count, sem>>
  BY <1>2 DEF work_q_main_clear
<1>4. TypeInv'
  <2>1. main[q] \in MainState /\ main'[q] = [at |-> "handler", item |-> w]
    BY <1>3 DEF IInv, TypeInv, MainState
  <2>2. main' \in [WorkQueue -> MainState]
    BY <1>1, <1>3, <2>1 DEF IInv, TypeInv, MainState
  <2>3. \A p \in WorkQueue : p # q => main'[p] = main[p]
    BY <1>3 DEF IInv, TypeInv
  <2>4. pending' \in SUBSET Item
    BY <1>3 DEF IInv, TypeInv
  <2>5. \A p \in WorkQueue : /\ main'[p].at = "fifo_get" => main'[p] = Waiting
                             /\ main'[p].at # "fifo_get" => main'[p].item \in Item
                             /\ main'[p].at = "delivered" => main'[p].item \in Alert
    <3>1. /\ main'[q].at = "handler" /\ main'[q].item = w
      BY <2>1
    <3>2. TAKE p \in WorkQueue
    <3>3. CASE p = q
      BY <1>1, <3>1, <3>3
    <3>4. CASE p # q
      <4>1. main'[p] = main[p]
        BY <2>3, <3>4
      <4> QED BY <4>1 DEF IInv, TypeInv
    <3> QED BY <3>3, <3>4
  <2> QED BY <1>3, <2>2, <2>4, <2>5 DEF IInv, TypeInv
<1>5. \A d \in Caller : \A x : /\ Putting(d, x)' <=> Putting(d, x)
                               /\ Sending(d, x)' <=> Sending(d, x)
  BY <1>3 DEF Putting, Sending
<1>6. \A p \in WorkQueue : \A x : /\ InFifo(p, x)' <=> InFifo(p, x)
                                  /\ Got(p, x)' <=> Got(p, x) /\ p # q
                                  /\ Delivering(p, x)' <=> Delivering(p, x) \/ (p = q /\ x = w)
  BY <1>1, <1>3 DEF IInv, TypeInv, MainState, InFifo, Got, Delivering
<1>7. \A x : Got(q, x) => x = w
  BY DEF Got
<1> HIDE DEF w
<1>8. \A p \in WorkQueue : NoDup(fifo'[p])
  BY <1>3 DEF IInv, HandInv
<1>9. HandInv'
  BY <1>1, <1>2, <1>3, <1>5, <1>6, <1>7, <1>8 DEF IInv, HandInv
<1>10. AlertInv'
  BY <1>1, <1>2, <1>3, <1>5, <1>6 DEF IInv, AlertInv
<1> QED BY <1>3, <1>4, <1>9, <1>10 DEF IInv, CountdownHasQueue

\* The handler of an item that is no alert returns.
LEMMA LoopInv ==
  ASSUME IInv, NEW q \in WorkQueue, work_q_main_loop(q)
  PROVE  IInv'
<1>1. /\ main[q].at = "handler" /\ main[q].item \notin Alert
      /\ main' = [main EXCEPT ![q] = Waiting]
      /\ UNCHANGED <<pending, fifo, call, work_q, counting, send_count, sem>>
  BY DEF work_q_main_loop
<1>2. TypeInv'
  BY <1>1 DEF IInv, TypeInv, MainState, Waiting
<1>3. \A d \in Caller : \A x : /\ Putting(d, x)' <=> Putting(d, x)
                               /\ Sending(d, x)' <=> Sending(d, x)
  BY <1>1 DEF Putting, Sending
<1>4. \A p \in WorkQueue : \A x : /\ InFifo(p, x)' <=> InFifo(p, x)
                                  /\ Got(p, x)' <=> Got(p, x)
                                  /\ x \in Alert => (Delivering(p, x)' <=> Delivering(p, x))
  BY <1>1 DEF IInv, TypeInv, Waiting, InFifo, Got, Delivering
<1>5. HandInv'
  BY <1>1, <1>3, <1>4 DEF IInv, HandInv
<1>6. AlertInv'
  BY <1>1, <1>3, <1>4 DEF IInv, AlertInv
<1> QED BY <1>1, <1>2, <1>5, <1>6 DEF IInv, CountdownHasQueue

\* The alert's own handler returns, and stays with the alert.
LEMMA DeliverInv ==
  ASSUME IInv, NEW q \in WorkQueue, alert_deliver(q)
  PROVE  IInv'
<1>1. /\ main[q].at = "handler" /\ main[q].item \in Alert
      /\ main' = [main EXCEPT ![q].at = "delivered"]
      /\ UNCHANGED <<pending, fifo, call, work_q, counting, send_count>>
  BY DEF alert_deliver
<1>2. TypeInv'
  BY <1>1 DEF IInv, TypeInv, MainState
<1>3. \A d \in Caller : \A x : /\ Putting(d, x)' <=> Putting(d, x)
                               /\ Sending(d, x)' <=> Sending(d, x)
  BY <1>1 DEF Putting, Sending
<1>4. \A p \in WorkQueue : \A x : /\ InFifo(p, x)' <=> InFifo(p, x)
                                  /\ Got(p, x)' <=> Got(p, x)
                                  /\ Delivering(p, x)' <=> Delivering(p, x)
  BY <1>1 DEF IInv, TypeInv, MainState, InFifo, Got, Delivering
<1>5. HandInv'
  BY <1>1, <1>3, <1>4 DEF IInv, HandInv
<1>6. AlertInv'
  BY <1>1, <1>3, <1>4 DEF IInv, AlertInv
<1> QED BY <1>1, <1>2, <1>5, <1>6 DEF IInv, CountdownHasQueue

\* One delivery is counted off, and the last one ends the handler's work.
LEMMA DeliverNextInv ==
  ASSUME IInv, NEW q \in WorkQueue, alert_deliver_next(q)
  PROVE  IInv'
<1> DEFINE a == main[q].item
<1>1. /\ main[q].at = "delivered"
      /\ send_count' = [send_count EXCEPT ![a] = @ - 1]
      /\ main' = [main EXCEPT ![q] = IF send_count[a] = 1 THEN Waiting
                                     ELSE [@ EXCEPT !.at = "handler"]]
      /\ UNCHANGED <<pending, fifo, call, work_q, counting, sem>>
  BY DEF alert_deliver_next
<1>2. a \in Alert /\ Delivering(q, a) /\ a \in Item
  BY <1>1 DEF IInv, TypeInv, Delivering, Item
<1>3. send_count[a] \in Nat /\ send_count[a] > 0
  BY <1>2 DEF IInv, TypeInv, AlertInv
<1>4. TypeInv'
  <2>1. send_count[a] - 1 \in Nat
    BY <1>3
  <2>2. send_count' \in [Alert -> Nat]
    BY <1>1, <1>2, <2>1 DEF IInv, TypeInv
  <2>3. main[q] \in MainState
    BY DEF IInv, TypeInv
  <2>4. main' \in [WorkQueue -> MainState]
    BY <1>1, <1>2, <2>3 DEF IInv, TypeInv, MainState, Waiting
  <2> QED BY <1>1, <1>2, <2>2, <2>3, <2>4 DEF IInv, TypeInv, MainState, Waiting
<1>5. \A d \in Caller : \A x : /\ Putting(d, x)' <=> Putting(d, x)
                               /\ Sending(d, x)' <=> Sending(d, x)
  BY <1>1 DEF Putting, Sending
<1>6. \A p \in WorkQueue : \A x :
        /\ InFifo(p, x)' <=> InFifo(p, x)
        /\ Got(p, x)' <=> Got(p, x)
        /\ Delivering(p, x)' <=> Delivering(p, x) /\ ~(p = q /\ send_count[a] = 1)
  BY <1>1 DEF IInv, TypeInv, MainState, Waiting, InFifo, Got, Delivering
<1>7. \A x : Delivering(q, x) => x = a
  BY DEF Delivering
<1> HIDE DEF a
<1>8. HandInv'
  BY <1>1, <1>5, <1>6 DEF IInv, HandInv
<1>9. \A b \in Alert : /\ b # a => send_count'[b] = send_count[b]
                       /\ send_count'[a] > 0 <=> send_count[a] # 1
  BY <1>1, <1>2, <1>3 DEF IInv, TypeInv
<1>10. AlertInv'
  <2> SUFFICES ASSUME NEW b \in Alert
               PROVE  /\ send_count'[b] > 0 <=> \/ b \in pending
                                                \/ \E c \in Caller : Sending(c, b)'
                                                \/ \E p \in WorkQueue : Delivering(p, b)'
                      /\ b \in pending => /\ \A c \in Caller : ~Sending(c, b)'
                                          /\ \A p \in WorkQueue : ~Delivering(p, b)'
                      /\ \A c, d \in Caller : Sending(c, b)' /\ Sending(d, b)' => c = d
                      /\ \A r, p \in WorkQueue : Delivering(r, b)' /\ Delivering(p, b)' => r = p
                      /\ \A c \in Caller, p \in WorkQueue : ~(Sending(c, b)' /\ Delivering(p, b)')
    BY <1>1 DEF AlertInv
  <2> QED BY <1>2, <1>3, <1>5, <1>6, <1>7, <1>9 DEF IInv, AlertInv
<1> QED BY <1>1, <1>4, <1>8, <1>10 DEF IInv, CountdownHasQueue

\* The first of several sends makes its caller responsible for the submission.
LEMMA SendInv ==
  ASSUME IInv, NEW c \in Caller, NEW a \in Alert, k_alert_send(c, a)
  PROVE  IInv'
<1>1. /\ call[c] = Outside /\ send_count' = [send_count EXCEPT ![a] = @ + 1]
      /\ call' = IF send_count[a] = 0
                 THEN [call EXCEPT ![c] = [at |-> "send", queue |-> sys_work_q, item |-> a]]
                 ELSE call
      /\ UNCHANGED <<pending, fifo, main, work_q, counting, sem>>
  BY DEF k_alert_send
<1>2. a \in Item /\ sys_work_q \in WorkQueue /\ send_count[a] \in Nat
  BY WorkQAssumption DEF Item, IInv, TypeInv
<1>3. TypeInv'
  BY <1>1, <1>2 DEF IInv, TypeInv, CallState
<1>4. \A d \in Caller : \A x :
        /\ Putting(d, x)' <=> Putting(d, x)
        /\ Sending(d, x)' <=> Sending(d, x) \/ (d = c /\ x = a /\ send_count[a] = 0)
  BY <1>1 DEF IInv, TypeInv, Putting, Sending, Outside
<1>5. \A p \in WorkQueue : \A x : /\ InFifo(p, x)' <=> InFifo(p, x)
                                  /\ Got(p, x)' <=> Got(p, x)
                                  /\ Delivering(p, x)' <=> Delivering(p, x)
  BY <1>1 DEF InFifo, Got, Delivering
<1>6. HandInv'
  BY <1>1, <1>4, <1>5 DEF IInv, HandInv
<1>7. /\ \A b \in Alert : b # a => send_count'[b] = send_count[b]
      /\ send_count'[a] > 0 /\ (send_count[a] = 0 \/ send_count[a] > 0)
      /\ send_count[a] = 0 => ~(send_count[a] > 0)
  BY <1>1, <1>2 DEF IInv, TypeInv
<1>8. AlertInv'
  BY <1>1, <1>4, <1>5, <1>7 DEF IInv, AlertInv
<1> QED BY <1>1, <1>3, <1>6, <1>8 DEF IInv, CountdownHasQueue

LEMMA NextInv == IInv /\ [Next]_vars => IInv'
<1> SUFFICES ASSUME IInv, [Next]_vars PROVE IInv'
  OBVIOUS
<1>8. ASSUME UNCHANGED <<pending, fifo, main, call, work_q, counting, send_count>> PROVE IInv'
  BY <1>8 DEF IInv, TypeInv, HandInv, AlertInv, CountdownHasQueue,
              InFifo, Putting, Got, Sending, Delivering
<1>1. ASSUME NEW c \in Caller, k_alert_send_submit(c) PROVE IInv'
  <2> DEFINE w == call[c].item
             q == call[c].queue
  <2>1. /\ call[c].at = "send" /\ test_and_set_pending(c, q, w)
        /\ UNCHANGED <<fifo, main, work_q, counting, send_count, sem>>
    BY <1>1 DEF k_alert_send_submit
  <2>2. Sending(c, w) /\ w \in Alert /\ w \in Item /\ q \in WorkQueue
    BY <2>1 DEF IInv, TypeInv, Sending, Item
  <2>3. w \notin pending
    BY <2>2 DEF IInv, AlertInv
  <2> HIDE DEF w, q
  <2>4. /\ pending' = pending \cup {w}
        /\ call' = [call EXCEPT ![c] = [at |-> "fifo_put", queue |-> q, item |-> w]]
    BY <2>1, <2>3 DEF test_and_set_pending
  <2> QED BY <2>1, <2>2, <2>3, <2>4, SubmitInv
<1>2. ASSUME NEW c \in Caller, NEW q \in WorkQueue, NEW w \in Work, k_work_submit_to_queue(c, q, w)
      PROVE  IInv'
  <2>1. w \in Item /\ w \notin Alert
    BY WorkQAssumption DEF Item
  <2>2. CASE w \in pending
    <3>1. UNCHANGED <<pending, fifo, main, call, work_q, counting, send_count>>
      BY <1>2, <2>2 DEF k_work_submit_to_queue, test_and_set_pending, IInv, TypeInv
    <3> QED BY <3>1, <1>8
  <2>3. CASE w \notin pending
    BY <1>2, <2>1, <2>3, SubmitInv DEF k_work_submit_to_queue, test_and_set_pending
  <2> QED BY <2>2, <2>3
<1>3. ASSUME NEW c \in Caller, k_fifo_put(c) PROVE IInv'
  BY <1>3, PutInv
<1>4. ASSUME NEW q \in WorkQueue, NEW w \in DelayedWork,
             k_delayed_work_submit_to_queue(q, w) \/ k_delayed_work_submit_now(q, w)
      PROVE  IInv'
  BY <1>4, DelayedInv
<1>5. ASSUME NEW w \in DelayedWork, k_delayed_work_cancel(w) \/ work_timeout(w) PROVE IInv'
  BY <1>5, DelayedInv, WorkQAssumption
<1>6. ASSUME NEW q \in WorkQueue, MainStep(q) PROVE IInv'
  BY <1>6, GetInv, ClearInv, LoopInv, DeliverInv, DeliverNextInv DEF MainStep
<1>7. ASSUME NEW c \in Caller, NEW a \in Alert, k_alert_send(c, a) PROVE IInv'
  BY <1>7, SendInv
<1>9. CASE Next
  BY <1>9, <1>1, <1>2, <1>3, <1>4, <1>5, <1>6, <1>7, <1>8
     DEF Next, CallStep, k_alert_send_default, k_alert_recv
<1>10. CASE UNCHANGED vars
  BY <1>8, <1>10 DEF vars
<1> QED BY <1>9, <1>10

\* Where items and alerts are, in every reachable state, whatever the submissions, the
\* sends, the timeouts and the threads of the queues do.
THEOREM WorkQInvariant == Spec => []IInv
<1> QED BY InitInv, NextInv, PTL DEF Spec

\* CountdownHasQueue (run WorkQ): work_timeout() always finds a queue in work->work_q,
\* since cancelling and expiring detach the item together with its timeout.
THEOREM WorkQCountdown == Spec => []CountdownHasQueue
<1> QED BY WorkQInvariant, PTL DEF IInv

\* AlertInFlight (run WorkQ): the count of an alert is above zero exactly as long as one
\* caller, its work item or _alert_deliver() is about to deliver it.
THEOREM WorkQAlerts == Spec => []AlertInFlight
<1>1. IInv => AlertInFlight
  BY DEF IInv, AlertInv, AlertInFlight, Sending, Delivering
<1> QED BY <1>1, WorkQInvariant, PTL

\* PendingInOneHand (run WorkQ): an item is linked into at most one fifo, at one place, and
\* is in some hand as long as its pending bit says so, however submissions race with the
\* callback of its countdown and with the thread of a queue.
THEOREM WorkQPending == Spec => []PendingInOneHand
<1>1. IInv => PendingInOneHand
  <2> SUFFICES ASSUME IInv, NEW w \in Item
               PROVE  Cardinality(Hands(w)) = IF w \in pending THEN 1 ELSE 0
    BY DEF PendingInOneHand
  <2>1. \A h : h \in Hands(w) <=>
          \/ \E q \in WorkQueue : \E i \in 1..Len(fifo[q]) : fifo[q][i] = w /\ h = <<"fifo", q, i>>
          \/ \E c \in Caller : Putting(c, w) /\ h = <<"caller", c>>
          \/ \E q \in WorkQueue : Got(q, w) /\ h = <<"thread", q>>
    <3>1. \A h : h \in FifoHands(w) <=>
            \E q \in WorkQueue : \E i \in 1..Len(fifo[q]) : fifo[q][i] = w /\ h = <<"fifo", q, i>>
      <4> DEFINE F(q) == {j \in 1..Len(fifo[q]) : fifo[q][j] = w}
      <4>1. \A q, i : i \in F(q) <=> i \in 1..Len(fifo[q]) /\ fifo[q][i] = w
        OBVIOUS
      <4>2. FifoHands(w) = UNION {{<<"fifo", q, i>> : i \in F(q)} : q \in WorkQueue}
        BY DEF FifoHands
      <4> HIDE DEF F
      <4> QED BY <4>1, <4>2
    <3>2. \A h : h \in CallerHands(w) <=> \E c \in Caller : Putting(c, w) /\ h = <<"caller", c>>
      BY DEF CallerHands, Putting
    <3>3. \A h : h \in ThreadHands(w) <=> \E q \in WorkQueue : Got(q, w) /\ h = <<"thread", q>>
      BY DEF ThreadHands, Got
    <3> QED BY <3>1, <3>2, <3>3 DEF Hands
  <2> DEFINE H == Hands(w)
  <2>2. \A q \in WorkQueue : InFifo(q, w) <=> \E i \in 1..Len(fifo[q]) : fifo[q][i] = w
    BY DEF InFifo, Linked
  <2>3. CASE w \notin pending
    <3>1. Hands(w) = {}
      BY <2>1, <2>2, <2>3 DEF IInv, HandInv
    <3> QED BY <2>3, <3>1, FS_EmptySet
  <2>4. CASE w \in pending
    <3> HIDE DEF H
    <3>1. \E h : H = {h}
      <4>1. CASE \E q \in WorkQueue : InFifo(q, w)
        <5>1. PICK q \in WorkQueue : InFifo(q, w)
          BY <4>1
        <5>2. PICK i \in 1..Len(fifo[q]) : fifo[q][i] = w
          BY <5>1, <2>2
        <5>3. /\ \A p \in WorkQueue : (InFifo(p, w) => p = q) /\ ~Got(p, w)
              /\ \A c \in Caller : ~Putting(c, w)
          BY <5>1 DEF IInv, HandInv
        <5>4. \A j \in 1..Len(fifo[q]) : fifo[q][j] = w => j = i
          BY <5>2 DEF IInv, HandInv, NoDup
        <5>5. \A h : h \in H <=> h = <<"fifo", q, i>>
          BY <2>1, <2>2, <5>2, <5>3, <5>4 DEF H
        <5>6. H = {<<"fifo", q, i>>}
          BY <5>5
        <5> QED BY <5>6
      <4>2. CASE \E c \in Caller : Putting(c, w)
        <5>1. PICK c \in Caller : Putting(c, w)
          BY <4>2
        <5>2. /\ \A d \in Caller : Putting(d, w) => d = c
              /\ \A p \in WorkQueue : ~InFifo(p, w) /\ ~Got(p, w)
          BY <5>1 DEF IInv, HandInv
        <5>3. \A h : h \in H <=> h = <<"caller", c>>
          BY <2>1, <2>2, <5>1, <5>2 DEF H
        <5>4. H = {<<"caller", c>>}
          BY <5>3
        <5> QED BY <5>4
      <4>3. CASE \E q \in WorkQueue : Got(q, w)
        <5>1. PICK q \in WorkQueue : Got(q, w)
          BY <4>3
        <5>2. /\ \A p \in WorkQueue : (Got(p, w) => p = q) /\ ~InFifo(p, w)
              /\ \A c \in Caller : ~Putting(c, w)
          BY <5>1 DEF IInv, HandInv
        <5>3. \A h : h \in H <=> h = <<"thread", q>>
          BY <2>1, <2>2, <5>1, <5>2 DEF H
        <5>4. H = {<<"thread", q>>}
          BY <5>3
        <5> QED BY <5>4
      <4> QED BY <2>4, <4>1, <4>2, <4>3 DEF IInv, HandInv
    <3> QED BY <2>4, <3>1, FS_Singleton DEF H
  <2> QED BY <2>3, <2>4
<1> QED BY <1>1, WorkQInvariant, PTL
=============================================================================
