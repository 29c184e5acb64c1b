--------------------------- MODULE SemGroupProofs ---------------------------
(***************************************************************************)
(* Proofs about semaphore groups, for any threads, semaphores and arrays:  *)
(* the dummy threads are where they should be, and they implement waits    *)
(* for sets of semaphores.                                                 *)
(***************************************************************************)
EXTENDS SemGroup, DListProofs

\* What is linked on a queue: threads, and dummies of threads
Node == [thread : Thread, dummy : BOOLEAN]
ThreadNode(t) == [thread |-> t, dummy |-> FALSE]
DummyNode(t) == [thread |-> t, dummy |-> TRUE]

TypeInv ==
  /\ count \in [Sem -> 0..SemLimit]
  /\ wait_q \in [Sem -> Seq(Node)]
  /\ st \in [Thread -> [at : {"run", "take", "group", "woken"}, list : SUBSET Sem, ret : {0, EAGAIN}]]
  /\ giving \in Seq(Sem)

\* A node is on a queue exactly when its thread waits there in that way, once.
QueueInv ==
  /\ \A s \in Sem : NoDup(wait_q[s])
  /\ \A s \in Sem, t \in Thread :
       /\ Linked(wait_q[s], DummyNode(t)) <=> st[t].at = "group" /\ s \in st[t].list
       /\ Linked(wait_q[s], ThreadNode(t)) <=> st[t].at = "take" /\ s \in st[t].list

\* Nobody waits for a semaphore that is available.
CountInv == \A s \in Sem : wait_q[s] # << >> => count[s] = 0

\* A thread that was granted a semaphore, or waits for a single one, has that one on
\* its list.
StateInv ==
  \A t \in Thread :
    /\ st[t].at = "run" => st[t] = Running
    /\ st[t].at = "take" \/ (st[t].at = "woken" /\ st[t].ret = 0) => \E s \in Sem : st[t].list = {s}

IInv == TypeInv /\ QueueInv /\ CountInv /\ StateInv

\* The queues with a node of t added to those of S, and with it removed
LEMMA InsertNode ==
  ASSUME NEW q \in Seq(Node), NEW w \in Node
  PROVE  /\ WaitInsert(q, w) \in Seq(Node) /\ WaitInsert(q, w) # << >>
         /\ \A x : Linked(WaitInsert(q, w), x) <=> Linked(q, x) \/ x = w
         /\ NoDup(q) /\ ~Linked(q, w) => NoDup(WaitInsert(q, w))
<1> DEFINE C == {[thread |-> u, dummy |-> d] :
                   u \in {v \in Thread : prio[w.thread] < prio[v]}, d \in BOOLEAN}
<1>1. WaitInsert(q, w) = sys_dlist_insert_at(q, w, C)
  BY DEF WaitInsert
<1> HIDE DEF C
<1> QED BY <1>1, InsertAtProps

LEMMA InitInv == Init => IInv
<1> SUFFICES ASSUME Init PROVE IInv
  OBVIOUS
<1>1. TypeInv
  BY SemGroupAssumption DEF Init, TypeInv, Running
<1>2. QueueInv
  <2>1. NoDup(<< >>) /\ \A x : ~Linked(<< >>, x)
    BY DEF NoDup, Linked
  <2> QED BY <2>1 DEF Init, QueueInv, Running
<1>3. CountInv /\ StateInv
  BY DEF Init, CountInv, StateInv, Running
<1> QED BY <1>1, <1>2, <1>3 DEF IInv

\* The members of an array are semaphores, and the first available one is available.
LEMMA ArrayProps ==
  ASSUME NEW a \in SemArray, TypeInv
  PROVE  /\ Members(a) \in SUBSET Sem /\ a \in Seq(Sem)
         /\ \A s \in Members(a) : \E i \in 1..Len(a) : a[i] = s
         /\ Available(a) = {} => \A s \in Members(a) : count[s] = 0
         /\ Available(a) # {} => FirstAvailable(a) \in Sem /\ count[FirstAvailable(a)] > 0
<1>1. a \in Seq(Sem) /\ Len(a) \in Nat /\ \A i \in 1..Len(a) : a[i] \in Sem
  BY SemGroupAssumption, LenProperties, ElementOfSeq
<1>2. Members(a) \in SUBSET Sem /\ \A s \in Members(a) : \E i \in 1..Len(a) : a[i] = s
  BY <1>1 DEF Members
<1>3. ASSUME Available(a) = {}, NEW s \in Members(a) PROVE count[s] = 0
  <2>1. PICK i \in 1..Len(a) : a[i] = s
    BY <1>2
  <2>2. ~(count[s] > 0) /\ count[s] \in 0..SemLimit
    BY <2>1, <1>3, <1>2 DEF Available, TypeInv
  <2> QED BY <2>2, SemGroupAssumption
<1>4. ASSUME Available(a) # {} PROVE FirstAvailable(a) \in Sem /\ count[FirstAvailable(a)] > 0
  <2>1. Available(a) \in SUBSET Int /\ \A x \in Available(a) : 1 <= x
    BY <1>1 DEF Available
  <2>2. \E i \in Available(a) : \A j \in Available(a) : i <= j
    BY <2>1, <1>4, LeastElement
  <2> DEFINE c == CHOOSE i \in Available(a) : \A j \in Available(a) : i <= j
  <2>3. c \in Available(a)
    BY <2>2
  <2> HIDE DEF c
  <2>4. c \in 1..Len(a) /\ count[a[c]] > 0
    BY <2>3 DEF Available
  <2> QED BY <2>4, <1>1 DEF FirstAvailable, c
<1> QED BY <1>1, <1>2, <1>3, <1>4

\* Nodes of different threads, and the node and the dummy of one thread, differ.
LEMMA NodeProps ==
  /\ \A t \in Thread : ThreadNode(t) \in Node /\ DummyNode(t) \in Node
  /\ \A w \in Node : /\ w.thread \in Thread
                     /\ w.dummy => w = DummyNode(w.thread)
                     /\ ~w.dummy => w = ThreadNode(w.thread)
  /\ \A t, u : /\ DummyNode(t) # ThreadNode(u)
               /\ DummyNode(t) = DummyNode(u) => t = u
               /\ ThreadNode(t) = ThreadNode(u) => t = u
<1>1. \A t \in Thread : ThreadNode(t) \in Node /\ DummyNode(t) \in Node
  BY DEF Node, ThreadNode, DummyNode
<1>2. ASSUME NEW w \in Node
      PROVE  /\ w.thread \in Thread
             /\ w.dummy => w = DummyNode(w.thread)
             /\ ~w.dummy => w = ThreadNode(w.thread)
  <2>1. w.thread \in Thread /\ w.dummy \in BOOLEAN /\ w = [thread |-> w.thread, dummy |-> w.dummy]
    BY DEF Node
  <2>2. CASE w.dummy = TRUE
    BY <2>1, <2>2 DEF DummyNode
  <2>3. CASE w.dummy = FALSE
    BY <2>1, <2>3 DEF ThreadNode
  <2> QED BY <2>1, <2>2, <2>3
<1>3. \A t, u : /\ DummyNode(t) # ThreadNode(u)
                /\ DummyNode(t) = DummyNode(u) => t = u
                /\ ThreadNode(t) = ThreadNode(u) => t = u
  BY DEF ThreadNode, DummyNode
<1> QED BY <1>1, <1>2, <1>3

\* take_available() leaves the queues alone.
LEMMA TakeAvailableInv ==
  ASSUME IInv, NEW t \in Thread, NEW a \in SemArray, take_available(t, a)
  PROVE  IInv'
<1> DEFINE s == FirstAvailable(a)
<1>1. s \in Sem /\ count[s] > 0
  BY ArrayProps DEF IInv, take_available
<1>2. /\ count' = [count EXCEPT ![s] = @ - 1]
      /\ st' = [st EXCEPT ![t] = Woken({s}, 0)]
      /\ st[t] = Running /\ UNCHANGED <<wait_q, giving, prio>>
  BY DEF take_available
<1> HIDE DEF s
<1>3. TypeInv'
  <2>1. count[s] - 1 \in 0..SemLimit
    BY <1>1, SemGroupAssumption DEF IInv, TypeInv
  <2> QED BY <1>1, <1>2, <2>1 DEF IInv, TypeInv, Woken
<1>4. QueueInv'
  BY <1>2 DEF IInv, TypeInv, QueueInv, Woken, Running
<1>5. CountInv'
  BY <1>1, <1>2, SemGroupAssumption DEF IInv, TypeInv, CountInv
<1>6. StateInv'
  BY <1>1, <1>2 DEF IInv, TypeInv, StateInv, Woken
<1> QED BY <1>3, <1>4, <1>5, <1>6 DEF IInv

\* k_sem_take() links the thread itself.
LEMMA SemTakeInv ==
  ASSUME IInv, NEW t \in Thread, NEW s \in Sem, k_sem_take(t, s)
  PROVE  IInv'
<1> DEFINE w == ThreadNode(t)
           q == WaitInsert(wait_q[s], w)
<1>1. /\ wait_q' = [wait_q EXCEPT ![s] = q]
      /\ st' = [st EXCEPT ![t] = [at |-> "take", list |-> {s}, ret |-> 0]]
      /\ st[t] = Running /\ count[s] = 0 /\ UNCHANGED <<count, giving, prio>>
  BY DEF k_sem_take, ThreadNode
<1>2. /\ w \in Node /\ wait_q[s] \in Seq(Node) /\ NoDup(wait_q[s]) /\ ~Linked(wait_q[s], w)
  <2>1. w \in Node
    BY NodeProps
  <2>2. wait_q[s] \in Seq(Node) /\ NoDup(wait_q[s])
    BY DEF IInv, TypeInv, QueueInv
  <2>3. ~Linked(wait_q[s], w)
    BY <1>1 DEF IInv, QueueInv, Running
  <2> QED BY <2>1, <2>2, <2>3
<1>3. /\ q \in Seq(Node) /\ NoDup(q)
      /\ \A x : Linked(q, x) <=> Linked(wait_q[s], x) \/ x = w
  BY <1>2, InsertNode
<1> HIDE DEF q
<1>4. TypeInv'
  BY <1>1, <1>3 DEF IInv, TypeInv
<1>5. QueueInv'
  BY <1>1, <1>3, NodeProps DEF IInv, TypeInv, QueueInv, Running
<1>6. CountInv' /\ StateInv'
  BY <1>1 DEF IInv, TypeInv, CountInv, StateInv
<1> QED BY <1>4, <1>5, <1>6 DEF IInv

\* k_sem_group_take() links a dummy on each of the queues.
LEMMA GroupTakeInv ==
  ASSUME IInv, NEW t \in Thread, NEW a \in SemArray, k_sem_group_take(t, a)
  PROVE  IInv'
<1> DEFINE w == DummyNode(t)
           M == Members(a)
           q(s) == WaitInsert(wait_q[s], w)
<1>1. /\ wait_q' = [s \in Sem |-> IF s \in M THEN q(s) ELSE wait_q[s]]
      /\ st' = [st EXCEPT ![t] = [at |-> "group", list |-> M, ret |-> 0]]
      /\ st[t] = Running /\ UNCHANGED <<count, giving, prio>>
  BY DEF k_sem_group_take, DummyNode
<1>2. M \in SUBSET Sem /\ \A s \in M : count[s] = 0
  BY ArrayProps DEF IInv, k_sem_group_take
<1>3. ASSUME NEW s \in Sem
      PROVE  /\ q(s) \in Seq(Node) /\ NoDup(q(s))
             /\ \A x : Linked(q(s), x) <=> Linked(wait_q[s], x) \/ x = w
  <2>1. w \in Node
    BY NodeProps
  <2>2. wait_q[s] \in Seq(Node) /\ NoDup(wait_q[s])
    BY DEF IInv, TypeInv, QueueInv
  <2>3. ~Linked(wait_q[s], w)
    BY <1>1 DEF IInv, QueueInv, Running
  <2> QED BY <2>1, <2>2, <2>3, InsertNode
<1> HIDE DEF q, M
<1>4. TypeInv'
  BY <1>1, <1>2, <1>3 DEF IInv, TypeInv
<1>5. QueueInv'
  <2> SUFFICES ASSUME NEW s \in Sem
               PROVE  /\ NoDup(wait_q'[s])
                      /\ \A u \in Thread :
                         /\ Linked(wait_q'[s], DummyNode(u)) <=>
                              st'[u].at = "group" /\ s \in st'[u].list
                         /\ Linked(wait_q'[s], ThreadNode(u)) <=>
                              st'[u].at = "take" /\ s \in st'[u].list
    BY DEF QueueInv
  <2>1. wait_q'[s] = IF s \in M THEN q(s) ELSE wait_q[s]
    BY <1>1
  <2> QED BY <1>1, <2>1, <1>3, NodeProps DEF IInv, TypeInv, QueueInv, Running
<1>6. CountInv' /\ StateInv'
  BY <1>1, <1>2 DEF IInv, TypeInv, CountInv, StateInv
<1> QED BY <1>4, <1>5, <1>6 DEF IInv

\* A give takes the node of one thread, and all its dummies, off the queues, or counts.
LEMMA GiveInv ==
  ASSUME IInv, NEW s \in Sem, sem_give_common(s), giving' \in Seq(Sem)
  PROVE  IInv'
<1>1. CASE wait_q[s] = << >>
  <2>1. /\ count' = [count EXCEPT ![s] = IF @ = SemLimit THEN @ ELSE @ + 1]
        /\ UNCHANGED <<wait_q, st>>
    BY <1>1 DEF sem_give_common
  <2>2. (IF count[s] = SemLimit THEN count[s] ELSE count[s] + 1) \in 0..SemLimit
    BY SemGroupAssumption DEF IInv, TypeInv
  <2>3. TypeInv'
    BY <2>1, <2>2 DEF IInv, TypeInv
  <2>4. QueueInv' /\ StateInv'
    BY <2>1 DEF IInv, QueueInv, StateInv
  <2>5. CountInv'
    BY <1>1, <2>1 DEF IInv, TypeInv, CountInv
  <2> QED BY <2>3, <2>4, <2>5 DEF IInv
<1>2. CASE wait_q[s] # << >>
  <2> DEFINE w == Head(wait_q[s])
             t == w.thread
             d == DummyNode(t)
             tail == Tail(wait_q[s])
  <2>1. /\ wait_q[s] \in Seq(Node) /\ NoDup(wait_q[s])
        /\ w \in Node /\ Linked(wait_q[s], w) /\ t \in Thread
        /\ tail \in Seq(Node) /\ NoDup(tail)
        /\ \A x : Linked(tail, x) <=> Linked(wait_q[s], x) /\ x # w
    <3>1. wait_q[s] \in Seq(Node) /\ NoDup(wait_q[s])
      BY DEF IInv, TypeInv, QueueInv
    <3>2. w \in Node /\ Linked(wait_q[s], w)
      BY <3>1, <1>2, TailProps
    <3>3. t \in Thread
      BY <3>2 DEF Node
    <3> QED BY <3>1, <3>2, <3>3, <1>2, TailProps
  <2>2. UNCHANGED count /\ st' = [st EXCEPT ![t] = Woken({s}, 0)]
    BY <1>2 DEF sem_give_common, handle_sem_group
  <2>3. CASE w.dummy
    <3>1. w = d
      BY <2>1, <2>3, NodeProps
    <3>2. st[t].at = "group" /\ s \in st[t].list
      BY <2>1, <3>1 DEF IInv, QueueInv
    <3>3. wait_q' = [u \in Sem |->
             IF u = s THEN tail
             ELSE IF u \in st[t].list THEN sys_dlist_remove(wait_q[u], d) ELSE wait_q[u]]
      BY <1>2, <2>3 DEF sem_give_common, handle_sem_group, DummyNode
    <3> HIDE DEF w, t, tail
    <3>4. ASSUME NEW u \in Sem
          PROVE  /\ wait_q'[u] \in Seq(Node) /\ NoDup(wait_q'[u])
                 /\ \A x : Linked(wait_q'[u], x) <=> Linked(wait_q[u], x) /\ x # d
      <4>1. wait_q[u] \in Seq(Node) /\ NoDup(wait_q[u])
        BY DEF IInv, TypeInv, QueueInv
      <4>2. CASE u = s
        BY <4>2, <3>3, <2>1, <3>1
      <4>3. CASE u # s /\ u \in st[t].list
        BY <4>1, <4>3, <3>3, UnlinkProps
      <4>4. CASE u # s /\ u \notin st[t].list
        <5>1. ~Linked(wait_q[u], d)
          BY <4>4, <2>1 DEF IInv, QueueInv
        <5> QED BY <4>1, <4>4, <3>3, <5>1
      <4> QED BY <4>2, <4>3, <4>4
    <3>5. TypeInv'
      <4>1. wait_q' \in [Sem -> Seq(Node)]
        BY <3>3, <3>4
      <4>2. st' \in [Thread -> [at : {"run", "take", "group", "woken"}, list : SUBSET Sem, ret : {0, EAGAIN}]]
        BY <2>1, <2>2 DEF IInv, TypeInv, Woken
      <4> QED BY <4>1, <4>2, <2>2 DEF IInv, TypeInv
    <3>6. QueueInv'
      BY <2>1, <2>2, <3>2, <3>4, NodeProps DEF IInv, TypeInv, QueueInv, Woken
    <3>7. CountInv'
      <4> SUFFICES ASSUME NEW u \in Sem, wait_q'[u] # << >> PROVE count[u] = 0
        BY <2>2 DEF CountInv
      <4>1. \E x : Linked(wait_q'[u], x)
        BY <3>4, EmptyUnlinked
      <4>2. \E x : Linked(wait_q[u], x)
        BY <4>1, <3>4
      <4>3. wait_q[u] # << >>
        BY <4>2, EmptyUnlinked DEF IInv, TypeInv
      <4> QED BY <4>3 DEF IInv, CountInv
    <3>8. StateInv'
      BY <2>1, <2>2 DEF IInv, TypeInv, StateInv, Woken
    <3> QED BY <3>5, <3>6, <3>7, <3>8 DEF IInv
  <2>4. CASE ~w.dummy
    <3>1. w = ThreadNode(t)
      BY <2>1, <2>4, NodeProps
    <3>2. st[t].at = "take" /\ s \in st[t].list
      BY <2>1, <3>1 DEF IInv, QueueInv
    <3>3. wait_q' = [wait_q EXCEPT ![s] = tail]
      BY <1>2, <2>4 DEF sem_give_common
    <3> HIDE DEF w, t, tail
    <3>5. TypeInv'
      <4>2. st' \in [Thread -> [at : {"run", "take", "group", "woken"}, list : SUBSET Sem, ret : {0, EAGAIN}]]
        BY <2>1, <2>2 DEF IInv, TypeInv, Woken
      <4> QED BY <3>3, <4>2, <2>1, <2>2 DEF IInv, TypeInv
    <3>6. QueueInv'
      <4>1. st[t].list = {s}
        BY <2>1, <3>2 DEF IInv, StateInv
      <4> QED BY <2>1, <2>2, <3>1, <3>2, <3>3, <4>1, NodeProps DEF IInv, TypeInv, QueueInv, Woken
    <3>7. CountInv'
      BY <1>2, <2>2, <3>3 DEF IInv, TypeInv, CountInv
    <3>8. StateInv'
      BY <2>1, <2>2 DEF IInv, TypeInv, StateInv, Woken
    <3> QED BY <3>5, <3>6, <3>7, <3>8 DEF IInv
  <2> QED BY <2>3, <2>4
<1> QED BY <1>1, <1>2

\* The times at which a thread and its dummies are off the queues again
LEMMA TimesOutInv ==
  ASSUME IInv, NEW t \in Thread, times_out(t)
  PROVE  IInv'
<1> DEFINE w == IF st[t].at = "group" THEN DummyNode(t) ELSE ThreadNode(t)
<1>1. /\ st[t].at \in {"take", "group"} /\ st' = [st EXCEPT ![t] = Woken({}, EAGAIN)]
      /\ UNCHANGED <<count, giving, prio>>
  BY DEF times_out
<1>2. wait_q' = [s \in Sem |-> sys_dlist_remove(wait_q[s], w)]
  <2>1. CASE st[t].at = "group"
    BY <2>1 DEF times_out, DummyNode
  <2>2. CASE st[t].at # "group"
    BY <2>2 DEF times_out, ThreadNode
  <2> QED BY <2>1, <2>2
<1>3. ASSUME NEW s \in Sem
      PROVE  /\ wait_q'[s] \in Seq(Node) /\ NoDup(wait_q'[s])
             /\ \A x : Linked(wait_q'[s], x) <=> Linked(wait_q[s], x) /\ x # w
  <2> HIDE DEF w
  <2>1. wait_q[s] \in Seq(Node) /\ NoDup(wait_q[s])
    BY DEF IInv, TypeInv, QueueInv
  <2> QED BY <2>1, <1>2, UnlinkProps
<1>4. TypeInv'
  <2>1. wait_q' \in [Sem -> Seq(Node)]
    BY <1>2, <1>3
  <2> QED BY <1>1, <2>1 DEF IInv, TypeInv, Woken
<1>5. QueueInv'
  <2>1. CASE st[t].at = "group"
    BY <1>1, <1>3, <2>1, NodeProps DEF IInv, TypeInv, QueueInv, Woken
  <2>2. CASE st[t].at = "take"
    BY <1>1, <1>3, <2>2, NodeProps DEF IInv, TypeInv, QueueInv, Woken
  <2> QED BY <1>1, <2>1, <2>2
<1>6. CountInv'
  <2> SUFFICES ASSUME NEW u \in Sem, wait_q'[u] # << >> PROVE count[u] = 0
    BY <1>1 DEF CountInv
  <2>1. \E x : Linked(wait_q'[u], x)
    BY <1>3, EmptyUnlinked
  <2>2. \E x : Linked(wait_q[u], x)
    BY <2>1, <1>3
  <2>3. wait_q[u] # << >>
    BY <2>2, EmptyUnlinked DEF IInv, TypeInv
  <2> QED BY <2>3 DEF IInv, CountInv
<1>7. StateInv'
  BY <1>1 DEF IInv, TypeInv, StateInv, Woken, EAGAIN
<1> QED BY <1>4, <1>5, <1>6, <1>7 DEF IInv

LEMMA ReturnInv ==
  ASSUME IInv, NEW t \in Thread, return(t)
  PROVE  IInv'
<1>1. /\ st[t].at = "woken" /\ st' = [st EXCEPT ![t] = Running]
      /\ UNCHANGED <<count, wait_q, giving, prio>>
  BY DEF return
<1>2. TypeInv'
  BY <1>1 DEF IInv, TypeInv, Running
<1>3. QueueInv'
  BY <1>1 DEF IInv, TypeInv, QueueInv, Running
<1>4. CountInv' /\ StateInv'
  BY <1>1 DEF IInv, TypeInv, CountInv, StateInv, Running
<1> QED BY <1>2, <1>3, <1>4 DEF IInv

LEMMA ResetInv ==
  ASSUME IInv, NEW a \in SemArray, k_sem_group_reset(a)
  PROVE  IInv'
<1>1. /\ count' = [s \in Sem |-> IF s \in Members(a) THEN 0 ELSE count[s]]
      /\ UNCHANGED <<wait_q, st, giving, prio>>
  BY DEF k_sem_group_reset
<1>2. TypeInv'
  BY <1>1, SemGroupAssumption DEF IInv, TypeInv
<1>3. QueueInv' /\ CountInv' /\ StateInv'
  BY <1>1 DEF IInv, QueueInv, CountInv, StateInv
<1> QED BY <1>2, <1>3 DEF IInv

LEMMA NextInv == IInv /\ [Next]_vars => IInv'
<1> SUFFICES ASSUME IInv, [Next]_vars PROVE IInv'
  OBVIOUS
<1>1. ASSUME NEW t \in Thread, NEW a \in SemArray, take_available(t, a) PROVE IInv'
  BY <1>1, TakeAvailableInv
<1>2. ASSUME NEW t \in Thread, NEW a \in SemArray, k_sem_group_take(t, a) PROVE IInv'
  BY <1>2, GroupTakeInv
<1>3. ASSUME NEW t \in Thread, NEW s \in Sem, k_sem_take(t, s) PROVE IInv'
  BY <1>3, SemTakeInv
<1>4. ASSUME NEW s \in Sem, k_sem_give(s) PROVE IInv'
  BY <1>4, GiveInv DEF k_sem_give, IInv, TypeInv
<1>5. ASSUME NEW a \in SemArray, k_sem_group_give(a) PROVE IInv'
  <2>1. giving' \in Seq(Sem) /\ UNCHANGED <<count, wait_q, st, prio>>
    BY <1>5, SemGroupAssumption DEF k_sem_group_give
  <2> QED BY <2>1 DEF IInv, TypeInv, QueueInv, CountInv, StateInv
<1>6. ASSUME NEW a \in SemArray, k_sem_group_reset(a) PROVE IInv'
  BY <1>6, ResetInv
<1>7. ASSUME group_give_next PROVE IInv'
  <2>1. giving \in Seq(Sem) /\ giving # << >>
    BY <1>7 DEF group_give_next, Locked, IInv, TypeInv
  <2>2. Head(giving) \in Sem /\ Tail(giving) \in Seq(Sem)
    BY <2>1
  <2> QED BY <2>2, <1>7, GiveInv DEF group_give_next
<1>8. ASSUME NEW t \in Thread, times_out(t) PROVE IInv'
  BY <1>8, TimesOutInv
<1>9. ASSUME NEW t \in Thread, return(t) PROVE IInv'
  BY <1>9, ReturnInv
<1>10. CASE UNCHANGED vars
  BY <1>10 DEF vars, IInv, TypeInv, QueueInv, CountInv, StateInv
<1> QED BY <1>1, <1>2, <1>3, <1>4, <1>5, <1>6, <1>7, <1>8, <1>9, <1>10 DEF Next

\* The queues of nodes, the counts and the states of the threads agree in every reachable
\* state, whatever the calls, the gives of a group and the timeouts.
THEOREM SemGroupInvariant == Spec => []IInv
<1> QED BY InitInv, NextInv, PTL DEF Spec

\* DummiesMatchWaits (run SemGroup): whatever k_sem_group_take(), the gives of
\* handle_sem_group() and the timeouts do, the dummy threads on the wait queues are those of
\* the group waits that go on, one on each queue.
THEOREM SemGroupDummies == Spec => []DummiesMatchWaits
<1>1. IInv => DummiesMatchWaits
  <2> SUFFICES ASSUME IInv, NEW t \in Thread, NEW s \in Sem
               PROVE  /\ Cardinality(Places(t, s, TRUE)) =
                           IF st[t].at = "group" /\ s \in st[t].list THEN 1 ELSE 0
                      /\ Cardinality(Places(t, s, FALSE)) =
                           IF st[t].at = "take" /\ s \in st[t].list THEN 1 ELSE 0
    BY DEF DummiesMatchWaits
  <2>1. wait_q[s] \in Seq(Node) /\ NoDup(wait_q[s])
    BY DEF IInv, TypeInv, QueueInv
  <2>2. /\ Places(t, s, TRUE) = {i \in 1..Len(wait_q[s]) : wait_q[s][i] = DummyNode(t)}
        /\ Places(t, s, FALSE) = {i \in 1..Len(wait_q[s]) : wait_q[s][i] = ThreadNode(t)}
    BY DEF Places, DummyNode, ThreadNode
  <2> DEFINE q == wait_q[s]
  <2>3. q \in Seq(Node) /\ NoDup(q)
    BY <2>1
  <2> HIDE DEF q
  <2>4. Cardinality(Places(t, s, TRUE)) = IF Linked(q, DummyNode(t)) THEN 1 ELSE 0
    <3>1. Places(t, s, TRUE) = {i \in 1..Len(q) : q[i] = DummyNode(t)}
      BY <2>2 DEF q
    <3>2. \A n : Cardinality({i \in 1..Len(q) : q[i] = n}) = IF Linked(q, n) THEN 1 ELSE 0
      BY <2>3, LinkedOnce
    <3> QED BY <3>1, <3>2
  <2>5. Cardinality(Places(t, s, FALSE)) = IF Linked(q, ThreadNode(t)) THEN 1 ELSE 0
    <3>1. Places(t, s, FALSE) = {i \in 1..Len(q) : q[i] = ThreadNode(t)}
      BY <2>2 DEF q
    <3>2. \A n : Cardinality({i \in 1..Len(q) : q[i] = n}) = IF Linked(q, n) THEN 1 ELSE 0
      BY <2>3, LinkedOnce
    <3> QED BY <3>1, <3>2
  <2> QED BY <2>4, <2>5 DEF IInv, QueueInv, q
<1> QED BY <1>1, SemGroupInvariant, PTL

(***************************************************************************)
(* The refinement                                                          *)
(***************************************************************************)

\* The variables of MultiWait.tla, as SemGroup.tla maps them
WantOf(r) == IF r.at \in {"take", "group"} THEN r.list ELSE {}
GotOf(r) == IF r.at = "woken" /\ r.ret = 0 THEN CHOOSE s \in r.list : TRUE ELSE NULL
want == [t \in Thread |-> WantOf(st[t])]
got == [t \in Thread |-> GotOf(st[t])]

\* The steps of MultiWait.tla in these variables
LEMMA Mapped ==
  /\ \A t \in Thread, s \in Sem :
       /\ Waits!Take(t, s) <=> /\ want[t] = {} /\ got[t] = NULL /\ count[s] > 0
                               /\ count' = [count EXCEPT ![s] = @ - 1]
                               /\ got' = [got EXCEPT ![t] = s] /\ want' = want
       /\ Waits!Grant(t, s) <=> /\ s \in want[t] /\ got' = [got EXCEPT ![t] = s]
                                /\ want' = [want EXCEPT ![t] = {}] /\ count' = count
  /\ \A t \in Thread :
       /\ \A S : Waits!Wait(t, S) <=>
                   /\ want[t] = {} /\ got[t] = NULL /\ \A s \in S : count[s] = 0
                   /\ want' = [want EXCEPT ![t] = S] /\ count' = count /\ got' = got
       /\ Waits!TimeOut(t) <=> want' = [want EXCEPT ![t] = {}] /\ count' = count /\ got' = got
       /\ Waits!Return(t) <=> got' = [got EXCEPT ![t] = NULL] /\ count' = count /\ want' = want
  /\ \A s \in Sem :
       Waits!Count(s) <=> /\ \A t \in Thread : s \notin want[t]
                          /\ count[s] < SemLimit /\ count' = [count EXCEPT ![s] = @ + 1]
                          /\ want' = want /\ got' = got
  /\ \A S : Waits!Reset(S) <=> /\ count' = [s \in Sem |-> IF s \in S THEN 0 ELSE count[s]]
                               /\ want' = want /\ got' = got
  /\ UNCHANGED Waits!vars <=> count' = count /\ want' = want /\ got' = got
BY DEF want, got, WantOf, GotOf, Granted, Waits!Take, Waits!Grant, Waits!Wait, Waits!TimeOut,
       Waits!Return, Waits!Count, Waits!Reset, Waits!Idle, Waits!vars

\* A step that gives thread t another state and leaves the others alone moves want and
\* got in t alone.
LEMMA MappedStep ==
  ASSUME TypeInv, NEW t \in Thread, NEW r, st' = [st EXCEPT ![t] = r]
  PROVE  /\ want' = [want EXCEPT ![t] = WantOf(r)]
         /\ got' = [got EXCEPT ![t] = GotOf(r)]
BY DEF TypeInv, want, got

LEMMA MappedInit == Init => Waits!Init
BY DEF Init, Waits!Init, Running, Granted
\* What the two variables hold in the states a thread goes through
LEMMA MappedStates ==
  /\ WantOf(Running) = {} /\ GotOf(Running) = NULL
  /\ \A s : WantOf(Woken({s}, 0)) = {} /\ GotOf(Woken({s}, 0)) = s
  /\ WantOf(Woken({}, EAGAIN)) = {} /\ GotOf(Woken({}, EAGAIN)) = NULL
  /\ \A S : /\ WantOf([at |-> "take", list |-> S, ret |-> 0]) = S
            /\ GotOf([at |-> "take", list |-> S, ret |-> 0]) = NULL
            /\ WantOf([at |-> "group", list |-> S, ret |-> 0]) = S
            /\ GotOf([at |-> "group", list |-> S, ret |-> 0]) = NULL
<1>1. \A s : (CHOOSE x \in {s} : TRUE) = s
  OBVIOUS
<1> QED BY <1>1 DEF WantOf, GotOf, Running, Woken, EAGAIN

\* A give is a Count, nothing at all at the limit, or a Grant to the first thread in line.
LEMMA MappedGive ==
  ASSUME IInv, NEW s \in Sem, sem_give_common(s)
  PROVE  Waits!Count(s) \/ (\E t \in Thread : Waits!Grant(t, s)) \/ UNCHANGED Waits!vars
<1>1. CASE wait_q[s] = << >>
  <2>1. ASSUME NEW t \in Thread PROVE s \notin want[t]
    <3>1. \A x : ~Linked(wait_q[s], x)
      BY <1>1 DEF Linked
    <3>2. ~(st[t].at = "group" /\ s \in st[t].list) /\ ~(st[t].at = "take" /\ s \in st[t].list)
      BY <3>1 DEF IInv, QueueInv
    <3> QED BY <3>2 DEF want, WantOf
  <2>2. /\ count' = [count EXCEPT ![s] = IF @ = SemLimit THEN @ ELSE @ + 1]
        /\ UNCHANGED st
    BY <1>1 DEF sem_give_common
  <2>3. want' = want /\ got' = got
    BY <2>2 DEF want, got
  <2>4. CASE count[s] = SemLimit
    <3>1. count' = count
      BY <2>2, <2>4 DEF IInv, TypeInv
    <3> QED BY <3>1, <2>3, Mapped
  <2>5. CASE count[s] # SemLimit
    <3>1. count[s] < SemLimit
      BY <2>5, SemGroupAssumption DEF IInv, TypeInv
    <3>2. count' = [count EXCEPT ![s] = @ + 1]
      BY <2>2, <2>5
    <3> QED BY <3>1, <3>2, <2>1, <2>3, Mapped
  <2> QED BY <2>4, <2>5
<1>2. CASE wait_q[s] # << >>
  <2> DEFINE w == Head(wait_q[s])
             t == w.thread
  <2>1. w \in Node /\ Linked(wait_q[s], w)
    BY <1>2, TailProps DEF IInv, TypeInv, QueueInv
  <2>2. UNCHANGED count /\ st' = [st EXCEPT ![t] = Woken({s}, 0)]
    BY <1>2 DEF sem_give_common, handle_sem_group
  <2> HIDE DEF w
  <2>3. t \in Thread /\ (w = DummyNode(t) \/ w = ThreadNode(t))
    BY <2>1, NodeProps
  <2>4. st[t].at \in {"take", "group"} /\ s \in st[t].list
    BY <2>1, <2>3 DEF IInv, QueueInv
  <2>5. s \in want[t]
    BY <2>3, <2>4 DEF want, WantOf
  <2> HIDE DEF t
  <2>6. want' = [want EXCEPT ![t] = {}] /\ got' = [got EXCEPT ![t] = s]
    <3>1. want' = [want EXCEPT ![t] = WantOf(Woken({s}, 0))] /\ got' = [got EXCEPT ![t] = GotOf(Woken({s}, 0))]
      BY <2>2, <2>3, MappedStep DEF IInv
    <3> QED BY <3>1, MappedStates
  <2> QED BY <2>2, <2>3, <2>5, <2>6, Mapped
<1> QED BY <1>1, <1>2

LEMMA MappedNext == IInv /\ [Next]_vars => [Waits!Next]_(Waits!vars)
<1> SUFFICES ASSUME IInv, [Next]_vars PROVE Waits!Next \/ UNCHANGED Waits!vars
  OBVIOUS
<1>1. ASSUME NEW t \in Thread, NEW a \in SemArray, take_available(t, a)
      PROVE  \E s \in Sem : Waits!Take(t, s)
  <2> DEFINE s == FirstAvailable(a)
  <2>1. s \in Sem /\ count[s] > 0
    BY <1>1, ArrayProps DEF take_available, IInv
  <2>2. /\ count' = [count EXCEPT ![s] = @ - 1]
        /\ st' = [st EXCEPT ![t] = Woken({s}, 0)] /\ st[t] = Running
    BY <1>1 DEF take_available
  <2> HIDE DEF s
  <2>3. want' = [want EXCEPT ![t] = {}] /\ got' = [got EXCEPT ![t] = s]
    <3>1. want' = [want EXCEPT ![t] = WantOf(Woken({s}, 0))] /\ got' = [got EXCEPT ![t] = GotOf(Woken({s}, 0))]
      BY <2>2, MappedStep DEF IInv
    <3> QED BY <3>1, MappedStates
  <2>4. want[t] = {} /\ got[t] = NULL
    BY <2>2, MappedStates DEF want, got
  <2>5. want' = want
    BY <2>3, <2>4 DEF want
  <2> QED BY <2>1, <2>2, <2>3, <2>4, <2>5, Mapped
<1>2. ASSUME NEW t \in Thread, NEW S \in SUBSET Sem, NEW r, \A s \in S : count[s] = 0,
             WantOf(r) = S, GotOf(r) = NULL,
             st[t] = Running, st' = [st EXCEPT ![t] = r], UNCHANGED count
      PROVE  Waits!Wait(t, S)
  <2>1. want' = [want EXCEPT ![t] = S] /\ got' = [got EXCEPT ![t] = NULL]
    BY <1>2, MappedStep DEF IInv
  <2>2. want[t] = {} /\ got[t] = NULL
    BY <1>2, MappedStates DEF want, got
  <2>3. got' = got
    BY <2>1, <2>2 DEF got
  <2> QED BY <1>2, <2>1, <2>2, <2>3, Mapped
<1>3. ASSUME NEW t \in Thread, NEW s \in Sem, k_sem_take(t, s)
      PROVE  \E S \in SUBSET Sem : Waits!Wait(t, S)
  <2> DEFINE r == [at |-> "take", list |-> {s}, ret |-> 0]
  <2>1. /\ {s} \in SUBSET Sem /\ \A x \in {s} : count[x] = 0
        /\ st[t] = Running /\ st' = [st EXCEPT ![t] = r] /\ UNCHANGED count
    BY <1>3 DEF k_sem_take
  <2>2. WantOf(r) = {s} /\ GotOf(r) = NULL
    BY MappedStates
  <2> HIDE DEF r
  <2>3. Waits!Wait(t, {s})
    BY <2>1, <2>2, <1>2
  <2> QED BY <2>1, <2>3
<1>4. ASSUME NEW t \in Thread, NEW a \in SemArray, k_sem_group_take(t, a)
      PROVE  \E S \in SUBSET Sem : Waits!Wait(t, S)
  <2> DEFINE S == Members(a)
             r == [at |-> "group", list |-> S, ret |-> 0]
  <2>1. /\ S \in SUBSET Sem /\ \A x \in S : count[x] = 0
        /\ st[t] = Running /\ st' = [st EXCEPT ![t] = r] /\ UNCHANGED count
    BY <1>4, ArrayProps DEF k_sem_group_take, IInv
  <2>2. WantOf(r) = S /\ GotOf(r) = NULL
    BY MappedStates
  <2> HIDE DEF r, S
  <2>3. Waits!Wait(t, S)
    BY <2>1, <2>2, <1>2
  <2> QED BY <2>1, <2>3
<1>5. ASSUME NEW s \in Sem, sem_give_common(s) PROVE Waits!Next \/ UNCHANGED Waits!vars
  BY <1>5, MappedGive DEF Waits!Next
<1>6. ASSUME NEW s \in Sem, k_sem_give(s) PROVE Waits!Next \/ UNCHANGED Waits!vars
  BY <1>5, <1>6 DEF k_sem_give
<1>7. ASSUME group_give_next PROVE Waits!Next \/ UNCHANGED Waits!vars
  <2>1. Head(giving) \in Sem /\ sem_give_common(Head(giving))
    BY <1>7 DEF group_give_next, Locked, IInv, TypeInv
  <2> QED BY <1>5, <2>1
<1>8. ASSUME UNCHANGED <<count, st>> PROVE UNCHANGED Waits!vars
  <2>1. want' = want /\ got' = got
    BY <1>8 DEF want, got
  <2> QED BY <1>8, <2>1, Mapped
<1>9. ASSUME NEW a \in SemArray, k_sem_group_reset(a) PROVE Waits!Reset(Members(a)) /\ Members(a) \in SUBSET Sem
  <2>1. want' = want /\ got' = got
    BY <1>9 DEF k_sem_group_reset, want, got
  <2>2. Waits!Reset(Members(a))
    BY <1>9, <2>1, Mapped DEF k_sem_group_reset
  <2> QED BY <2>2, ArrayProps DEF IInv
<1>10. ASSUME NEW t \in Thread, times_out(t) PROVE Waits!TimeOut(t)
  <2>1. st' = [st EXCEPT ![t] = Woken({}, EAGAIN)] /\ UNCHANGED count /\ st[t].at \in {"take", "group"}
    BY <1>10 DEF times_out
  <2>2. want' = [want EXCEPT ![t] = {}] /\ got' = [got EXCEPT ![t] = NULL]
    <3>1. want' = [want EXCEPT ![t] = WantOf(Woken({}, EAGAIN))] /\ got' = [got EXCEPT ![t] = GotOf(Woken({}, EAGAIN))]
      BY <2>1, MappedStep DEF IInv
    <3> QED BY <3>1, MappedStates
  <2>3. got[t] = NULL
    BY <2>1 DEF got, GotOf
  <2>4. got' = got
    BY <2>2, <2>3 DEF got
  <2> QED BY <2>1, <2>2, <2>4, Mapped
<1>11. ASSUME NEW t \in Thread, return(t) PROVE Waits!Return(t)
  <2>1. st' = [st EXCEPT ![t] = Running] /\ UNCHANGED count /\ st[t].at = "woken"
    BY <1>11 DEF return
  <2>2. want' = [want EXCEPT ![t] = {}] /\ got' = [got EXCEPT ![t] = NULL]
    <3>1. want' = [want EXCEPT ![t] = WantOf(Running)] /\ got' = [got EXCEPT ![t] = GotOf(Running)]
      BY <2>1, MappedStep DEF IInv
    <3> QED BY <3>1, MappedStates
  <2>3. want[t] = {}
    BY <2>1 DEF want, WantOf
  <2>4. want' = want
    BY <2>2, <2>3 DEF want
  <2> QED BY <2>1, <2>2, <2>4, Mapped
<1>12. ASSUME NEW a \in SemArray, k_sem_group_give(a) PROVE UNCHANGED <<count, st>>
  BY <1>12 DEF k_sem_group_give
<1>13. CASE UNCHANGED vars
  BY <1>8, <1>13 DEF vars
<1>14. CASE Next
  BY <1>14, <1>1, <1>3, <1>4, <1>6, <1>7, <1>8, <1>9, <1>10, <1>11, <1>12 DEF Next, Waits!Next
<1> QED BY <1>13, <1>14

\* ImplementsMultiWait (run SemGroup): with its dummies, queues and one-at-a-time gives,
\* sem.c implements waits for sets of semaphores: a give is counted only when nobody waits
\* for that semaphore, and else ends the whole wait of one thread that does.
THEOREM SemGroupRefines == Spec => ImplementsMultiWait
<1> QED BY MappedInit, MappedNext, SemGroupInvariant, PTL DEF Spec, Waits!Spec, ImplementsMultiWait
=============================================================================
