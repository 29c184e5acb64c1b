---------------------------- MODULE QueuesProofs ----------------------------
(***************************************************************************)
(* Proofs about the data passing objects.  Each operation is first reduced *)
(* to what it does to the content of the object, to the wait queue and to  *)
(* what each thread holds; the invariants follow from these effects, and   *)
(* so does the implementation of Channel.tla.                              *)
(***************************************************************************)
EXTENDS Queues, DListProofs

(***************************************************************************)
(* The content of the object                                               *)
(***************************************************************************)

Reversed(s) == [i \in 1..Len(s) |-> s[Len(s) + 1 - i]]

Messages(r) == [i \in 1..r.used_msgs |-> Message(r, i)]

RingState == [buf : [0..(MaxMsgs - 1) -> Item \cup {NULL}], read_ptr : 0..(MaxMsgs - 1),
              write_ptr : 0..(MaxMsgs - 1), used_msgs : 0..MaxMsgs]

\* The ring buffers of the message queue: the write pointer is used_msgs entries
\* behind the read pointer, and the entries in use hold messages.
RingOK(r) ==
  /\ r \in RingState
  /\ r.write_ptr = IF r.read_ptr + r.used_msgs < MaxMsgs THEN r.read_ptr + r.used_msgs
                   ELSE r.read_ptr + r.used_msgs - MaxMsgs
  /\ \A i \in 1..r.used_msgs : Message(r, i) \in Item

\* What a put does to the content of the object: Added() of Channel.tla
AddedTo(k, c, xs) == IF k \in {"lifo", "stack", "slab"} THEN xs \o c ELSE c \o xs

\* The content is the list, the list backwards or the ring buffer.
LEMMA ContentCases ==
  /\ kind = "msgq" => Content = Messages(ring)
  /\ kind = "stack" => Content = Reversed(list)
  /\ kind \notin {"msgq", "stack"} => Content = list
BY DEF Content, Messages, Reversed

\* A list backwards
LEMMA ReversedProps ==
  ASSUME NEW T, NEW s \in Seq(T)
  PROVE  /\ Reversed(s) \in Seq(T) /\ Len(Reversed(s)) = Len(s)
         /\ \A i \in 1..Len(s) : Reversed(s)[i] = s[Len(s) + 1 - i]
         /\ Reversed(s) = << >> <=> s = << >>
<1>1. Len(s) \in Nat /\ \A i \in 1..Len(s) : s[i] \in T /\ s[Len(s) + 1 - i] \in T
  BY LenProperties, ElementOfSeq
<1>2. Reversed(s) \in [1..Len(s) -> T]
  BY <1>1 DEF Reversed
<1>3. Reversed(s) \in Seq(T) /\ Len(Reversed(s)) = Len(s)
  BY <1>1, <1>2, FunctionIsSeq
<1>4. \A i \in 1..Len(s) : Reversed(s)[i] = s[Len(s) + 1 - i]
  BY DEF Reversed
<1>5. Reversed(s) = << >> <=> s = << >>
  BY <1>1, <1>3, EmptySeq
<1> QED BY <1>3, <1>4, <1>5

\* k_stack_push(): what is appended to the list is the first of the content.
LEMMA ReversedPush ==
  ASSUME NEW T, NEW s \in Seq(T), NEW x \in T
  PROVE  Reversed(Append(s, x)) = <<x>> \o Reversed(s)
<1> DEFINE u == Append(s, x)
           o == <<x>>
           r == Reversed(s)
<1>1. /\ u \in Seq(T) /\ Len(u) = Len(s) + 1 /\ Len(s) \in Nat
      /\ \A i \in 1..Len(s) : u[i] = s[i]
      /\ u[Len(s) + 1] = x
  BY AppendProperties, LenProperties
<1>2. o \in Seq(T) /\ Len(o) = 1 /\ o[1] = x
  OBVIOUS
<1>3. /\ r \in Seq(T) /\ Len(r) = Len(s)
      /\ \A i \in 1..Len(s) : r[i] = s[Len(s) + 1 - i]
  BY ReversedProps
<1> SUFFICES Reversed(u) = o \o r
  OBVIOUS
<1> HIDE DEF o, u, r
<1>4. /\ Reversed(u) \in Seq(T) /\ Len(Reversed(u)) = Len(s) + 1
      /\ \A i \in 1..(Len(s) + 1) : Reversed(u)[i] = u[Len(s) + 2 - i]
  <2>1. /\ Reversed(u) \in Seq(T) /\ Len(Reversed(u)) = Len(u)
        /\ \A i \in 1..Len(u) : Reversed(u)[i] = u[Len(u) + 1 - i]
    BY <1>1, ReversedProps
  <2> QED BY <1>1, <2>1
<1>5. /\ o \o r \in Seq(T) /\ Len(o \o r) = Len(s) + 1
      /\ \A i \in 1..(Len(s) + 1) : (o \o r)[i] = IF i <= 1 THEN o[i] ELSE r[i - 1]
  <2> o \in Seq(T) /\ r \in Seq(T)
    BY <1>2, <1>3
  <2>1. /\ o \o r \in Seq(T) /\ Len(o \o r) = Len(o) + Len(r)
        /\ \A i \in 1..(Len(o) + Len(r)) :
             (o \o r)[i] = IF i <= Len(o) THEN o[i] ELSE r[i - Len(o)]
    BY ConcatProperties
  <2>2. Len(o) + Len(r) = Len(s) + 1
    BY <1>1, <1>2, <1>3
  <2> QED BY <1>2, <2>1, <2>2
<1>6. ASSUME NEW i \in 1..(Len(s) + 1) PROVE Reversed(u)[i] = (o \o r)[i]
  <2>1. CASE i = 1
    BY <1>1, <1>2, <1>4, <1>5, <2>1, SMTT(60)
  <2>2. CASE i # 1
    <3>1. (o \o r)[i] = r[i - 1] /\ i - 1 \in 1..Len(s)
      BY <1>1, <1>5, <2>2
    <3>2. r[i - 1] = s[Len(s) + 2 - i] /\ Len(s) + 2 - i \in 1..Len(s)
      BY <1>1, <1>3, <3>1
    <3> QED BY <1>1, <1>4, <3>1, <3>2
  <2> QED BY <2>1, <2>2
<1> QED BY <1>1, <1>4, <1>5, <1>6, SeqEqual

\* k_stack_pop(): the last of the list is the first of the content.
LEMMA ReversedPop ==
  ASSUME NEW T, NEW s \in Seq(T), s # << >>
  PROVE  /\ Head(Reversed(s)) = s[Len(s)]
         /\ SubSeq(s, 1, Len(s) - 1) \in Seq(T)
         /\ Reversed(SubSeq(s, 1, Len(s) - 1)) = Tail(Reversed(s))
<1> DEFINE n == Len(s) - 1
           u == SubSeq(s, 1, n)
           r == Reversed(s)
<1>1. Len(s) \in Nat /\ Len(s) >= 1 /\ n \in Nat /\ \A i \in 1..Len(s) : s[i] \in T
  BY LenProperties, EmptySeq, ElementOfSeq
<1>2. u \in Seq(T) /\ Len(u) = n /\ \A i \in 1..n : u[i] = s[i]
  <2>1. n \in Int /\ 1 \in Int /\ \A i \in 1..n : s[i] \in T
    BY <1>1
  <2> HIDE DEF n
  <2>2. /\ u \in Seq(T) /\ Len(u) = (IF 1 <= n THEN n - 1 + 1 ELSE 0)
        /\ \A i \in 1..(n - 1 + 1) : u[i] = s[1 + i - 1]
    BY <2>1, SubSeqProperties
  <2> QED BY <1>1, <2>2
<1>3. /\ r \in Seq(T) /\ Len(r) = Len(s) /\ r # << >>
      /\ \A i \in 1..Len(s) : r[i] = s[Len(s) + 1 - i]
  BY ReversedProps
<1> SUFFICES Head(r) = s[Len(s)] /\ u \in Seq(T) /\ Reversed(u) = Tail(r)
  OBVIOUS
<1> HIDE DEF u, r
<1>4. /\ Reversed(u) \in Seq(T) /\ Len(Reversed(u)) = n
      /\ \A i \in 1..n : Reversed(u)[i] = u[n + 1 - i]
  BY <1>1, <1>2, ReversedProps
<1>5. /\ Tail(r) \in Seq(T) /\ Len(Tail(r)) = n
      /\ \A i \in 1..n : Tail(r)[i] = r[i + 1]
  BY <1>3, HeadTailProperties
<1>6. ASSUME NEW i \in 1..n PROVE Reversed(u)[i] = Tail(r)[i]
  <2>1. Reversed(u)[i] = s[n + 1 - i]
    BY <1>1, <1>2, <1>4
  <2>2. Tail(r)[i] = s[n + 1 - i]
    BY <1>1, <1>3, <1>5
  <2> QED BY <2>1, <2>2
<1>7. Reversed(u) = Tail(r)
  BY <1>1, <1>4, <1>5, <1>6, SeqEqual
<1>8. Head(r) = s[Len(s)]
  BY <1>1, <1>3
<1> QED BY <1>2, <1>7, <1>8

(***************************************************************************)
(* The ring buffer                                                         *)
(***************************************************************************)

\* The messages of a ring buffer are a sequence of items, as many as it counts.
LEMMA MessagesProps ==
  ASSUME NEW r, RingOK(r)
  PROVE  /\ Messages(r) \in Seq(Item) /\ Len(Messages(r)) = r.used_msgs
         /\ r.used_msgs \in 0..MaxMsgs
         /\ \A i \in 1..r.used_msgs : Messages(r)[i] = Message(r, i)
         /\ Messages(r) = << >> <=> r.used_msgs = 0
<1>1. r.used_msgs \in 0..MaxMsgs /\ r.used_msgs \in Nat
  BY QueuesAssumption DEF RingOK, RingState
<1>2. \A i \in 1..r.used_msgs : Messages(r)[i] = Message(r, i)
  BY DEF Messages
<1>3. Messages(r) \in [1..r.used_msgs -> Item]
  BY <1>1 DEF Messages, RingOK
<1>4. Messages(r) \in Seq(Item) /\ Len(Messages(r)) = r.used_msgs
  BY <1>1, <1>3, FunctionIsSeq
<1>5. Messages(r) = << >> <=> r.used_msgs = 0
  BY <1>1, <1>4, EmptySeq
<1> QED BY <1>1, <1>2, <1>4, <1>5

\* k_msgq_put(): the message goes behind the others, without overwriting one.
LEMMA WrittenProps ==
  ASSUME NEW r, RingOK(r), r.used_msgs < MaxMsgs, NEW x \in Item
  PROVE  /\ RingOK(Written(r, x)) /\ Written(r, x).used_msgs = r.used_msgs + 1
         /\ Messages(Written(r, x)) = Append(Messages(r), x)
<1> DEFINE w == Written(r, x)
<1>1. /\ MaxMsgs \in Nat /\ MaxMsgs >= 1
      /\ r \in RingState
      /\ r.read_ptr \in 0..(MaxMsgs - 1) /\ r.write_ptr \in 0..(MaxMsgs - 1)
      /\ r.used_msgs \in Nat /\ r.buf \in [0..(MaxMsgs - 1) -> Item \cup {NULL}]
  BY QueuesAssumption DEF RingOK, RingState
<1>2. w = [buf |-> [r.buf EXCEPT ![r.write_ptr] = x], read_ptr |-> r.read_ptr,
           write_ptr |-> Bump(r.write_ptr), used_msgs |-> r.used_msgs + 1]
  BY DEF Written
<1>3. /\ w.read_ptr = r.read_ptr /\ w.write_ptr = Bump(r.write_ptr)
      /\ w.used_msgs = r.used_msgs + 1 /\ w.buf = [r.buf EXCEPT ![r.write_ptr] = x]
  BY <1>2
<1>4. w \in RingState
  BY <1>1, <1>2 DEF RingState, Bump
<1> HIDE DEF w
<1>5. w.write_ptr = IF w.read_ptr + w.used_msgs < MaxMsgs THEN w.read_ptr + w.used_msgs
                    ELSE w.read_ptr + w.used_msgs - MaxMsgs
  <2>1. r.write_ptr = IF r.read_ptr + r.used_msgs < MaxMsgs THEN r.read_ptr + r.used_msgs
                      ELSE r.read_ptr + r.used_msgs - MaxMsgs
    BY DEF RingOK
  <2> QED BY <1>1, <1>3, <2>1, SMTT(60) DEF Bump
<1>6. ASSUME NEW i \in 1..r.used_msgs PROVE Message(w, i) = Message(r, i)
  <2> DEFINE p == r.read_ptr + i - 1
             k == IF p < MaxMsgs THEN p ELSE p - MaxMsgs
  <2>1. r.write_ptr = IF r.read_ptr + r.used_msgs < MaxMsgs THEN r.read_ptr + r.used_msgs
                      ELSE r.read_ptr + r.used_msgs - MaxMsgs
    BY DEF RingOK
  <2>2. k \in 0..(MaxMsgs - 1) /\ k # r.write_ptr
    BY <1>1, <2>1, SMTT(60)
  <2>3. Message(r, i) = r.buf[k] /\ Message(w, i) = w.buf[k]
    BY <1>3 DEF Message
  <2> HIDE DEF k
  <2> QED BY <1>1, <1>3, <2>2, <2>3
<1>7. Message(w, r.used_msgs + 1) = x
  BY <1>1, <1>3 DEF RingOK, Message
<1>8. RingOK(w)
  <2>1. ASSUME NEW i \in 1..w.used_msgs PROVE Message(w, i) \in Item
    <3>1. i \in 1..r.used_msgs \/ i = r.used_msgs + 1
      BY <1>1, <1>3
    <3>2. \A j \in 1..r.used_msgs : Message(r, j) \in Item
      BY DEF RingOK
    <3> QED BY <1>6, <1>7, <3>1, <3>2
  <2> QED BY <1>4, <1>5, <2>1 DEF RingOK
<1>9. /\ Messages(w) \in Seq(Item) /\ Len(Messages(w)) = r.used_msgs + 1
      /\ \A i \in 1..(r.used_msgs + 1) : Messages(w)[i] = Message(w, i)
  BY <1>3, <1>8, MessagesProps
<1>10. /\ Messages(r) \in Seq(Item) /\ Len(Messages(r)) = r.used_msgs
       /\ \A i \in 1..r.used_msgs : Messages(r)[i] = Message(r, i)
  BY MessagesProps
<1> DEFINE m == Messages(r)
           n == Messages(w)
<1> HIDE DEF m, n
<1>11. /\ Append(m, x) \in Seq(Item) /\ Len(Append(m, x)) = Len(m) + 1
       /\ \A i \in 1..Len(m) : Append(m, x)[i] = m[i]
       /\ Append(m, x)[Len(m) + 1] = x
  BY <1>10, AppendProperties DEF m
<1>12. \A i \in 1..(r.used_msgs + 1) : n[i] = Append(m, x)[i]
  BY <1>1, <1>6, <1>7, <1>9, <1>10, <1>11 DEF m, n
<1>13. n = Append(m, x)
  BY <1>1, <1>9, <1>10, <1>11, <1>12, SeqEqual DEF m, n
<1> QED BY <1>3, <1>8, <1>13 DEF w, m, n

\* k_msgq_get(): the first message leaves.
LEMMA ConsumedProps ==
  ASSUME NEW r, RingOK(r), r.used_msgs > 0
  PROVE  /\ RingOK(Consumed(r)) /\ Consumed(r).used_msgs = r.used_msgs - 1
         /\ Messages(r) # << >> /\ Head(Messages(r)) = r.buf[r.read_ptr]
         /\ Messages(Consumed(r)) = Tail(Messages(r))
<1> DEFINE w == Consumed(r)
<1>1. /\ MaxMsgs \in Nat /\ MaxMsgs >= 1
      /\ r \in RingState
      /\ r.read_ptr \in 0..(MaxMsgs - 1) /\ r.write_ptr \in 0..(MaxMsgs - 1)
      /\ r.used_msgs \in 1..MaxMsgs /\ r.buf \in [0..(MaxMsgs - 1) -> Item \cup {NULL}]
  BY QueuesAssumption DEF RingOK, RingState
<1>2. w = [buf |-> r.buf, read_ptr |-> Bump(r.read_ptr),
           write_ptr |-> r.write_ptr, used_msgs |-> r.used_msgs - 1]
  BY DEF Consumed
<1>3. /\ w.read_ptr = Bump(r.read_ptr) /\ w.write_ptr = r.write_ptr
      /\ w.used_msgs = r.used_msgs - 1 /\ w.buf = r.buf
  BY <1>2
<1>4. w \in RingState
  BY <1>1, <1>2 DEF RingState, Bump
<1> HIDE DEF w
<1>5. w.write_ptr = IF w.read_ptr + w.used_msgs < MaxMsgs THEN w.read_ptr + w.used_msgs
                    ELSE w.read_ptr + w.used_msgs - MaxMsgs
  BY <1>1, <1>3, SMTT(60) DEF RingOK, Bump
<1>6. ASSUME NEW i \in 1..(r.used_msgs - 1) PROVE Message(w, i) = Message(r, i + 1)
  <2> DEFINE p == r.read_ptr + i
             k == IF p < MaxMsgs THEN p ELSE p - MaxMsgs
             q == w.read_ptr + i - 1
             l == IF q < MaxMsgs THEN q ELSE q - MaxMsgs
  <2>1. k = l
    BY <1>1, <1>3 DEF Bump
  <2>2. r.read_ptr + (i + 1) - 1 = p
    BY <1>1
  <2>3. Message(r, i + 1) = r.buf[k]
    BY <2>2 DEF Message
  <2>4. Message(w, i) = w.buf[l]
    BY DEF Message
  <2> QED BY <1>3, <2>1, <2>3, <2>4
<1>7. RingOK(w)
  BY <1>1, <1>3, <1>4, <1>5, <1>6, SMTT(60) DEF RingOK, RingState
<1>8. /\ Messages(w) \in Seq(Item) /\ Len(Messages(w)) = r.used_msgs - 1
      /\ \A i \in 1..(r.used_msgs - 1) : Messages(w)[i] = Message(w, i)
  BY <1>3, <1>7, MessagesProps
<1>9. /\ Messages(r) \in Seq(Item) /\ Len(Messages(r)) = r.used_msgs
      /\ \A i \in 1..r.used_msgs : Messages(r)[i] = Message(r, i)
      /\ Messages(r) # << >>
  BY <1>1, MessagesProps
<1> DEFINE m == Messages(r)
           n == Messages(w)
<1> HIDE DEF m, n
<1>10. /\ Tail(m) \in Seq(Item) /\ Len(Tail(m)) = r.used_msgs - 1 /\ Head(m) = m[1]
       /\ \A i \in 1..(r.used_msgs - 1) : Tail(m)[i] = m[i + 1]
  BY <1>9, HeadTailProperties DEF m
<1>11. \A i \in 1..(r.used_msgs - 1) : n[i] = Tail(m)[i]
  BY <1>1, <1>6, <1>8, <1>9, <1>10 DEF m, n
<1>12. n = Tail(m)
  BY <1>1, <1>8, <1>9, <1>10, <1>11, SeqEqual DEF m, n
<1>13. Head(m) = r.buf[r.read_ptr]
  BY <1>1, <1>9, <1>10 DEF m, Message
<1> QED BY <1>3, <1>7, <1>9, <1>12, <1>13 DEF w, m, n

\* k_msgq_purge(): nothing is left.
LEMMA PurgedProps ==
  ASSUME NEW r, RingOK(r)
  PROVE  RingOK(Purged(r)) /\ Messages(Purged(r)) = << >>
<1> DEFINE w == Purged(r)
<1>1. MaxMsgs \in Nat /\ MaxMsgs >= 1 /\ r \in RingState
  BY QueuesAssumption DEF RingOK, RingState
<1>2. w = [buf |-> r.buf, read_ptr |-> r.write_ptr, write_ptr |-> r.write_ptr, used_msgs |-> 0]
  BY DEF Purged
<1> HIDE DEF w
<1>3. RingOK(w)
  BY <1>1, <1>2 DEF RingOK, RingState
<1>4. Messages(w) = << >>
  BY <1>2, <1>3, MessagesProps
<1> QED BY <1>3, <1>4 DEF w

(***************************************************************************)
(* The inductive invariant                                                 *)
(***************************************************************************)

ThreadState ==
  {Running} \cup {Waiting(x) : x \in Item \cup {NULL}}
            \cup {Woken(r, x) : r \in {OK, EAGAIN, ENOMSG}, x \in Item \cup {NULL}}

\* The states of a thread are told apart by where it is.
LEMMA StateProps ==
  /\ Running \in ThreadState /\ Running.at = "run"
  /\ \A x \in Item \cup {NULL} : Waiting(x) \in ThreadState
  /\ \A r \in {OK, EAGAIN, ENOMSG}, x \in Item \cup {NULL} : Woken(r, x) \in ThreadState
  /\ \A x : Waiting(x).at = "wait" /\ Waiting(x).item = x
  /\ \A r, x : Woken(r, x).at = "woken" /\ Woken(r, x).item = x /\ Woken(r, x).ret = r
  /\ \A s \in ThreadState : s.at # "run" => s.item \in Item \cup {NULL}
<1>1. Running.at = "run"
  BY DEF Running
<1>2. \A x : Waiting(x).at = "wait" /\ Waiting(x).item = x
  BY DEF Waiting
<1>3. \A r, x : Woken(r, x).at = "woken" /\ Woken(r, x).item = x /\ Woken(r, x).ret = r
  BY DEF Woken
<1>4. /\ Running \in ThreadState
      /\ \A x \in Item \cup {NULL} : Waiting(x) \in ThreadState
      /\ \A r \in {OK, EAGAIN, ENOMSG}, x \in Item \cup {NULL} : Woken(r, x) \in ThreadState
  BY DEF ThreadState
<1>5. \A s \in ThreadState : s.at # "run" => s.item \in Item \cup {NULL}
  BY <1>1, <1>2, <1>3 DEF ThreadState
<1> QED BY <1>1, <1>2, <1>3, <1>4, <1>5

Full == kind = "msgq" /\ ring.used_msgs = MaxMsgs

Holds(t, x) == st[t].at # "run" /\ st[t].item = x

\* Types, and the count of the slab
DataInv ==
  /\ kind \in AllKinds
  /\ list \in Seq(Item)
  /\ RingOK(ring)
  /\ num_used \in Int
  /\ prio \in [Thread -> Int]
  /\ kind = "slab" => num_used = Cardinality(Item) - Len(list)

WaitInv ==
  /\ wait_q \in Seq(Thread) /\ NoDup(wait_q)
  /\ st \in [Thread -> ThreadState]
  /\ \A t \in Thread : Linked(wait_q, t) <=> st[t].at = "wait"

\* Every item is in one place.
PlaceInv ==
  /\ app \in SUBSET Item
  /\ NoDup(Content)
  /\ \A x \in Item :
       /\ x \in app \/ Linked(Content, x) \/ \E t \in Thread : Holds(t, x)
       /\ ~(x \in app /\ Linked(Content, x))
       /\ \A t \in Thread : Holds(t, x) => x \notin app /\ ~Linked(Content, x)
       /\ \A t, u \in Thread : Holds(t, x) /\ Holds(u, x) => t = u

IInv == DataInv /\ WaitInv /\ PlaceInv /\ NobodyWaitsInVain

\* The content is a sequence of items, and is empty when nothing is stored.
LEMMA ContentType ==
  ASSUME DataInv
  PROVE  Content \in Seq(Item)
BY ContentCases, ReversedProps, MessagesProps DEF DataInv

(***************************************************************************)
(* What a step does to the threads and the items                           *)
(***************************************************************************)

\* The concatenation of two lists links the nodes of both.
LEMMA ConcatNodes ==
  ASSUME NEW T, NEW c \in Seq(T), NEW d \in Seq(T)
  PROVE  /\ \A x : Linked(c \o d, x) <=> Linked(c, x) \/ Linked(d, x)
         /\ NoDup(c) /\ NoDup(d) /\ (\A x : ~(Linked(c, x) /\ Linked(d, x))) => NoDup(c \o d)
<1>1. Len(c) \in Nat /\ Len(d) \in Nat
  BY LenProperties
<1>2. /\ Len(c \o d) = Len(c) + Len(d)
      /\ \A i \in 1..(Len(c) + Len(d)) :
           (c \o d)[i] = IF i <= Len(c) THEN c[i] ELSE d[i - Len(c)]
  BY ConcatProperties
<1> DEFINE e == c \o d
<1>3. /\ Len(e) = Len(c) + Len(d)
      /\ \A i \in 1..Len(c) : e[i] = c[i]
      /\ \A i \in 1..Len(d) : e[Len(c) + i] = d[i]
      /\ \A i \in 1..Len(e) : i \in 1..Len(c) \/ \E j \in 1..Len(d) : i = Len(c) + j
  <2>1. \A i \in 1..Len(c) : e[i] = c[i]
    BY <1>1, <1>2
  <2>2. ASSUME NEW i \in 1..Len(d) PROVE e[Len(c) + i] = d[i]
    <3>1. Len(c) + i \in 1..(Len(c) + Len(d)) /\ ~(Len(c) + i <= Len(c)) /\ Len(c) + i - Len(c) = i
      BY <1>1
    <3> QED BY <1>2, <3>1
  <2>3. ASSUME NEW i \in 1..Len(e), i \notin 1..Len(c) PROVE \E j \in 1..Len(d) : i = Len(c) + j
    <3>1. i - Len(c) \in 1..Len(d) /\ i = Len(c) + (i - Len(c))
      BY <1>1, <1>2, <2>3
    <3> QED BY <3>1
  <2> QED BY <1>2, <2>1, <2>2, <2>3
<1> HIDE DEF e
<1>4. \A x : Linked(e, x) <=> Linked(c, x) \/ Linked(d, x)
  <2>1. \A i \in 1..Len(c) : i \in 1..Len(e)
    BY <1>1, <1>3
  <2>2. \A i \in 1..Len(d) : Len(c) + i \in 1..Len(e)
    BY <1>1, <1>3
  <2> QED BY <1>3, <2>1, <2>2, ZenonT(60) DEF Linked
<1>5. ASSUME NoDup(c), NoDup(d), \A x : ~(Linked(c, x) /\ Linked(d, x)) PROVE NoDup(e)
  <2> SUFFICES ASSUME NEW i \in 1..Len(e), NEW j \in 1..Len(e), e[i] = e[j] PROVE i = j
    BY DEF NoDup
  <2>1. \A k \in 1..Len(c), l \in 1..Len(d) : c[k] # d[l]
    BY <1>5 DEF Linked
  <2>2. CASE i \in 1..Len(c) /\ j \in 1..Len(c)
    BY <1>3, <1>5, <2>2 DEF NoDup
  <2>3. CASE i \in 1..Len(c) /\ j \notin 1..Len(c)
    BY <1>3, <2>1, <2>3
  <2>4. CASE i \notin 1..Len(c) /\ j \in 1..Len(c)
    BY <1>3, <2>1, <2>4
  <2>5. CASE i \notin 1..Len(c) /\ j \notin 1..Len(c)
    BY <1>3, <1>5, <2>5 DEF NoDup
  <2> QED BY <2>2, <2>3, <2>4, <2>5
<1> QED BY <1>4, <1>5 DEF e

\* The nodes of a list without its first n, and of the first n
LEMMA DropNodes ==
  ASSUME NEW T, NEW s \in Seq(T), NEW n \in 0..Len(s), NoDup(s)
  PROVE  /\ SubSeq(s, n + 1, Len(s)) \in Seq(T) /\ NoDup(SubSeq(s, n + 1, Len(s)))
         /\ SubSeq(s, n + 1, Len(s)) = << >> <=> n = Len(s)
         /\ \A x : Linked(SubSeq(s, n + 1, Len(s)), x) <=> \E i \in (n + 1)..Len(s) : s[i] = x
         /\ \A x : Linked(s, x) <=> \/ \E i \in 1..n : s[i] = x
                                    \/ Linked(SubSeq(s, n + 1, Len(s)), x)
         /\ \A x : ~((\E i \in 1..n : s[i] = x) /\ Linked(SubSeq(s, n + 1, Len(s)), x))
<1> DEFINE m == Len(s)
           d == SubSeq(s, n + 1, m)
<1>1. m \in Nat /\ n \in Nat /\ n <= m /\ \A i \in 1..m : s[i] \in T
  BY LenProperties, ElementOfSeq
<1>2. d \in Seq(T) /\ Len(d) = m - n /\ \A i \in 1..(m - n) : d[i] = s[n + i]
  <2>1. n + 1 \in Int /\ m \in Int /\ \A i \in (n + 1)..m : s[i] \in T
    BY <1>1
  <2> HIDE DEF m
  <2>2. /\ d \in Seq(T) /\ Len(d) = (IF n + 1 <= m THEN m - (n + 1) + 1 ELSE 0)
        /\ \A i \in 1..(m - (n + 1) + 1) : d[i] = s[(n + 1) + i - 1]
    BY <2>1, SubSeqProperties
  <2>3. m - (n + 1) + 1 = m - n /\ \A i \in 1..(m - n) : (n + 1) + i - 1 = n + i
    BY <1>1
  <2> QED BY <1>1, <2>2, <2>3
<1> HIDE DEF d
<1>3. NoDup(d)
  BY <1>1, <1>2 DEF NoDup
<1>4. d = << >> <=> n = m
  BY <1>1, <1>2, EmptySeq
<1>5. ASSUME NEW x PROVE Linked(d, x) <=> \E i \in (n + 1)..m : s[i] = x
  <2>1. ASSUME NEW i \in (n + 1)..m, s[i] = x PROVE Linked(d, x)
    <3>1. i - n \in 1..(m - n) /\ n + (i - n) = i
      BY <1>1
    <3> QED BY <1>2, <2>1, <3>1 DEF Linked
  <2>2. ASSUME NEW i \in 1..(m - n), d[i] = x PROVE \E j \in (n + 1)..m : s[j] = x
    BY <1>1, <1>2, <2>2
  <2> QED BY <1>2, <2>1, <2>2 DEF Linked
<1>6. \A x : Linked(s, x) <=> (\E i \in 1..n : s[i] = x) \/ Linked(d, x)
  <2>1. \A i : i \in 1..m <=> i \in 1..n \/ i \in (n + 1)..m
    BY <1>1
  <2>2. \A x : Linked(s, x) <=> \E i \in 1..m : s[i] = x
    BY DEF Linked
  <2> QED BY <1>5, <2>1, <2>2
<1>7. \A x : ~((\E i \in 1..n : s[i] = x) /\ Linked(d, x))
  BY <1>1, <1>5 DEF NoDup
<1> QED BY <1>2, <1>3, <1>4, <1>5, <1>6, <1>7 DEF d, m

\* Hand(): the first threads of the wait queue leave it with an item each.
LEMMA HandProps ==
  ASSUME WaitInv, NEW xs \in Seq(Item), Hand(xs),
         NEW n, n = IF Len(wait_q) < Len(xs) THEN Len(wait_q) ELSE Len(xs)
  PROVE  /\ n \in 0..Len(wait_q) /\ n \in 0..Len(xs)
         /\ wait_q' \in Seq(Thread) /\ NoDup(wait_q')
         /\ wait_q' # << >> => n = Len(xs)
         /\ st' \in [Thread -> ThreadState]
         /\ \A t \in Thread : Linked(wait_q', t) <=>
              Linked(wait_q, t) /\ ~\E i \in 1..n : wait_q[i] = t
         /\ \A i \in 1..n : /\ wait_q[i] \in Thread /\ Linked(wait_q, wait_q[i])
                            /\ st'[wait_q[i]] = Woken(OK, xs[i])
         /\ \A t \in Thread : (\A i \in 1..n : wait_q[i] # t) => st'[t] = st[t]
<1>1. /\ Len(wait_q) \in Nat /\ Len(xs) \in Nat
      /\ \A i \in 1..Len(wait_q) : wait_q[i] \in Thread
      /\ \A i \in 1..Len(xs) : xs[i] \in Item
  BY LenProperties, ElementOfSeq DEF WaitInv
<1>2. n \in 0..Len(wait_q) /\ n \in 0..Len(xs)
  BY <1>1
<1>3. /\ wait_q' = SubSeq(wait_q, n + 1, Len(wait_q))
      /\ st' = [t \in Thread |->
                  IF \E i \in 1..n : wait_q[i] = t
                  THEN Woken(OK, xs[CHOOSE i \in 1..n : wait_q[i] = t]) ELSE st[t]]
  BY DEF Hand
<1>4. /\ wait_q' \in Seq(Thread) /\ NoDup(wait_q')
      /\ wait_q' = << >> <=> n = Len(wait_q)
      /\ \A t : Linked(wait_q, t) <=> (\E i \in 1..n : wait_q[i] = t) \/ Linked(wait_q', t)
      /\ \A t : ~((\E i \in 1..n : wait_q[i] = t) /\ Linked(wait_q', t))
  BY <1>2, <1>3, DropNodes, SMTT(60) DEF WaitInv
<1>5. wait_q' # << >> => n = Len(xs)
  BY <1>1, <1>4
<1>6. \A t \in Thread : Linked(wait_q', t) <=> Linked(wait_q, t) /\ ~\E i \in 1..n : wait_q[i] = t
  BY <1>4
<1>7. ASSUME NEW i \in 1..n
      PROVE  /\ wait_q[i] \in Thread /\ Linked(wait_q, wait_q[i])
             /\ st'[wait_q[i]] = Woken(OK, xs[i])
  <2>1. wait_q[i] \in Thread /\ Linked(wait_q, wait_q[i])
    BY <1>1, <1>2 DEF Linked
  <2>2. (CHOOSE j \in 1..n : wait_q[j] = wait_q[i]) = i
    BY <1>1, <1>2 DEF WaitInv, NoDup
  <2> QED BY <1>3, <2>1, <2>2
<1>8. \A t \in Thread : (\A i \in 1..n : wait_q[i] # t) => st'[t] = st[t]
  BY <1>3
<1>9. ASSUME NEW t \in Thread PROVE st'[t] \in ThreadState
  <2>1. CASE \A i \in 1..n : wait_q[i] # t
    BY <1>8, <2>1 DEF WaitInv
  <2>2. CASE \E i \in 1..n : wait_q[i] = t
    BY <1>1, <1>2, <1>7, <2>2, StateProps
  <2> QED BY <2>1, <2>2
<1>10. st' \in [Thread -> ThreadState]
  BY <1>3, <1>9
<1> QED BY <1>2, <1>4, <1>5, <1>6, <1>7, <1>8, <1>10

\* How many of the items xs are handed to waiting threads
Handed(xs) == IF Len(wait_q) < Len(xs) THEN Len(wait_q) ELSE Len(xs)

\* What the puts do
Sends(xs) ==
  /\ xs \in Seq(Item) /\ Len(xs) \in 1..2 /\ NoDup(xs)
  /\ \A x : Linked(xs, x) => x \in app
  /\ app' \in SUBSET Item /\ \A x \in Item : x \in app' <=> x \in app /\ ~Linked(xs, x)
  /\ ~Full
  /\ Hand(xs)
  /\ Content' = AddedTo(kind, Content, SubSeq(xs, Handed(xs) + 1, Len(xs)))
  /\ UNCHANGED <<kind, prio>>

\* What the gets do that find an item
Receives(t) ==
  /\ Content # << >> /\ wait_q = << >>
  /\ Got(t, Head(Content))
  /\ Content' = Tail(Content)
  /\ UNCHANGED <<kind, app, prio>>

\* k_msgq_get() with blocked senders
Refills(t) ==
  /\ Content # << >> /\ wait_q # << >> /\ Full /\ Full'
  /\ st[t] = Running
  /\ st' = [st EXCEPT ![t] = Woken(OK, Head(Content)), ![Head(wait_q)] = Woken(OK, NULL)]
  /\ wait_q' = Tail(wait_q) /\ arrived' = sys_dlist_remove(arrived, Head(wait_q))
  /\ Content' = Append(Tail(Content), st[Head(wait_q)].item)
  /\ UNCHANGED <<kind, app, prio>>

\* What the calls do that wait
Waits(t, x) ==
  /\ Pend(t, x)
  /\ IF x = NULL THEN app' = app /\ Content = << >> ELSE Give(x) /\ Content # << >> /\ Full
  /\ UNCHANGED <<kind, list, ring, prio>>

\* A put: the first waiting threads are handed the items, and what is left of them
\* is added to the content.
LEMMA SendStep ==
  ASSUME IInv, NEW xs, Sends(xs)
  PROVE  WaitInv' /\ PlaceInv' /\ NobodyWaitsInVain'
<1> xs \in Seq(Item) /\ NoDup(xs) /\ Hand(xs) /\ ~Full
  BY DEF Sends
<1> /\ \A x : Linked(xs, x) => x \in app
    /\ app' \in SUBSET Item /\ \A x \in Item : x \in app' <=> x \in app /\ ~Linked(xs, x)
  BY DEF Sends
<1> DEFINE n == Handed(xs)
<1>0. n = IF Len(wait_q) < Len(xs) THEN Len(wait_q) ELSE Len(xs)
  BY DEF Handed
<1> HIDE DEF n
<1> DEFINE rest == SubSeq(xs, n + 1, Len(xs))
           H(t, x) == \E i \in 1..n : wait_q[i] = t /\ xs[i] = x
<1>1. /\ n \in 0..Len(wait_q) /\ n \in 0..Len(xs)
      /\ wait_q' \in Seq(Thread) /\ NoDup(wait_q')
      /\ wait_q' # << >> => n = Len(xs)
      /\ st' \in [Thread -> ThreadState]
      /\ \A t \in Thread : Linked(wait_q', t) <=>
           Linked(wait_q, t) /\ ~\E i \in 1..n : wait_q[i] = t
      /\ \A i \in 1..n : /\ wait_q[i] \in Thread /\ Linked(wait_q, wait_q[i])
                         /\ st'[wait_q[i]] = Woken(OK, xs[i])
      /\ \A t \in Thread : (\A i \in 1..n : wait_q[i] # t) => st'[t] = st[t]
  BY <1>0, HandProps DEF IInv
<1>2. /\ rest \in Seq(Item) /\ NoDup(rest) /\ (rest = << >> <=> n = Len(xs))
      /\ \A x : Linked(xs, x) <=> (\E i \in 1..n : xs[i] = x) \/ Linked(rest, x)
      /\ \A x : ~((\E i \in 1..n : xs[i] = x) /\ Linked(rest, x))
  BY <1>1, DropNodes
<1>3. Content \in Seq(Item) /\ NoDup(Content)
  BY ContentType DEF IInv, PlaceInv
<1> HIDE DEF rest
<1>4. \A x : ~(Linked(Content, x) /\ Linked(rest, x))
  <2>1. \A x : Linked(rest, x) => x \in app /\ x \in Item
    BY <1>2 DEF IInv, PlaceInv
  <2> QED BY <2>1 DEF IInv, PlaceInv
<1>5. /\ NoDup(Content')
      /\ \A x : Linked(Content', x) <=> Linked(Content, x) \/ Linked(rest, x)
      /\ rest = << >> => Content' = Content
  <2>1. Content' = IF kind \in {"lifo", "stack", "slab"} THEN rest \o Content ELSE Content \o rest
    BY DEF Sends, AddedTo, rest, n
  <2>2. /\ \A x : Linked(rest \o Content, x) <=> Linked(Content, x) \/ Linked(rest, x)
        /\ NoDup(rest \o Content) /\ (rest = << >> => rest \o Content = Content)
    BY <1>2, <1>3, <1>4, ConcatNodes, ConcatEmptySeq
  <2>3. /\ \A x : Linked(Content \o rest, x) <=> Linked(Content, x) \/ Linked(rest, x)
        /\ NoDup(Content \o rest) /\ (rest = << >> => Content \o rest = Content)
    BY <1>2, <1>3, <1>4, ConcatNodes, ConcatEmptySeq
  <2> QED BY <2>1, <2>2, <2>3
<1>6. \A t \in Thread : Linked(wait_q, t) => st[t].item = NULL /\ st[t].at = "wait" /\ Content = << >>
  BY DEF IInv, NobodyWaitsInVain, WaitInv, Full
<1>7. \A t \in Thread, x \in Item : Holds(t, x)' <=> H(t, x) \/ Holds(t, x)
  <2> SUFFICES ASSUME NEW t \in Thread, NEW x \in Item PROVE Holds(t, x)' <=> H(t, x) \/ Holds(t, x)
    OBVIOUS
  <2>1. CASE \A i \in 1..n : wait_q[i] # t
    BY <1>1, <2>1 DEF Holds
  <2>2. CASE \E i \in 1..n : wait_q[i] = t
    <3>1. PICK i \in 1..n : wait_q[i] = t
      BY <2>2
    <3>2. st'[t].at = "woken" /\ st'[t].item = xs[i]
      BY <1>1, <3>1, StateProps
    <3>3. \A j \in 1..n : wait_q[j] = t => j = i
      <4>1. Len(wait_q) \in Nat /\ \A j, k \in 1..Len(wait_q) : wait_q[j] = wait_q[k] => j = k
        BY LenProperties DEF IInv, WaitInv, NoDup
      <4>2. \A j \in 1..n : j \in 1..Len(wait_q)
        BY <1>1, <4>1
      <4> QED BY <3>1, <4>1, <4>2
    <3>4. ~Holds(t, x)
      BY <1>1, <1>6, <3>1, QueuesAssumption DEF Holds
    <3>5. H(t, x) <=> xs[i] = x
      BY <3>1, <3>3
    <3> QED BY <3>2, <3>4, <3>5 DEF Holds
  <2> QED BY <2>1, <2>2
<1>8. /\ \A x \in Item : (\E t \in Thread : H(t, x)) <=> \E i \in 1..n : xs[i] = x
      /\ \A x \in Item, t, u \in Thread : H(t, x) /\ H(u, x) => t = u
  <2>1. \A i, j \in 1..n : xs[i] = xs[j] => i = j
    BY <1>1 DEF NoDup
  <2> QED BY <1>1, <2>1
<1> HIDE DEF H
<1>9. WaitInv'
  <2>1. ASSUME NEW t \in Thread PROVE Linked(wait_q', t) <=> st'[t].at = "wait"
    <3>1. CASE \A i \in 1..n : wait_q[i] # t
      BY <1>1, <3>1 DEF IInv, WaitInv
    <3>2. CASE \E i \in 1..n : wait_q[i] = t
      BY <1>1, <3>2, StateProps
    <3> QED BY <3>1, <3>2
  <2> QED BY <1>1, <2>1 DEF WaitInv
<1>10. PlaceInv'
  <2> DEFINE N(x) == \E i \in 1..n : xs[i] = x
  <2>1. /\ \A x \in Item : (\E t \in Thread : H(t, x)) <=> N(x)
        /\ \A x \in Item : Linked(xs, x) <=> N(x) \/ Linked(rest, x)
        /\ \A x \in Item : ~(N(x) /\ Linked(rest, x))
    BY <1>2, <1>8
  <2> HIDE DEF N
  <2>2. ASSUME NEW x \in Item
        PROVE  /\ x \in app' \/ Linked(Content', x) \/ \E t \in Thread : Holds(t, x)'
               /\ ~(x \in app' /\ Linked(Content', x))
               /\ \A t \in Thread : Holds(t, x)' => x \notin app' /\ ~Linked(Content', x)
               /\ \A t, u \in Thread : Holds(t, x)' /\ Holds(u, x)' => t = u
    BY <1>5, <1>7, <1>8, <2>1 DEF IInv, PlaceInv
  <2> QED BY <1>5, <2>2 DEF PlaceInv
<1>11. NobodyWaitsInVain'
  <2> SUFFICES ASSUME NEW t \in Thread, Linked(wait_q', t)
               PROVE  st'[t].item = NULL /\ Content' = << >>
    BY DEF NobodyWaitsInVain
  <2>1. st'[t] = st[t] /\ Linked(wait_q, t)
    BY <1>1
  <2>2. wait_q' # << >>
    BY <1>1, EmptyUnlinked
  <2> QED BY <1>1, <1>2, <1>5, <1>6, <2>1, <2>2
<1> QED BY <1>9, <1>10, <1>11

\* A get that finds an item: the thread holds the first of the content.
LEMMA ReceiveStep ==
  ASSUME IInv, NEW t \in Thread, Receives(t)
  PROVE  WaitInv' /\ PlaceInv' /\ NobodyWaitsInVain'
<1> /\ Content # << >> /\ Got(t, Head(Content)) /\ wait_q = << >>
    /\ app' = app /\ Content' = Tail(Content)
  BY DEF Receives
<1>1. /\ st[t] = Running /\ st' = [st EXCEPT ![t] = Woken(OK, Head(Content))]
      /\ UNCHANGED <<wait_q, arrived>>
  BY DEF Got
<1>2. /\ Content \in Seq(Item) /\ NoDup(Content) /\ Head(Content) \in Item
      /\ Linked(Content, Head(Content)) /\ NoDup(Tail(Content))
      /\ \A x : Linked(Tail(Content), x) <=> Linked(Content, x) /\ x # Head(Content)
  BY ContentType, TailProps DEF IInv, PlaceInv
<1> DEFINE h == Head(Content)
<1> HIDE DEF h
<1>3. /\ st' \in [Thread -> ThreadState]
      /\ st'[t].at = "woken" /\ st'[t].item = h /\ st[t].at = "run"
      /\ \A u \in Thread : u # t => st'[u] = st[u]
  BY <1>1, <1>2, StateProps DEF IInv, WaitInv, h
<1>4. WaitInv'
  BY <1>1, <1>3 DEF IInv, WaitInv
<1>5. \A u \in Thread, x \in Item : Holds(u, x)' <=> (u = t /\ x = h) \/ Holds(u, x)
  BY <1>3 DEF Holds
<1>6. PlaceInv'
  <2>1. /\ h \in Item /\ Linked(Content, h) /\ NoDup(Content')
        /\ \A x : Linked(Content', x) <=> Linked(Content, x) /\ x # h
    BY <1>2 DEF h
  <2>2. ASSUME NEW x \in Item
        PROVE  /\ x \in app' \/ Linked(Content', x) \/ \E u \in Thread : Holds(u, x)'
               /\ ~(x \in app' /\ Linked(Content', x))
               /\ \A u \in Thread : Holds(u, x)' => x \notin app' /\ ~Linked(Content', x)
               /\ \A u, v \in Thread : Holds(u, x)' /\ Holds(v, x)' => u = v
    BY <1>5, <2>1 DEF IInv, PlaceInv
  <2> QED BY <2>1, <2>2 DEF IInv, PlaceInv
<1>7. NobodyWaitsInVain'
  BY <1>1, EmptyUnlinked DEF NobodyWaitsInVain, IInv, WaitInv
<1> QED BY <1>4, <1>6, <1>7

\* k_msgq_get() with blocked senders: the message of the first one moves up.
LEMMA RefillStep ==
  ASSUME IInv, NEW t \in Thread, Refills(t)
  PROVE  WaitInv' /\ PlaceInv' /\ NobodyWaitsInVain'
<1> /\ Content # << >> /\ st[t] = Running /\ wait_q # << >> /\ Full /\ Full'
    /\ st' = [st EXCEPT ![t] = Woken(OK, Head(Content)), ![Head(wait_q)] = Woken(OK, NULL)]
    /\ wait_q' = Tail(wait_q) /\ app' = app
    /\ Content' = Append(Tail(Content), st[Head(wait_q)].item)
  BY DEF Refills
<1> DEFINE h == Head(Content)
           w == Head(wait_q)
           y == st[w].item
<1>1. /\ Content \in Seq(Item) /\ NoDup(Content) /\ h \in Item
      /\ Linked(Content, h) /\ NoDup(Tail(Content)) /\ Tail(Content) \in Seq(Item)
      /\ \A x : Linked(Tail(Content), x) <=> Linked(Content, x) /\ x # h
  BY ContentType, TailProps DEF IInv, PlaceInv
<1>2. /\ w \in Thread /\ Linked(wait_q, w) /\ Tail(wait_q) \in Seq(Thread) /\ NoDup(Tail(wait_q))
      /\ \A x : Linked(Tail(wait_q), x) <=> Linked(wait_q, x) /\ x # w
  BY TailProps DEF IInv, WaitInv
<1>3. st[w].at = "wait" /\ y \in Item /\ st[t].at = "run" /\ w # t
  BY <1>2, StateProps DEF IInv, WaitInv, NobodyWaitsInVain
<1>4. Holds(w, y) /\ \A x \in Item : Holds(w, x) => x = y
  BY <1>3 DEF Holds
<1> HIDE DEF h, w, y
<1>5. /\ st' \in [Thread -> ThreadState]
      /\ st'[t] = Woken(OK, h) /\ st'[w] = Woken(OK, NULL)
      /\ \A u \in Thread : u # t /\ u # w => st'[u] = st[u]
  <2>1. st' = [st EXCEPT ![t] = Woken(OK, h), ![w] = Woken(OK, NULL)]
    BY DEF h, w
  <2>2. Woken(OK, h) \in ThreadState /\ Woken(OK, NULL) \in ThreadState
    BY <1>1, StateProps
  <2> QED BY <1>2, <1>3, <2>1, <2>2 DEF IInv, WaitInv
<1>6. /\ st'[t].at = "woken" /\ st'[t].item = h /\ st'[w].at = "woken" /\ st'[w].item = NULL
  BY <1>5, StateProps
<1>7. WaitInv'
  <2>1. /\ wait_q' \in Seq(Thread) /\ NoDup(wait_q')
        /\ \A u \in Thread : Linked(wait_q', u) <=> Linked(wait_q, u) /\ u # w
    BY <1>2
  <2> QED BY <1>3, <1>5, <1>6, <2>1 DEF IInv, WaitInv
<1>8. \A u \in Thread, x \in Item :
        Holds(u, x)' <=> (u = t /\ x = h) \/ (Holds(u, x) /\ u # w)
  <2> SUFFICES ASSUME NEW u \in Thread, NEW x \in Item
               PROVE  Holds(u, x)' <=> (u = t /\ x = h) \/ (Holds(u, x) /\ u # w)
    OBVIOUS
  <2>1. CASE u = t
    BY <1>3, <1>6, <2>1 DEF Holds
  <2>2. CASE u = w
    BY <1>3, <1>6, <2>2, QueuesAssumption DEF Holds
  <2>3. CASE u # t /\ u # w
    BY <1>5, <2>3 DEF Holds
  <2> QED BY <2>1, <2>2, <2>3
<1>9. /\ NoDup(Content')
      /\ \A x : Linked(Content', x) <=> (Linked(Content, x) /\ x # h) \/ x = y
  <2>1. ~Linked(Tail(Content), y)
    BY <1>1, <1>2, <1>3, <1>4 DEF IInv, PlaceInv
  <2>2. Content' = Append(Tail(Content), y)
    BY DEF y, w
  <2>3. /\ NoDup(Append(Tail(Content), y))
        /\ \A x : Linked(Append(Tail(Content), y), x) <=> Linked(Tail(Content), x) \/ x = y
    <3> DEFINE c == Tail(Content)
    <3>1. c \in Seq(Item) /\ NoDup(c) /\ y \in Item /\ ~Linked(c, y)
      BY <1>1, <1>3, <2>1
    <3> HIDE DEF c
    <3>2. NoDup(Append(c, y)) /\ \A x : Linked(Append(c, y), x) <=> Linked(c, x) \/ x = y
      BY <3>1, AppendNode
    <3> QED BY <3>2 DEF c
  <2> QED BY <1>1, <2>2, <2>3
<1>10. PlaceInv'
  <2>1. ASSUME NEW x \in Item
        PROVE  /\ x \in app' \/ Linked(Content', x) \/ \E u \in Thread : Holds(u, x)'
               /\ ~(x \in app' /\ Linked(Content', x))
               /\ \A u \in Thread : Holds(u, x)' => x \notin app' /\ ~Linked(Content', x)
               /\ \A u, v \in Thread : Holds(u, x)' /\ Holds(v, x)' => u = v
    BY <1>1, <1>2, <1>3, <1>4, <1>8, <1>9 DEF IInv, PlaceInv
  <2> QED BY <1>9, <2>1 DEF IInv, PlaceInv
<1>11. NobodyWaitsInVain'
  <2> SUFFICES ASSUME NEW u \in Thread, Linked(wait_q', u)
               PROVE  st'[u].item # NULL /\ Full'
    BY DEF NobodyWaitsInVain, Full
  <2>1. Linked(wait_q, u) /\ u # w /\ u # t
    BY <1>2, <1>3 DEF IInv, WaitInv
  <2> QED BY <1>5, <2>1 DEF IInv, NobodyWaitsInVain
<1> QED BY <1>7, <1>10, <1>11

\* A thread waits, with its message if it is a sender.
LEMMA PendStep ==
  ASSUME IInv, NEW t \in Thread, NEW x \in Item \cup {NULL}, Waits(t, x)
  PROVE  WaitInv' /\ PlaceInv' /\ NobodyWaitsInVain'
<1> /\ Pend(t, x)
    /\ IF x = NULL THEN app' = app /\ Content = << >> ELSE Give(x) /\ Content # << >> /\ Full
    /\ kind' = kind /\ list' = list /\ ring' = ring
  BY DEF Waits
<1>1. /\ st[t] = Running /\ wait_q' = WaitInsert(t) /\ st' = [st EXCEPT ![t] = Waiting(x)]
      /\ Content' = Content /\ (Full' <=> Full)
  BY DEF Pend, Content, Full
<1>2. st[t].at = "run" /\ ~Linked(wait_q, t)
  BY <1>1, StateProps DEF IInv, WaitInv
<1>3. /\ wait_q' \in Seq(Thread) /\ NoDup(wait_q')
      /\ \A u : Linked(wait_q', u) <=> Linked(wait_q, u) \/ u = t
  BY <1>1, <1>2, InsertAtProps DEF WaitInsert, IInv, WaitInv
<1>4. /\ st' \in [Thread -> ThreadState]
      /\ st'[t].at = "wait" /\ st'[t].item = x
      /\ \A u \in Thread : u # t => st'[u] = st[u]
  BY <1>1, StateProps DEF IInv, WaitInv
<1>5. WaitInv'
  BY <1>2, <1>3, <1>4 DEF IInv, WaitInv
<1>6. \A u \in Thread, y \in Item : Holds(u, y)' <=> (u = t /\ y = x) \/ Holds(u, y)
  BY <1>2, <1>4 DEF Holds
<1>7. PlaceInv'
  <2>1. app' \in SUBSET Item /\ \A y \in Item : y \in app' <=> y \in app /\ y # x
    BY QueuesAssumption DEF Give, IInv, PlaceInv
  <2>2. x \in Item => x \in app
    BY QueuesAssumption DEF Give
  <2>3. ASSUME NEW y \in Item
        PROVE  /\ y \in app' \/ Linked(Content', y) \/ \E u \in Thread : Holds(u, y)'
               /\ ~(y \in app' /\ Linked(Content', y))
               /\ \A u \in Thread : Holds(u, y)' => y \notin app' /\ ~Linked(Content', y)
               /\ \A u, v \in Thread : Holds(u, y)' /\ Holds(v, y)' => u = v
    BY <1>1, <1>6, <2>1, <2>2 DEF IInv, PlaceInv
  <2>4. NoDup(Content')
    BY <1>1 DEF IInv, PlaceInv
  <2> QED BY <2>1, <2>3, <2>4 DEF PlaceInv
<1>8. NobodyWaitsInVain'
  <2> SUFFICES ASSUME NEW u \in Thread, Linked(wait_q', u)
               PROVE  IF st'[u].item = NULL THEN Content' = << >> ELSE Full'
    BY DEF NobodyWaitsInVain, Full
  <2>1. CASE u = t
    BY <1>1, <1>4, <2>1
  <2>2. CASE u # t
    BY <1>1, <1>3, <1>4, <2>2 DEF IInv, NobodyWaitsInVain, Full
  <2> QED BY <2>1, <2>2
<1> QED BY <1>5, <1>7, <1>8

\* A wait times out, and a sender gets its message back.
LEMMA TimeoutStep ==
  ASSUME IInv, NEW t \in Thread, handle_one_timeout(t)
  PROVE  IInv'
<1>1. /\ st[t].at = "wait" /\ wait_q' = sys_dlist_remove(wait_q, t)
      /\ st' = [st EXCEPT ![t] = Woken(EAGAIN, NULL)]
      /\ app' = app \cup ({st[t].item} \ {NULL})
      /\ UNCHANGED <<kind, list, ring, num_used, prio>>
  BY DEF handle_one_timeout
<1>2. DataInv' /\ Content' = Content /\ (Full' <=> Full)
  BY <1>1 DEF IInv, DataInv, Content, Full
<1>3. /\ wait_q' \in Seq(Thread) /\ NoDup(wait_q')
      /\ \A u : Linked(wait_q', u) <=> Linked(wait_q, u) /\ u # t
  BY <1>1, UnlinkProps DEF IInv, WaitInv
<1>4. /\ st' \in [Thread -> ThreadState]
      /\ st'[t].at = "woken" /\ st'[t].item = NULL
      /\ \A u \in Thread : u # t => st'[u] = st[u]
  BY <1>1, StateProps DEF IInv, WaitInv
<1>5. WaitInv'
  BY <1>1, <1>3, <1>4 DEF IInv, WaitInv
<1>6. \A u \in Thread, y \in Item : Holds(u, y)' <=> Holds(u, y) /\ u # t
  BY <1>4, QueuesAssumption DEF Holds
<1>7. PlaceInv'
  <2>1. \A y \in Item : y \in app' <=> y \in app \/ Holds(t, y)
    BY <1>1, QueuesAssumption DEF Holds
  <2>2. app' \in SUBSET Item
    <3>1. st[t].item \in Item \cup {NULL}
      BY <1>1, StateProps DEF IInv, WaitInv
    <3> QED BY <1>1, <3>1 DEF IInv, PlaceInv
  <2>3. ASSUME NEW y \in Item
        PROVE  /\ y \in app' \/ Linked(Content', y) \/ \E u \in Thread : Holds(u, y)'
               /\ ~(y \in app' /\ Linked(Content', y))
               /\ \A u \in Thread : Holds(u, y)' => y \notin app' /\ ~Linked(Content', y)
               /\ \A u, v \in Thread : Holds(u, y)' /\ Holds(v, y)' => u = v
    BY <1>2, <1>6, <2>1 DEF IInv, PlaceInv
  <2>4. NoDup(Content')
    BY <1>2 DEF IInv, PlaceInv
  <2> QED BY <2>2, <2>3, <2>4 DEF PlaceInv
<1>8. NobodyWaitsInVain'
  BY <1>2, <1>3, <1>4 DEF IInv, NobodyWaitsInVain, Full
<1> QED BY <1>2, <1>5, <1>7, <1>8 DEF IInv

\* A call returns with the item it holds.
LEMMA ReturnStep ==
  ASSUME IInv, NEW t \in Thread, return(t)
  PROVE  IInv'
<1>1. /\ st[t].at = "woken" /\ st' = [st EXCEPT ![t] = Running]
      /\ app' = app \cup ({st[t].item} \ {NULL})
      /\ UNCHANGED <<kind, list, ring, num_used, wait_q, prio>>
  BY DEF return
<1>2. DataInv' /\ Content' = Content /\ (Full' <=> Full)
  BY <1>1 DEF IInv, DataInv, Content, Full
<1>3. /\ st' \in [Thread -> ThreadState] /\ st'[t].at = "run"
      /\ \A u \in Thread : u # t => st'[u] = st[u]
  BY <1>1, StateProps DEF IInv, WaitInv
<1>4. WaitInv'
  BY <1>1, <1>3 DEF IInv, WaitInv
<1>5. \A u \in Thread, y \in Item : Holds(u, y)' <=> Holds(u, y) /\ u # t
  BY <1>3 DEF Holds
<1>6. PlaceInv'
  <2>1. \A y \in Item : y \in app' <=> y \in app \/ Holds(t, y)
    BY <1>1, QueuesAssumption DEF Holds
  <2>2. app' \in SUBSET Item
    <3>1. st[t].item \in Item \cup {NULL}
      BY <1>1, StateProps DEF IInv, WaitInv
    <3> QED BY <1>1, <3>1 DEF IInv, PlaceInv
  <2>3. ASSUME NEW y \in Item
        PROVE  /\ y \in app' \/ Linked(Content', y) \/ \E u \in Thread : Holds(u, y)'
               /\ ~(y \in app' /\ Linked(Content', y))
               /\ \A u \in Thread : Holds(u, y)' => y \notin app' /\ ~Linked(Content', y)
               /\ \A u, v \in Thread : Holds(u, y)' /\ Holds(v, y)' => u = v
    BY <1>2, <1>5, <2>1 DEF IInv, PlaceInv
  <2>4. NoDup(Content')
    BY <1>2 DEF IInv, PlaceInv
  <2> QED BY <2>2, <2>3, <2>4 DEF PlaceInv
<1>7. NobodyWaitsInVain'
  <2>1. \A u \in Thread : Linked(wait_q', u) => Linked(wait_q, u) /\ st'[u] = st[u]
    BY <1>1, <1>3 DEF IInv, WaitInv
  <2> QED BY <1>2, <2>1 DEF IInv, NobodyWaitsInVain, Full
<1> QED BY <1>2, <1>4, <1>6, <1>7 DEF IInv

\* k_msgq_purge(): the ring buffer is emptied and all senders fail.
LEMMA PurgeStep ==
  ASSUME IInv, k_msgq_purge
  PROVE  IInv'
<1>1. /\ kind = "msgq"
      /\ st' = [t \in Thread |-> IF Linked(wait_q, t) THEN Woken(ENOMSG, NULL) ELSE st[t]]
      /\ wait_q' = << >> /\ ring' = Purged(ring)
      /\ app' = app \cup ItemsOf(Content) \cup ({st[wait_q[i]].item : i \in 1..Len(wait_q)} \ {NULL})
      /\ UNCHANGED <<kind, list, num_used, prio>>
  BY DEF k_msgq_purge
<1>2. DataInv' /\ Content' = << >>
  <2>1. RingOK(ring') /\ Messages(ring') = << >>
    BY <1>1, PurgedProps DEF IInv, DataInv
  <2>2. Content' = Messages(ring')
    BY <1>1 DEF Content, Messages
  <2> QED BY <1>1, <2>1, <2>2 DEF IInv, DataInv
<1>3. /\ st' \in [Thread -> ThreadState]
      /\ \A t \in Thread : Linked(wait_q, t) => st'[t].at = "woken" /\ st'[t].item = NULL
      /\ \A t \in Thread : ~Linked(wait_q, t) => st'[t] = st[t]
  <2>1. Woken(ENOMSG, NULL) \in ThreadState
    BY StateProps
  <2> QED BY <1>1, <2>1, StateProps DEF IInv, WaitInv
<1>4. \A x : ~Linked(<< >>, x)
  BY EmptyUnlinked DEF Linked
<1>5. WaitInv'
  <2>1. wait_q' \in Seq(Thread) /\ NoDup(wait_q')
    BY <1>1 DEF NoDup
  <2>2. \A t \in Thread : ~Linked(wait_q', t) /\ st'[t].at # "wait"
    BY <1>1, <1>3, <1>4 DEF IInv, WaitInv
  <2> QED BY <1>3, <2>1, <2>2 DEF WaitInv
<1>6. \A t \in Thread, y \in Item : Holds(t, y)' <=> Holds(t, y) /\ ~Linked(wait_q, t)
  BY <1>3, QueuesAssumption DEF Holds
<1>7. \A y \in Item : y \in app' <=> \/ y \in app \/ Linked(Content, y)
                                     \/ \E t \in Thread : Linked(wait_q, t) /\ Holds(t, y)
  <2> SUFFICES ASSUME NEW y \in Item
               PROVE  y \in app' <=> \/ y \in app \/ Linked(Content, y)
                                     \/ \E t \in Thread : Linked(wait_q, t) /\ Holds(t, y)
    OBVIOUS
  <2>1. y \in ItemsOf(Content) <=> Linked(Content, y)
    BY DEF ItemsOf, Linked
  <2>2. (\E i \in 1..Len(wait_q) : st[wait_q[i]].item = y) <=>
          \E t \in Thread : Linked(wait_q, t) /\ Holds(t, y)
    <3>1. \A i \in 1..Len(wait_q) : wait_q[i] \in Thread /\ Linked(wait_q, wait_q[i])
      BY ElementOfSeq DEF IInv, WaitInv, Linked
    <3>2. \A t \in Thread : Linked(wait_q, t) => st[t].at = "wait" /\ \E i \in 1..Len(wait_q) : wait_q[i] = t
      BY DEF IInv, WaitInv, Linked
    <3> QED BY <3>1, <3>2 DEF Holds
  <2>3. y # NULL
    BY QueuesAssumption
  <2> QED BY <1>1, <2>1, <2>2, <2>3
<1>8. app' \in SUBSET Item
  <2>1. \A i \in 1..Len(wait_q) : st[wait_q[i]].item \in Item \cup {NULL}
    <3>1. \A i \in 1..Len(wait_q) : wait_q[i] \in Thread /\ Linked(wait_q, wait_q[i])
      BY ElementOfSeq DEF IInv, WaitInv, Linked
    <3> QED BY <3>1, StateProps DEF IInv, WaitInv
  <2>2. ItemsOf(Content) \in SUBSET Item
    BY ContentType, ElementOfSeq DEF ItemsOf, IInv
  <2> QED BY <1>1, <2>1, <2>2 DEF IInv, PlaceInv
<1>9. PlaceInv'
  <2>1. ASSUME NEW y \in Item
        PROVE  /\ y \in app' \/ Linked(Content', y) \/ \E u \in Thread : Holds(u, y)'
               /\ ~(y \in app' /\ Linked(Content', y))
               /\ \A u \in Thread : Holds(u, y)' => y \notin app' /\ ~Linked(Content', y)
               /\ \A u, v \in Thread : Holds(u, y)' /\ Holds(v, y)' => u = v
    BY <1>2, <1>4, <1>6, <1>7 DEF IInv, PlaceInv
  <2>2. NoDup(Content')
    BY <1>2 DEF NoDup
  <2> QED BY <1>8, <2>1, <2>2 DEF PlaceInv
<1>10. NobodyWaitsInVain'
  BY <1>1, <1>4 DEF NobodyWaitsInVain
<1> QED BY <1>2, <1>5, <1>9, <1>10 DEF IInv

(***************************************************************************)
(* What the operations do                                                  *)
(***************************************************************************)

\* One item
LEMMA OneItem ==
  ASSUME NEW x \in Item
  PROVE  /\ <<x>> \in Seq(Item) /\ Len(<<x>>) = 1 /\ NoDup(<<x>>)
         /\ \A z : Linked(<<x>>, z) <=> z = x
         /\ SubSeq(<<x>>, 1, 1) = <<x>> /\ SubSeq(<<x>>, 2, 1) = << >>
<1>1. <<x>> \in Seq(Item) /\ Len(<<x>>) = 1 /\ <<x>>[1] = x
  OBVIOUS
<1>2. NoDup(<<x>>) /\ \A z : Linked(<<x>>, z) <=> z = x
  BY <1>1 DEF NoDup, Linked
<1>3. SubSeq(<<x>>, 1, Len(<<x>>)) = <<x>>
  BY <1>1, SubSeqFull
<1>4. SubSeq(<<x>>, 2, 1) = << >>
  BY SubSeqEmpty
<1> QED BY <1>1, <1>2, <1>3, <1>4

\* A put of one item, in the terms of the data structure
LEMMA SendOne ==
  ASSUME IInv, NEW x \in Item, Give(x), Hand(<<x>>), ~Full, UNCHANGED <<kind, prio>>,
         Content' = IF wait_q = << >> THEN AddedTo(kind, Content, <<x>>) ELSE Content
  PROVE  Sends(<<x>>)
<1> DEFINE o == <<x>>
           n == Handed(o)
<1>1. /\ o \in Seq(Item) /\ Len(o) = 1 /\ NoDup(o) /\ \A z : Linked(o, z) <=> z = x
      /\ SubSeq(o, 1, 1) = o /\ SubSeq(o, 2, 1) = << >>
  BY OneItem
<1>2. Len(wait_q) \in Nat /\ (wait_q = << >> <=> Len(wait_q) = 0)
  BY LenProperties, EmptySeq DEF IInv, WaitInv
<1> HIDE DEF o
<1>3. n = IF wait_q = << >> THEN 0 ELSE 1
  BY <1>1, <1>2 DEF Handed
<1>4. SubSeq(o, n + 1, Len(o)) = IF wait_q = << >> THEN o ELSE << >>
  <2>1. n + 1 = IF wait_q = << >> THEN 1 ELSE 2
    BY <1>3
  <2> HIDE DEF n
  <2> QED BY <1>1, <2>1
<1>5. AddedTo(kind, Content, << >>) = Content
  BY ContentType, ConcatEmptySeq DEF AddedTo, IInv
<1>6. Content' = AddedTo(kind, Content, SubSeq(o, n + 1, Len(o)))
  <2>1. Content' = IF wait_q = << >> THEN AddedTo(kind, Content, o) ELSE Content
    BY DEF o
  <2> QED BY <1>4, <1>5, <2>1
<1>7. Hand(o)
  BY DEF o
<1>8. app' \in SUBSET Item /\ x \in app /\ \A z \in Item : z \in app' <=> z \in app /\ z # x
  BY DEF Give, IInv, PlaceInv
<1>9. Sends(o)
  BY <1>1, <1>6, <1>7, <1>8 DEF Sends
<1> QED BY <1>9 DEF o

\* The puts
LEMMA FifoPut ==
  ASSUME IInv, NEW x \in Item, k_fifo_put(x) \/ k_lifo_put(x) \/ k_stack_push(x)
  PROVE  DataInv' /\ Sends(<<x>>)
<1>1. /\ kind \in {"fifo", "lifo", "stack"} /\ Give(x) /\ Hand(<<x>>)
      /\ UNCHANGED <<kind, ring, num_used, prio>>
      /\ kind = "lifo" => list' = IF wait_q = << >> THEN <<x>> \o list ELSE list
      /\ kind # "lifo" => list' = IF wait_q = << >> THEN Append(list, x) ELSE list
  BY DEF k_fifo_put, k_lifo_put, k_stack_push
<1>2. list \in Seq(Item) /\ <<x>> \in Seq(Item)
  BY DEF IInv, DataInv
<1>3. /\ <<x>> \o list \in Seq(Item) /\ Append(list, x) \in Seq(Item)
      /\ Append(list, x) = list \o <<x>>
  BY <1>2, ConcatProperties, AppendProperties, AppendIsConcat
<1>4. DataInv'
  BY <1>1, <1>2, <1>3 DEF IInv, DataInv
<1>5. ~Full
  BY <1>1 DEF Full
<1>6. Content' = IF wait_q = << >> THEN AddedTo(kind, Content, <<x>>) ELSE Content
  <2>1. CASE kind = "stack"
    <3>1. Content = Reversed(list) /\ Content' = Reversed(list')
      BY <1>1, <2>1 DEF Content, Reversed
    <3>2. Reversed(Append(list, x)) = <<x>> \o Reversed(list)
      BY <1>2, ReversedPush
    <3> QED BY <1>1, <2>1, <3>1, <3>2 DEF AddedTo
  <2>2. CASE kind # "stack"
    <3>1. Content = list /\ Content' = list'
      BY <1>1, <2>2 DEF Content
    <3> QED BY <1>1, <1>3, <2>2, <3>1 DEF AddedTo
  <2> QED BY <2>1, <2>2
<1> QED BY <1>1, <1>4, <1>5, <1>6, SendOne

LEMMA SlabFree ==
  ASSUME IInv, NEW x \in Item, k_mem_slab_free(x)
  PROVE  DataInv' /\ Sends(<<x>>)
<1>1. /\ kind = "slab" /\ Give(x) /\ Hand(<<x>>) /\ UNCHANGED <<kind, ring, prio>>
      /\ list' = IF wait_q = << >> THEN <<x>> \o list ELSE list
      /\ num_used' = IF wait_q = << >> THEN num_used - 1 ELSE num_used
  BY DEF k_mem_slab_free
<1>2. list \in Seq(Item) /\ <<x>> \in Seq(Item) /\ Len(<<x>>) = 1 /\ Len(list) \in Nat
  BY LenProperties DEF IInv, DataInv
<1>3. <<x>> \o list \in Seq(Item) /\ Len(<<x>> \o list) = Len(list) + 1
  <2> DEFINE o == <<x>>
  <2>1. o \in Seq(Item) /\ Len(o) = 1
    BY <1>2
  <2> HIDE DEF o
  <2>2. o \o list \in Seq(Item) /\ Len(o \o list) = Len(o) + Len(list)
    BY <1>2, <2>1, ConcatProperties
  <2> QED BY <1>2, <2>1, <2>2 DEF o
<1>4. DataInv'
  <2>1. Cardinality(Item) \in Nat
    BY QueuesAssumption, FS_CardinalityType
  <2>2. list' \in Seq(Item) /\ num_used' \in Int /\ num_used' = Cardinality(Item) - Len(list')
    BY <1>1, <1>2, <1>3, <2>1 DEF IInv, DataInv
  <2> QED BY <1>1, <2>2 DEF IInv, DataInv
<1>5. Content = list /\ Content' = list'
  BY <1>1 DEF Content
<1>6. Content' = IF wait_q = << >> THEN AddedTo(kind, Content, <<x>>) ELSE Content
  BY <1>1, <1>5 DEF AddedTo
<1>7. ~Full
  BY <1>1 DEF Full
<1> QED BY <1>1, <1>4, <1>6, <1>7, SendOne

LEMMA MsgqPut ==
  ASSUME IInv, NEW x \in Item, k_msgq_put(x)
  PROVE  DataInv' /\ Sends(<<x>>)
<1>1. /\ kind = "msgq" /\ ring.used_msgs < MaxMsgs /\ Give(x) /\ Hand(<<x>>)
      /\ ring' = IF wait_q = << >> THEN Written(ring, x) ELSE ring
      /\ UNCHANGED <<kind, list, num_used, prio>>
  BY DEF k_msgq_put
<1>2. /\ RingOK(ring) /\ RingOK(Written(ring, x))
      /\ Messages(Written(ring, x)) = Append(Messages(ring), x)
      /\ Messages(ring) \in Seq(Item)
  BY <1>1, WrittenProps, MessagesProps DEF IInv, DataInv
<1>3. DataInv'
  BY <1>1, <1>2 DEF IInv, DataInv
<1>4. Content = Messages(ring) /\ Content' = Messages(ring')
  BY <1>1 DEF Content, Messages
<1>5. Append(Messages(ring), x) = Messages(ring) \o <<x>>
  BY <1>2, AppendIsConcat
<1>6. Content' = IF wait_q = << >> THEN AddedTo(kind, Content, <<x>>) ELSE Content
  BY <1>1, <1>2, <1>4, <1>5 DEF AddedTo
<1>7. ~Full
  BY <1>1, QueuesAssumption DEF Full
<1> QED BY <1>1, <1>3, <1>6, <1>7, SendOne

\* k_fifo_put_list() with two items
LEMMA PutList ==
  ASSUME IInv, NEW x \in Item, NEW y \in Item, k_fifo_put_list(x, y)
  PROVE  DataInv' /\ Sends(<<x, y>>)
<1> DEFINE p == <<x, y>>
           n == Handed(p)
<1>1. /\ kind = "fifo" /\ x # y /\ x \in app /\ y \in app /\ app' = app \ {x, y}
      /\ Hand(p) /\ UNCHANGED <<kind, ring, num_used, prio>>
      /\ list' = CASE Len(wait_q) = 0 -> list \o p
                   [] Len(wait_q) = 1 -> Append(list, y)
                   [] OTHER -> list
  BY DEF k_fifo_put_list
<1>2. /\ p \in Seq(Item) /\ Len(p) = 2 /\ p[1] = x /\ p[2] = y
      /\ NoDup(p) /\ \A z : Linked(p, z) <=> z \in {x, y}
  <2>1. p \in Seq(Item) /\ Len(p) = 2 /\ p[1] = x /\ p[2] = y
    OBVIOUS
  <2> HIDE DEF p
  <2> QED BY <1>1, <2>1 DEF NoDup, Linked
<1>3. Len(wait_q) \in Nat /\ list \in Seq(Item)
  BY LenProperties DEF IInv, WaitInv, DataInv
<1> HIDE DEF p
<1>4. SubSeq(p, 1, 2) = p /\ SubSeq(p, 2, 2) = <<y>> /\ SubSeq(p, 3, 2) = << >>
  <2>1. SubSeq(p, 1, Len(p)) = p
    BY <1>2, SubSeqFull
  <2>2. SubSeq(p, 3, 2) = << >>
    BY SubSeqEmpty
  <2>3. SubSeq(p, 2, 2) = <<p[2]>> \o SubSeq(p, 2 + 1, 2)
    <3>1. 2 \in 1..Len(p) /\ 2 \in 2..Len(p)
      BY <1>2
    <3> QED BY <1>2, <3>1, SubSeqRecursiveFirst
  <2>4. <<y>> \o << >> = <<y>>
    BY OneItem, ConcatEmptySeq
  <2>5. SubSeq(p, 2 + 1, 2) = << >>
    BY SubSeqEmpty
  <2>6. SubSeq(p, 2, 2) = <<y>>
    BY <1>2, <2>3, <2>4, <2>5
  <2>7. SubSeq(p, 1, 2) = p
    BY <1>2, <2>1
  <2> QED BY <2>2, <2>6, <2>7
<1>5. n = IF Len(wait_q) = 0 THEN 0 ELSE IF Len(wait_q) = 1 THEN 1 ELSE 2
  <2>1. n = IF Len(wait_q) < 2 THEN Len(wait_q) ELSE 2
    BY <1>2 DEF Handed
  <2>2. \A l \in Nat : (IF l < 2 THEN l ELSE 2) = IF l = 0 THEN 0 ELSE IF l = 1 THEN 1 ELSE 2
    OBVIOUS
  <2> HIDE DEF n
  <2> QED BY <1>3, <2>1, <2>2, Zenon
<1>6. SubSeq(p, n + 1, Len(p)) =
        IF Len(wait_q) = 0 THEN p ELSE IF Len(wait_q) = 1 THEN <<y>> ELSE << >>
  <2>1. n + 1 = IF Len(wait_q) = 0 THEN 1 ELSE IF Len(wait_q) = 1 THEN 2 ELSE 3
    BY <1>5
  <2> HIDE DEF n
  <2> QED BY <1>2, <1>4, <2>1
<1>7. /\ Append(list, y) = list \o <<y>> /\ list \o << >> = list
      /\ list \o p \in Seq(Item) /\ Append(list, y) \in Seq(Item)
  <2>1. Append(list, y) = list \o <<y>> /\ Append(list, y) \in Seq(Item)
    BY <1>3, AppendIsConcat, AppendProperties
  <2>2. list \o << >> = list
    BY <1>3, ConcatEmptySeq
  <2>3. list \o p \in Seq(Item)
    BY <1>2, <1>3, ConcatProperties
  <2> QED BY <2>1, <2>2, <2>3
<1>8. DataInv'
  <2>1. list' \in Seq(Item)
    BY <1>1, <1>3, <1>7
  <2> QED BY <1>1, <2>1 DEF IInv, DataInv
<1>9. Content' = AddedTo(kind, Content, SubSeq(p, n + 1, Len(p)))
  <2>1. Content = list /\ Content' = list'
    BY <1>1 DEF Content
  <2>2. list' = list \o SubSeq(p, n + 1, Len(p))
    <3> DEFINE d == SubSeq(p, n + 1, Len(p))
    <3>1. d = IF Len(wait_q) = 0 THEN p ELSE IF Len(wait_q) = 1 THEN <<y>> ELSE << >>
      BY <1>6
    <3> HIDE DEF d
    <3>2. list' = list \o d
      <4>1. CASE Len(wait_q) = 0
        BY <1>1, <1>7, <3>1, <4>1
      <4>2. CASE Len(wait_q) = 1
        BY <1>1, <1>7, <3>1, <4>2
      <4>3. CASE Len(wait_q) \notin {0, 1}
        BY <1>1, <1>7, <3>1, <4>3
      <4> QED BY <4>1, <4>2, <4>3
    <3> QED BY <3>2 DEF d
  <2> QED BY <1>1, <2>1, <2>2 DEF AddedTo
<1>10. app' \in SUBSET Item /\ \A z \in Item : z \in app' <=> z \in app /\ z \notin {x, y}
  BY <1>1 DEF IInv, PlaceInv
<1>11. Sends(p)
  BY <1>1, <1>2, <1>9, <1>10 DEF Sends, Full
<1> QED BY <1>8, <1>11 DEF p

\* The gets of the lists: the thread gets the first of the content, or waits.
LEMMA ListGet ==
  ASSUME IInv, NEW t \in Thread,
         k_fifo_get(t) \/ k_lifo_get(t) \/ k_stack_pop(t) \/ k_mem_slab_alloc(t)
  PROVE  DataInv' /\ (Receives(t) \/ Waits(t, NULL))
<1>1. /\ kind \in {"fifo", "lifo", "stack", "slab"} /\ UNCHANGED <<kind, ring, app, prio>>
      /\ num_used' = IF kind # "slab" \/ list = << >> THEN num_used ELSE num_used + 1
  BY DEF k_fifo_get, k_lifo_get, k_stack_pop, k_mem_slab_alloc
<1>2. list \in Seq(Item) /\ Content = (IF kind = "stack" THEN Reversed(list) ELSE list)
  BY <1>1, ContentCases DEF IInv, DataInv
<1>3. Content' = IF kind = "stack" THEN Reversed(list') ELSE list'
  BY <1>1 DEF Content, Reversed
<1>4. Content = << >> <=> list = << >>
  BY <1>2, ReversedProps
<1>5. CASE list = << >>
  <2>1. Pend(t, NULL) /\ UNCHANGED list
    BY <1>1, <1>5 DEF k_fifo_get, k_lifo_get, k_stack_pop, k_mem_slab_alloc, TakeFirst
  <2>2. DataInv'
    BY <1>1, <1>5, <2>1 DEF IInv, DataInv
  <2>3. Waits(t, NULL)
    BY <1>1, <1>4, <1>5, <2>1 DEF Waits
  <2> QED BY <2>2, <2>3
<1>6. CASE list # << >>
  <2>1. /\ kind = "stack" => Got(t, list[Len(list)]) /\ list' = SubSeq(list, 1, Len(list) - 1)
        /\ kind # "stack" => Got(t, Head(list)) /\ list' = Tail(list)
    BY <1>1, <1>6 DEF k_fifo_get, k_lifo_get, k_stack_pop, k_mem_slab_alloc, TakeFirst
  <2>2. list' \in Seq(Item) /\ Got(t, Head(Content)) /\ Content' = Tail(Content)
    <3>1. CASE kind = "stack"
      BY <1>2, <1>3, <1>6, <2>1, <3>1, ReversedPop
    <3>2. CASE kind # "stack"
      BY <1>2, <1>3, <1>6, <2>1, <3>2, HeadTailProperties
    <3> QED BY <3>1, <3>2
  <2>3. DataInv'
    <3>1. kind = "slab" => num_used' = Cardinality(Item) - Len(list') /\ num_used' \in Int
      <4> SUFFICES ASSUME kind = "slab"
                   PROVE  num_used' = Cardinality(Item) - Len(list') /\ num_used' \in Int
        OBVIOUS
      <4>1. Cardinality(Item) \in Nat /\ Len(list) \in Nat /\ Len(list') = Len(list) - 1
        BY <1>2, <1>6, <2>1, QueuesAssumption, FS_CardinalityType, HeadTailProperties, LenProperties
      <4> QED BY <1>1, <1>6, <4>1 DEF IInv, DataInv
    <3> QED BY <1>1, <2>2, <3>1 DEF IInv, DataInv
  <2>4. wait_q = << >>
    <3>1. \A u \in Thread : ~Linked(wait_q, u)
      BY <1>1, <1>4, <1>6 DEF IInv, NobodyWaitsInVain
    <3> QED BY <3>1, EmptyUnlinked DEF IInv, WaitInv
  <2>5. Receives(t)
    BY <1>1, <1>4, <1>6, <2>2, <2>4 DEF Receives
  <2> QED BY <2>3, <2>5
<1> QED BY <1>5, <1>6

LEMMA MsgqGet ==
  ASSUME IInv, NEW t \in Thread, k_msgq_get(t)
  PROVE  DataInv' /\ (Receives(t) \/ Refills(t) \/ Waits(t, NULL))
<1>1. kind = "msgq" /\ st[t] = Running /\ UNCHANGED <<kind, list, num_used, app, prio>>
  BY DEF k_msgq_get
<1>2. /\ Content = Messages(ring) /\ Content' = Messages(ring')
      /\ RingOK(ring) /\ (Content = << >> <=> ring.used_msgs = 0) /\ ring.used_msgs \in 0..MaxMsgs
  BY <1>1, MessagesProps DEF Content, Messages, IInv, DataInv
<1>3. CASE ring.used_msgs = 0
  <2>1. Pend(t, NULL) /\ UNCHANGED ring
    BY <1>3 DEF k_msgq_get
  <2>2. DataInv' /\ Waits(t, NULL)
    BY <1>1, <1>2, <1>3, <2>1 DEF IInv, DataInv, Waits
  <2> QED BY <2>2
<1>4. CASE ring.used_msgs > 0
  <2>1. /\ RingOK(Consumed(ring)) /\ Consumed(ring).used_msgs = ring.used_msgs - 1
        /\ Content # << >> /\ Head(Content) = ring.buf[ring.read_ptr]
        /\ Messages(Consumed(ring)) = Tail(Content)
    BY <1>2, <1>4, ConsumedProps
  <2>2. CASE wait_q = << >>
    <3>1. ring' = Consumed(ring) /\ Got(t, ring.buf[ring.read_ptr])
      BY <1>4, <2>2 DEF k_msgq_get
    <3>2. DataInv'
      BY <1>1, <2>1, <3>1 DEF IInv, DataInv
    <3>3. Receives(t)
      BY <1>1, <1>2, <2>1, <2>2, <3>1 DEF Receives
    <3> QED BY <3>2, <3>3
  <2>3. CASE wait_q # << >>
    <3> DEFINE w == Head(wait_q)
    <3>1. /\ ring' = Written(Consumed(ring), st[w].item)
          /\ st' = [st EXCEPT ![t] = Woken(OK, ring.buf[ring.read_ptr]), ![w] = Woken(OK, NULL)]
          /\ wait_q' = Tail(wait_q) /\ arrived' = sys_dlist_remove(arrived, w)
      BY <1>4, <2>3 DEF k_msgq_get
    <3>2. w \in Thread /\ Linked(wait_q, w)
      BY <2>3, EmptyUnlinked DEF IInv, WaitInv
    <3>3. Full /\ st[w].item \in Item
      <4>1. st[w].item # NULL /\ Full
        BY <2>1, <3>2 DEF IInv, NobodyWaitsInVain, Full
      <4> QED BY <3>2, <4>1, StateProps DEF IInv, WaitInv
    <3> HIDE DEF w
    <3>4. /\ RingOK(ring') /\ ring'.used_msgs = ring.used_msgs
          /\ Messages(ring') = Append(Tail(Content), st[w].item)
      <4>1. Consumed(ring).used_msgs < MaxMsgs
        BY <1>2, <2>1, QueuesAssumption
      <4>2. /\ RingOK(Written(Consumed(ring), st[w].item))
            /\ Written(Consumed(ring), st[w].item).used_msgs = Consumed(ring).used_msgs + 1
            /\ Messages(Written(Consumed(ring), st[w].item)) =
                 Append(Messages(Consumed(ring)), st[w].item)
        BY <2>1, <3>3, <4>1, WrittenProps
      <4> QED BY <1>2, <2>1, <3>1, <4>2, QueuesAssumption
    <3>5. DataInv'
      BY <1>1, <3>4 DEF IInv, DataInv
    <3>6. Refills(t)
      <4>1. Full'
        BY <1>1, <3>3, <3>4 DEF Full
      <4> QED BY <1>1, <1>2, <2>1, <2>3, <3>1, <3>3, <3>4, <4>1 DEF Refills, w
    <3> QED BY <3>5, <3>6
  <2> QED BY <2>2, <2>3
<1> QED BY <1>2, <1>3, <1>4, QueuesAssumption

LEMMA MsgqPutWait ==
  ASSUME IInv, NEW t \in Thread, NEW x \in Item, k_msgq_put_wait(t, x)
  PROVE  DataInv' /\ Waits(t, x)
<1>1. /\ kind = "msgq" /\ ring.used_msgs = MaxMsgs /\ Give(x) /\ Pend(t, x)
      /\ UNCHANGED <<kind, list, ring, num_used, prio>>
  BY DEF k_msgq_put_wait
<1>2. Content # << >>
  BY <1>1, ContentCases, MessagesProps, QueuesAssumption DEF IInv, DataInv
<1>3. x # NULL
  BY QueuesAssumption
<1>4. DataInv'
  BY <1>1 DEF IInv, DataInv
<1> QED BY <1>1, <1>2, <1>3, <1>4 DEF Waits, Full

\* Every step is one of these.
LEMMA Effects ==
  ASSUME IInv, Next
  PROVE  \/ DataInv' /\ \E xs \in Seq(Item) : Sends(xs)
         \/ DataInv' /\ \E t \in Thread : \/ Receives(t) \/ Refills(t)
                                          \/ \E x \in Item \cup {NULL} : Waits(t, x)
         \/ \E t \in Thread : handle_one_timeout(t) \/ return(t)
         \/ k_msgq_purge
<1>1. ASSUME NEW x \in Item,
             k_fifo_put(x) \/ k_lifo_put(x) \/ k_stack_push(x) \/ k_mem_slab_free(x) \/ k_msgq_put(x)
      PROVE  DataInv' /\ \E xs \in Seq(Item) : Sends(xs)
  <2>1. DataInv' /\ Sends(<<x>>)
    BY <1>1, FifoPut, SlabFree, MsgqPut
  <2>2. <<x>> \in Seq(Item)
    OBVIOUS
  <2> QED BY <2>1, <2>2
<1>2. ASSUME NEW x \in Item, NEW y \in Item, k_fifo_put_list(x, y)
      PROVE  DataInv' /\ \E xs \in Seq(Item) : Sends(xs)
  <2>1. DataInv' /\ Sends(<<x, y>>)
    BY <1>2, PutList
  <2>2. <<x, y>> \in Seq(Item)
    OBVIOUS
  <2> QED BY <2>1, <2>2
<1>3. ASSUME NEW t \in Thread, NEW x \in Item, k_msgq_put_wait(t, x)
      PROVE  DataInv' /\ Waits(t, x)
  BY <1>3, MsgqPutWait
<1>4. ASSUME NEW t \in Thread, k_fifo_get(t) \/ k_lifo_get(t) \/ k_stack_pop(t) \/ k_mem_slab_alloc(t)
      PROVE  DataInv' /\ (Receives(t) \/ Waits(t, NULL))
  BY <1>4, ListGet
<1>5. ASSUME NEW t \in Thread, k_msgq_get(t)
      PROVE  DataInv' /\ (Receives(t) \/ Refills(t) \/ Waits(t, NULL))
  BY <1>5, MsgqGet
<1> QED BY <1>1, <1>2, <1>3, <1>4, <1>5 DEF Next

LEMMA NextInv ==
  ASSUME IInv, [Next]_vars
  PROVE  IInv'
<1>1. CASE Next
  <2>1. ASSUME NEW xs \in Seq(Item), Sends(xs), DataInv' PROVE IInv'
    BY <2>1, SendStep DEF IInv
  <2>2. ASSUME NEW t \in Thread, Receives(t), DataInv' PROVE IInv'
    BY <2>2, ReceiveStep DEF IInv
  <2>3. ASSUME NEW t \in Thread, Refills(t), DataInv' PROVE IInv'
    BY <2>3, RefillStep DEF IInv
  <2>4. ASSUME NEW t \in Thread, NEW x \in Item \cup {NULL}, Waits(t, x), DataInv' PROVE IInv'
    BY <2>4, PendStep DEF IInv
  <2>5. ASSUME NEW t \in Thread, handle_one_timeout(t) \/ return(t) PROVE IInv'
    BY <2>5, TimeoutStep, ReturnStep
  <2> QED BY <1>1, <2>1, <2>2, <2>3, <2>4, <2>5, PurgeStep, Effects
<1>2. CASE UNCHANGED vars
  <2>1. /\ kind' = kind /\ list' = list /\ ring' = ring /\ num_used' = num_used
        /\ wait_q' = wait_q /\ st' = st /\ app' = app /\ prio' = prio
    BY <1>2 DEF vars
  <2>2. Content' = Content /\ \A t, x : Holds(t, x)' <=> Holds(t, x)
    BY <2>1 DEF Content, Holds
  <2>3. DataInv' /\ WaitInv'
    BY <2>1 DEF IInv, DataInv, WaitInv
  <2>4. PlaceInv'
    BY <2>1, <2>2 DEF IInv, PlaceInv
  <2>5. NobodyWaitsInVain'
    BY <2>1, <2>2 DEF IInv, NobodyWaitsInVain
  <2> QED BY <2>3, <2>4, <2>5 DEF IInv
<1> QED BY <1>1, <1>2

\* The free list of a slab of which no block is out holds all of them.
LEMMA FullFreeList ==
  ASSUME NEW s \in create_free_list
  PROVE  /\ s \in Seq(Item) /\ Len(s) = Cardinality(Item) /\ NoDup(s)
         /\ \A x \in Item : Linked(s, x)
<1> DEFINE n == Cardinality(Item)
<1>1. n \in Nat /\ IsFiniteSet(Item)
  BY QueuesAssumption, FS_CardinalityType
<1>2. s \in [1..n -> Item] /\ NoDup(s)
  BY DEF create_free_list
<1>3. s \in Seq(Item) /\ Len(s) = n
  BY <1>1, <1>2, FunctionIsSeq
<1>4. Cardinality(1..n) = n
  <2>1. 1 \in Int /\ n \in Int
    BY <1>1
  <2> HIDE DEF n
  <2>2. Cardinality(1..n) = IF 1 > n THEN 0 ELSE n - 1 + 1
    BY <2>1, FS_Interval
  <2> QED BY <1>1, <2>2
<1> HIDE DEF n
<1>5. s \in Injection(1..n, Item)
  BY <1>2, <1>3 DEF NoDup, Injection, IsInjective
<1>6. s \in Surjection(1..n, Item)
  BY <1>1, <1>4, <1>5, FS_Injection DEF n
<1>7. \A x \in Item : \E i \in 1..n : s[i] = x
  BY <1>6 DEF Surjection
<1> QED BY <1>2, <1>3, <1>7 DEF n, Linked

LEMMA InitInv == Init => IInv
<1> SUFFICES ASSUME Init PROVE IInv
  OBVIOUS
<1>1. /\ kind \in AllKinds /\ wait_q = << >> /\ num_used = 0 /\ ring = k_msgq_init
      /\ st = [t \in Thread |-> Running] /\ prio \in [Thread -> Int]
  BY QueuesAssumption DEF Init
<1>2. RingOK(ring) /\ ring.used_msgs = 0
  <2>1. MaxMsgs \in Nat /\ MaxMsgs >= 1
    BY QueuesAssumption
  <2>2. /\ ring \in RingState /\ ring.used_msgs = 0 /\ ring.read_ptr = 0 /\ ring.write_ptr = 0
    BY <1>1, <2>1 DEF k_msgq_init, RingState
  <2> QED BY <2>1, <2>2 DEF RingOK
<1>3. /\ kind = "slab" => /\ list \in Seq(Item) /\ Len(list) = Cardinality(Item) /\ NoDup(list)
                          /\ \A x \in Item : Linked(list, x)
                          /\ app = {}
      /\ kind # "slab" => list = << >> /\ app = Item
  BY FullFreeList DEF Init
<1>4. << >> \in Seq(Item) /\ NoDup(<< >>) /\ \A x : ~Linked(<< >>, x)
  BY DEF NoDup, Linked
<1>5. DataInv
  <2>1. Cardinality(Item) \in Nat
    BY QueuesAssumption, FS_CardinalityType
  <2>2. list \in Seq(Item) /\ (kind = "slab" => num_used = Cardinality(Item) - Len(list))
    <3>1. \A c \in Nat : 0 = c - c
      OBVIOUS
    <3>2. kind = "slab" => num_used = Cardinality(Item) - Len(list)
      BY <1>1, <1>3, <2>1, <3>1
    <3>3. list \in Seq(Item)
      BY <1>3, <1>4
    <3> QED BY <3>2, <3>3
  <2> QED BY <1>1, <1>2, <2>2 DEF DataInv
<1>6. Content = list
  BY <1>1, <1>2, <1>3, <1>4, ContentCases, ReversedProps, MessagesProps
<1>7. WaitInv /\ NobodyWaitsInVain
  BY <1>1, <1>4, StateProps DEF WaitInv, NobodyWaitsInVain
<1>8. PlaceInv
  <2>1. \A t \in Thread, x \in Item : ~Holds(t, x)
    BY <1>1, StateProps DEF Holds
  <2> QED BY <1>3, <1>4, <1>6, <2>1 DEF PlaceInv
<1> QED BY <1>5, <1>7, <1>8 DEF IInv

\* The inductive invariant: every item of a fifo, lifo, stack, message queue or slab is
\* in one place, the ring buffer is well formed, the wait queue holds the threads that
\* wait, and these wait for a reason.
THEOREM QueuesInvariant == Spec => []IInv
<1>1. Init => IInv
  BY InitInv
<1>2. IInv /\ [Next]_vars => IInv'
  BY NextInv
<1> QED BY <1>1, <1>2, PTL DEF Spec

\* No item, message or block is lost or duplicated by a put, a get, a handover to a
\* waiting thread, a timeout or a purge, and the slab counts the blocks that are out.
THEOREM QueuesConserve == Spec => []ItemsConserved
<1>1. IInv => ItemsConserved
  <2> SUFFICES ASSUME IInv PROVE ItemsConserved
    OBVIOUS
  <2>1. ASSUME NEW x \in Item
        PROVE  (IF x \in app THEN 1 ELSE 0) + Cardinality(Holders(x))
                 + Cardinality({i \in 1..Len(Content) : Content[i] = x}) = 1
    <3>1. Cardinality({i \in 1..Len(Content) : Content[i] = x}) = IF Linked(Content, x) THEN 1 ELSE 0
      BY ContentType, LinkedOnce DEF IInv, PlaceInv
    <3>2. Cardinality(Holders(x)) = IF \E t \in Thread : Holds(t, x) THEN 1 ELSE 0
      <4>1. Holders(x) = {t \in Thread : Holds(t, x)}
        BY DEF Holders, Holds
      <4>2. CASE \E t \in Thread : Holds(t, x)
        <5>1. PICK t \in Thread : Holds(t, x)
          BY <4>2
        <5>2. Holders(x) = {t}
          BY <4>1, <5>1 DEF IInv, PlaceInv
        <5> QED BY <4>2, <5>2, FS_Singleton
      <4>3. CASE ~\E t \in Thread : Holds(t, x)
        <5>1. Holders(x) = {}
          BY <4>1, <4>3
        <5> QED BY <4>3, <5>1, FS_EmptySet
      <4> QED BY <4>2, <4>3
    <3> DEFINE hs == Cardinality(Holders(x))
               cs == Cardinality({i \in 1..Len(Content) : Content[i] = x})
    <3> HIDE DEF hs, cs
    <3>3. hs = (IF \E t \in Thread : Holds(t, x) THEN 1 ELSE 0)
          /\ cs = (IF Linked(Content, x) THEN 1 ELSE 0)
      BY <3>1, <3>2 DEF hs, cs
    <3>4. (IF x \in app THEN 1 ELSE 0) + hs + cs = 1
      BY <3>3 DEF IInv, PlaceInv
    <3> QED BY <3>4 DEF hs, cs
  <2> QED BY <2>1 DEF ItemsConserved, IInv, DataInv
<1> QED BY <1>1, QueuesInvariant, PTL

\* No wakeup is lost: a thread waits to receive only while the object is empty, and to
\* send only while the message queue is full, whatever is put, taken, purged or times out.
THEOREM QueuesNobodyWaits == Spec => []NobodyWaitsInVain
<1>1. IInv => NobodyWaitsInVain
  BY DEF IInv
<1> QED BY <1>1, QueuesInvariant, PTL

(***************************************************************************)
(* The objects implement Channel.tla                                       *)
(***************************************************************************)

\* The refinement mapping
Recv == [t \in Thread |-> IF st[t].at = "woken" THEN st[t].item ELSE NULL]
Lifo == kind \in {"lifo", "stack", "slab"}

LEMMA SendsRefines ==
  ASSUME IInv, NEW xs, Sends(xs)
  PROVE  Channels!Next
<1>0. PICK n \in Nat : n = Handed(xs)
  BY LenProperties DEF Sends, Handed, IInv, WaitInv
<1>1. /\ xs \in Seq(Item) /\ Len(xs) \in 1..2 /\ NoDup(xs) /\ ~Full /\ Hand(xs) /\ kind' = kind
      /\ Content' = AddedTo(kind, Content, SubSeq(xs, n + 1, Len(xs)))
  BY <1>0 DEF Sends
<1>2. /\ n \in 0..Len(wait_q) /\ n \in 0..Len(xs)
      /\ \A i \in 1..n : /\ wait_q[i] \in Thread /\ Linked(wait_q, wait_q[i])
                         /\ st'[wait_q[i]] = Woken(OK, xs[i])
      /\ \A t \in Thread : (\A i \in 1..n : wait_q[i] # t) => st'[t] = st[t]
  BY <1>0, <1>1, HandProps DEF IInv, Handed
<1>3. Len(wait_q) \in Nat /\ \A i, j \in 1..n : wait_q[i] = wait_q[j] => i = j
  <2>1. Len(wait_q) \in Nat /\ \A i, j \in 1..Len(wait_q) : wait_q[i] = wait_q[j] => i = j
    BY LenProperties DEF IInv, WaitInv, NoDup
  <2>2. \A i \in 1..n : i \in 1..Len(wait_q)
    BY <1>2, <2>1
  <2> QED BY <2>1, <2>2
<1>4a. PICK ts \in [1..n -> Thread] : \A i \in 1..n : ts[i] = wait_q[i]
  <2>1. [i \in 1..n |-> wait_q[i]] \in [1..n -> Thread]
    BY <1>2
  <2> QED BY <2>1
<1>4. /\ ts \in [1..n -> Thread] /\ Len(ts) = n /\ n \in Nat
      /\ \A i \in 1..n : ts[i] = wait_q[i]
  BY <1>4a, FunctionIsSeq
<1>5. \A i \in 1..n : st[wait_q[i]].at = "wait"
  BY <1>2 DEF IInv, WaitInv
<1>6. \A t \in Thread : Linked(wait_q, t) => Content = << >>
  BY <1>1 DEF IInv, NobodyWaitsInVain, Full
<1>7. Channels!Send(xs, ts)
  <2>1. ts # << >> => Content = << >>
    <3>1. ts # << >> => n >= 1
      BY <1>4
    <3>2. n >= 1 => wait_q[1] \in Thread /\ Linked(wait_q, wait_q[1])
      BY <1>2, <1>4
    <3> QED BY <1>6, <3>1, <3>2
  <2>2. \A i, j \in 1..Len(ts) : ts[i] = ts[j] => i = j
    BY <1>3, <1>4
  <2>3. \A i \in 1..Len(ts) : Recv[ts[i]] = NULL
    BY <1>2, <1>4, <1>5 DEF Recv
  <2>4. Recv' = [t \in Thread |-> IF \E i \in 1..Len(ts) : ts[i] = t
                                  THEN xs[CHOOSE i \in 1..Len(ts) : ts[i] = t] ELSE Recv[t]]
    <3>1. ASSUME NEW t \in Thread
          PROVE  Recv'[t] = IF \E i \in 1..n : ts[i] = t
                            THEN xs[CHOOSE i \in 1..n : ts[i] = t] ELSE Recv[t]
      <4>1. CASE \A i \in 1..n : wait_q[i] # t
        BY <1>2, <1>4, <4>1 DEF Recv
      <4>2. ASSUME NEW i \in 1..n, wait_q[i] = t
            PROVE  Recv'[t] = IF \E j \in 1..n : ts[j] = t
                              THEN xs[CHOOSE j \in 1..n : ts[j] = t] ELSE Recv[t]
        <5>1. (CHOOSE j \in 1..n : ts[j] = t) = i
          BY <1>3, <1>4, <4>2
        <5>2. Recv'[t] = xs[i]
          BY <1>2, <4>2, StateProps DEF Recv
        <5> QED BY <1>4, <4>2, <5>1, <5>2
      <4> QED BY <4>1, <4>2
    <3> QED BY <1>4, <3>1 DEF Recv
  <2>5. Content' = IF Lifo THEN SubSeq(xs, Len(ts) + 1, Len(xs)) \o Content
                   ELSE Content \o SubSeq(xs, Len(ts) + 1, Len(xs))
    BY <1>1, <1>4 DEF AddedTo, Lifo
  <2> QED BY <1>1, <2>1, <2>2, <2>3, <2>4, <2>5 DEF Channels!Send, Channels!Added, Recv, Lifo
<1>8. xs \in [1..Len(xs) -> Item]
  BY <1>1, LenProperties
<1>9. \E m \in 1..2 : \E zs \in [1..m -> Item] :
        \E k \in 0..m : \E us \in [1..k -> Thread] : Channels!Send(zs, us)
  BY <1>1, <1>2, <1>4, <1>7, <1>8
<1> QED BY <1>9 DEF Channels!Next

LEMMA ReceivesRefines ==
  ASSUME IInv, NEW t \in Thread, Receives(t)
  PROVE  Channels!Next
<1>1. /\ Content # << >> /\ st[t] = Running /\ st' = [st EXCEPT ![t] = Woken(OK, Head(Content))]
      /\ Content' = Tail(Content) /\ kind' = kind
  BY DEF Receives, Got
<1>2. Content \in Seq(Item) /\ Head(Content) \in Item /\ Tail(Content) \in Seq(Item)
  BY <1>1, ContentType, HeadTailProperties DEF IInv
<1>3. Content' = IF Lifo THEN << >> \o Tail(Content) ELSE Tail(Content) \o << >>
  BY <1>1, <1>2, ConcatEmptySeq
<1>4. Recv[t] = NULL /\ Recv' = [Recv EXCEPT ![t] = Head(Content)]
  <2> DEFINE h == Head(Content)
  <2>1. st' = [st EXCEPT ![t] = Woken(OK, h)]
    BY <1>1
  <2> HIDE DEF h
  <2>2. \A u \in Thread : Recv'[u] = IF u = t THEN h ELSE Recv[u]
    BY <1>1, <2>1, StateProps DEF Recv, IInv, WaitInv
  <2>3. Recv[t] = NULL
    BY <1>1, StateProps DEF Recv
  <2>4. Recv' = [Recv EXCEPT ![t] = h]
    BY <2>2 DEF Recv
  <2> QED BY <2>3, <2>4 DEF h
<1>5. Channels!Receive(t, << >>)
  BY <1>1, <1>3, <1>4 DEF Channels!Receive, Channels!Added, Recv, Lifo
<1> QED BY <1>2, <1>5 DEF Channels!Next

LEMMA RefillsRefines ==
  ASSUME IInv, NEW t \in Thread, Refills(t)
  PROVE  Channels!Next
<1> DEFINE w == Head(wait_q)
           h == Head(Content)
<1>1. /\ Content # << >> /\ wait_q # << >> /\ Full /\ st[t] = Running /\ kind' = kind
      /\ st' = [st EXCEPT ![t] = Woken(OK, h), ![w] = Woken(OK, NULL)]
      /\ Content' = Append(Tail(Content), st[w].item)
  BY DEF Refills
<1>2. Content \in Seq(Item) /\ h \in Item /\ Tail(Content) \in Seq(Item)
  BY <1>1, ContentType, HeadTailProperties DEF IInv
<1>3. w \in Thread /\ Linked(wait_q, w)
  BY <1>1, EmptyUnlinked DEF IInv, WaitInv
<1>4a. st[w].at = "wait" /\ st[w].item \in Item /\ st[t].at = "run"
  BY <1>1, <1>3, StateProps DEF IInv, WaitInv, NobodyWaitsInVain
<1>4b. PICK y \in Item : y = st[w].item
  BY <1>4a
<1>4. st[w].at = "wait" /\ y \in Item /\ y = st[w].item /\ st[t].at = "run"
  BY <1>4a, <1>4b
<1> HIDE DEF w, h
<1>5. Content' = IF Lifo THEN <<y>> \o Tail(Content) ELSE Tail(Content) \o <<y>>
  <2>1. ~Lifo
    BY <1>1 DEF Full, Lifo
  <2>2. Append(Tail(Content), y) = Tail(Content) \o <<y>>
    BY <1>2, <1>4, AppendIsConcat
  <2> QED BY <1>1, <1>4, <2>1, <2>2
<1>6. Recv[t] = NULL /\ Recv' = [Recv EXCEPT ![t] = h]
  <2>1. Recv[t] = NULL
    BY <1>4 DEF Recv
  <2>2. \A u \in Thread : Recv'[u] = IF u = t THEN h ELSE Recv[u]
    BY <1>1, <1>3, <1>4, StateProps DEF Recv, IInv, WaitInv
  <2>3. Recv' = [Recv EXCEPT ![t] = h]
    BY <2>2 DEF Recv
  <2> QED BY <2>1, <2>3
<1>7. Channels!Receive(t, <<y>>)
  BY <1>1, <1>5, <1>6 DEF Channels!Receive, Channels!Added, Recv, Lifo, h
<1>8. \E u \in Thread, x \in Item : Channels!Receive(u, << >>) \/ Channels!Receive(u, <<x>>)
  BY <1>4, <1>7, Zenon
<1> QED BY <1>8 DEF Channels!Next

\* A step that hands out nothing leaves the content alone.
LEMMA WaitsRefines ==
  ASSUME IInv, NEW t \in Thread,
         handle_one_timeout(t) \/ \E x \in Item \cup {NULL} : Waits(t, x)
  PROVE  UNCHANGED <<Lifo, Content, Recv>>
<1>1. kind' = kind /\ Content' = Content
  BY DEF handle_one_timeout, Waits, Content
<1>2. /\ st[t].at # "woken" /\ \A u \in Thread : u # t => st'[u] = st[u]
      /\ st'[t].at = "woken" => st'[t].item = NULL
  <2>1. CASE handle_one_timeout(t)
    BY <2>1, StateProps DEF handle_one_timeout, IInv, WaitInv
  <2>2. ASSUME NEW x \in Item \cup {NULL}, Waits(t, x)
        PROVE  /\ st[t].at # "woken" /\ \A u \in Thread : u # t => st'[u] = st[u]
               /\ st'[t].at = "woken" => st'[t].item = NULL
    <3>1. st[t] = Running /\ st' = [st EXCEPT ![t] = Waiting(x)]
      BY <2>2 DEF Waits, Pend
    <3> QED BY <3>1, StateProps DEF IInv, WaitInv
  <2> QED BY <2>1, <2>2
<1>3. Recv' = Recv
  BY <1>2 DEF Recv
<1> QED BY <1>1, <1>3 DEF Lifo

LEMMA ReturnRefines ==
  ASSUME IInv, NEW t \in Thread, return(t)
  PROVE  Channels!Next
<1>1. st' = [st EXCEPT ![t] = Running] /\ kind' = kind /\ Content' = Content
  BY DEF return, Content
<1>2. \A u \in Thread : Recv'[u] = IF u = t THEN NULL ELSE Recv[u]
  BY <1>1, StateProps DEF Recv, IInv, WaitInv
<1>3. Recv' = [Recv EXCEPT ![t] = NULL]
  BY <1>2 DEF Recv
<1>4. Channels!Return(t)
  BY <1>1, <1>3 DEF Channels!Return, Recv, Lifo
<1> QED BY <1>4 DEF Channels!Next

LEMMA PurgeRefines ==
  ASSUME IInv, k_msgq_purge
  PROVE  Channels!Next
<1>1. /\ kind = "msgq" /\ kind' = kind /\ ring' = Purged(ring)
      /\ st' = [t \in Thread |-> IF Linked(wait_q, t) THEN Woken(ENOMSG, NULL) ELSE st[t]]
  BY DEF k_msgq_purge
<1>2. Content' = << >>
  BY <1>1, PurgedProps DEF IInv, DataInv, Content, Messages
<1>3. Recv' = Recv
  <2>1. \A t \in Thread : Linked(wait_q, t) => st[t].at = "wait"
    BY DEF IInv, WaitInv
  <2>2. \A t \in Thread : Recv'[t] = Recv[t]
    BY <1>1, <2>1, StateProps DEF Recv
  <2> QED BY <2>2 DEF Recv
<1>4. Channels!Purge
  BY <1>1, <1>2, <1>3 DEF Channels!Purge, Recv, Lifo
<1> QED BY <1>4 DEF Channels!Next

\* Fifo, lifo, stack, message queue and slab implement Channel.tla: whoever waits, is
\* handed an item or times out, the items leave in the order of the object.
THEOREM QueuesRefine == Spec => ItemsLeaveInOrder
<1>1. Init => Channels!Init
  <2> SUFFICES ASSUME Init PROVE Channels!Init
    OBVIOUS
  <2>1. IInv
    BY InitInv
  <2>2. Content \in Seq(Item)
    BY <2>1, ContentType DEF IInv
  <2>3. st = [t \in Thread |-> Running]
    BY DEF Init
  <2>4. Recv = [t \in Thread |-> NULL]
    BY <2>3, StateProps DEF Recv
  <2> QED BY <2>2, <2>4 DEF Channels!Init, Recv, Lifo
<1>2. IInv /\ [Next]_vars => [Channels!Next]_Channels!vars
  <2> SUFFICES ASSUME IInv, [Next]_vars
               PROVE  Channels!Next \/ UNCHANGED <<Lifo, Content, Recv>>
    BY DEF Channels!vars, Lifo, Recv
  <2>1. CASE Next
    <3>1. ASSUME NEW t \in Thread, handle_one_timeout(t) \/ return(t)
          PROVE  Channels!Next \/ UNCHANGED <<Lifo, Content, Recv>>
      BY <3>1, WaitsRefines, ReturnRefines
    <3>2. ASSUME NEW t \in Thread, \E x \in Item \cup {NULL} : Waits(t, x)
          PROVE  UNCHANGED <<Lifo, Content, Recv>>
      BY <3>2, WaitsRefines
    <3>3. ASSUME NEW t \in Thread, Receives(t) \/ Refills(t)
          PROVE  Channels!Next
      BY <3>3, ReceivesRefines, RefillsRefines
    <3>4. (\E xs \in Seq(Item) : Sends(xs)) => Channels!Next
      BY SendsRefines
    <3> QED BY <2>1, <3>1, <3>2, <3>3, <3>4, PurgeRefines, Effects
  <2>2. CASE UNCHANGED vars
    BY <2>2 DEF vars, Lifo, Content, Recv
  <2> QED BY <2>1, <2>2
<1> QED BY <1>1, <1>2, QueuesInvariant, PTL DEF Spec, ItemsLeaveInOrder, Channels!Spec

(***************************************************************************)
(* The order in which waiting threads are served                           *)
(***************************************************************************)

Before(s, x, y) == \E i, j \in 1..Len(s) : i < j /\ s[i] = x /\ s[j] = y

LEMMA BeforeAppend ==
  ASSUME NEW T, NEW s \in Seq(T), NEW e \in T, NEW x, NEW y
  PROVE  Before(Append(s, e), x, y) <=> Before(s, x, y) \/ (Linked(s, x) /\ y = e)
<1> DEFINE r == Append(s, e)
<1>1. /\ Len(s) \in Nat /\ Len(r) = Len(s) + 1 /\ \A i \in 1..Len(s) : r[i] = s[i]
      /\ r[Len(s) + 1] = e
  BY LenProperties, AppendProperties
<1> HIDE DEF r
<1>2. ASSUME Before(r, x, y) PROVE Before(s, x, y) \/ (Linked(s, x) /\ y = e)
  <2>1. PICK i, j \in 1..Len(r) : i < j /\ r[i] = x /\ r[j] = y
    BY <1>2 DEF Before
  <2>2. i \in 1..Len(s) /\ s[i] = x
    BY <1>1, <2>1
  <2>3. CASE j = Len(s) + 1
    BY <1>1, <2>1, <2>2, <2>3 DEF Linked
  <2>4. CASE j # Len(s) + 1
    <3>1. j \in 1..Len(s) /\ s[j] = y
      BY <1>1, <2>1, <2>4
    <3> QED BY <2>1, <2>2, <3>1 DEF Before
  <2> QED BY <2>3, <2>4
<1>3. ASSUME Before(s, x, y) PROVE Before(r, x, y)
  <2>1. PICK i, j \in 1..Len(s) : i < j /\ s[i] = x /\ s[j] = y
    BY <1>3 DEF Before
  <2>2. i \in 1..Len(r) /\ j \in 1..Len(r) /\ r[i] = x /\ r[j] = y
    BY <1>1, <2>1
  <2> QED BY <2>1, <2>2 DEF Before
<1>4. ASSUME Linked(s, x), y = e PROVE Before(r, x, y)
  <2>1. PICK i \in 1..Len(s) : s[i] = x
    BY <1>4 DEF Linked
  <2>2. i \in 1..Len(r) /\ Len(s) + 1 \in 1..Len(r) /\ i < Len(s) + 1 /\ r[i] = x
    BY <1>1, <2>1
  <2> QED BY <1>1, <1>4, <2>2 DEF Before
<1> QED BY <1>2, <1>3, <1>4 DEF r

\* Nodes other than the one removed keep their order.
LEMMA BeforeRemove ==
  ASSUME NEW T, NEW s \in Seq(T), NoDup(s), NEW e, NEW x, NEW y
  PROVE  /\ Before(sys_dlist_remove(s, e), x, y) => Before(s, x, y)
         /\ x # e /\ y # e /\ Before(s, x, y) => Before(sys_dlist_remove(s, e), x, y)
<1>1. CASE ~Linked(s, e)
  BY <1>1, RemoveAbsent
<1>2. CASE Linked(s, e)
  <2> DEFINE k == CHOOSE i \in 1..Len(s) : s[i] = e
             l == [i \in 1..(Len(s) - 1) |-> IF i < k THEN s[i] ELSE s[i + 1]]
  <2>1. sys_dlist_remove(s, e) = l
    BY <1>2 DEF sys_dlist_remove
  <2>2. k \in 1..Len(s) /\ s[k] = e /\ Len(s) \in Nat
    BY <1>2, LenProperties DEF Linked
  <2>3. Len(s) - 1 \in Nat /\ \A i \in 1..(Len(s) - 1) : l[i] = IF i < k THEN s[i] ELSE s[i + 1]
    BY <2>2
  <2>4. Len(l) = Len(s) - 1
    <3>1. l \in [1..(Len(s) - 1) -> T]
      BY <2>2, ElementOfSeq
    <3> HIDE DEF l
    <3> QED BY <2>3, <3>1, FunctionIsSeq
  <2> HIDE DEF l, k
  <2>5. ASSUME Before(l, x, y) PROVE Before(s, x, y)
    <3>1. PICK i, j \in 1..Len(l) : i < j /\ l[i] = x /\ l[j] = y
      BY <2>5 DEF Before
    <3> DEFINE a == IF i < k THEN i ELSE i + 1
               b == IF j < k THEN j ELSE j + 1
    <3>2. a \in 1..Len(s) /\ b \in 1..Len(s) /\ a < b
      BY <2>2, <2>4, <3>1
    <3>3. s[a] = x /\ s[b] = y
      BY <2>3, <2>4, <3>1
    <3> HIDE DEF a, b
    <3> QED BY <3>2, <3>3 DEF Before
  <2>6. ASSUME x # e, y # e, Before(s, x, y) PROVE Before(l, x, y)
    <3>1. PICK i, j \in 1..Len(s) : i < j /\ s[i] = x /\ s[j] = y
      BY <2>6 DEF Before
    <3>2. i # k /\ j # k
      BY <2>2, <2>6, <3>1
    <3> DEFINE a == IF i < k THEN i ELSE i - 1
               b == IF j < k THEN j ELSE j - 1
    <3>3. a \in 1..Len(l) /\ b \in 1..Len(l) /\ a < b
      BY <2>2, <2>4, <3>1, <3>2
    <3>4. l[a] = x /\ l[b] = y
      <4>1. l[a] = s[i]
        <5>1. CASE i < k
          BY <2>2, <2>3, <2>4, <3>1, <3>3, <5>1
        <5>2. CASE ~(i < k)
          <6>1. a + 1 = i /\ ~(a < k) /\ a \in 1..(Len(s) - 1)
            BY <2>2, <2>4, <3>1, <3>2, <3>3, <5>2
          <6> HIDE DEF a
          <6> QED BY <2>3, <6>1
        <5> QED BY <5>1, <5>2
      <4>2. l[b] = s[j]
        <5>1. CASE j < k
          BY <2>2, <2>3, <2>4, <3>1, <3>3, <5>1
        <5>2. CASE ~(j < k)
          <6>1. b + 1 = j /\ ~(b < k) /\ b \in 1..(Len(s) - 1)
            BY <2>2, <2>4, <3>1, <3>2, <3>3, <5>2
          <6> HIDE DEF b
          <6> QED BY <2>3, <6>1
        <5> QED BY <5>1, <5>2
      <4> QED BY <3>1, <4>1, <4>2
    <3> HIDE DEF a, b
    <3> QED BY <3>3, <3>4 DEF Before
  <2> QED BY <2>1, <2>5, <2>6
<1> QED BY <1>1, <1>2

\* The node e goes behind nodes that are not of C and before one of C.
LEMMA BeforeInsert ==
  ASSUME NEW T, NEW s \in Seq(T), NEW e \in T, NEW C, ~Linked(s, e), NEW x, NEW y,
         Before(sys_dlist_insert_at(s, e, C), x, y)
  PROVE  \/ Before(s, x, y)
         \/ y = e /\ Linked(s, x) /\ x \notin C
         \/ x = e /\ \E c \in C : Linked(s, c) /\ (y = c \/ Before(s, c, y))
<1> DEFINE P == {i \in 1..Len(s) : s[i] \in C}
           k == IF P = {} THEN Len(s) + 1 ELSE CHOOSE i \in P : \A j \in P : i <= j
           r == [i \in 1..(Len(s) + 1) |->
                   IF i < k THEN s[i] ELSE IF i = k THEN e ELSE s[i - 1]]
<1>1. sys_dlist_insert_at(s, e, C) = r
  BY DEF sys_dlist_insert_at
<1>2. Len(s) \in Nat /\ P \in SUBSET (1..Len(s)) /\ \A i \in 1..Len(s) : s[i] \in T
  BY LenProperties, ElementOfSeq
<1>3. /\ k \in 1..(Len(s) + 1)
      /\ \A i \in 1..Len(s) : i < k => s[i] \notin C
      /\ k <= Len(s) => s[k] \in C
  <2>1. CASE P = {}
    BY <1>2, <2>1
  <2>2. CASE P # {}
    <3>1. \E i \in P : \A j \in P : i <= j
      BY <1>2, <2>2, FirstOf
    <3>2. k \in P /\ \A j \in P : k <= j
      BY <2>2, <3>1
    <3>3. k \in 1..Len(s) /\ s[k] \in C
      BY <3>2
    <3> HIDE DEF k
    <3>4. ASSUME NEW i \in 1..Len(s), i < k PROVE s[i] \notin C
      <4>1. i \notin P
        <5> HIDE DEF P
        <5> QED BY <1>2, <3>2, <3>3, <3>4
      <4> QED BY <4>1
    <3> QED BY <1>2, <3>3, <3>4
  <2> QED BY <2>1, <2>2
<1> HIDE DEF k
<1>4. /\ Len(r) = Len(s) + 1
      /\ \A i \in 1..(Len(s) + 1) : r[i] = IF i < k THEN s[i] ELSE IF i = k THEN e ELSE s[i - 1]
  <2>1. r \in [1..(Len(s) + 1) -> T] /\ Len(s) + 1 \in Nat
    BY <1>2, <1>3
  <2>2. \A i \in 1..(Len(s) + 1) : r[i] = IF i < k THEN s[i] ELSE IF i = k THEN e ELSE s[i - 1]
    OBVIOUS
  <2> HIDE DEF r
  <2> QED BY <2>1, <2>2, FunctionIsSeq
<1> HIDE DEF r
<1>5. PICK i, j \in 1..(Len(s) + 1) : i < j /\ r[i] = x /\ r[j] = y
  BY <1>1, <1>4 DEF Before
<1>6. CASE i # k /\ j # k
  <2> DEFINE a == IF i < k THEN i ELSE i - 1
             b == IF j < k THEN j ELSE j - 1
  <2>1. a \in 1..Len(s) /\ b \in 1..Len(s) /\ a < b
    BY <1>2, <1>3, <1>5, <1>6
  <2>2. s[a] = x /\ s[b] = y
    BY <1>4, <1>5, <1>6
  <2> HIDE DEF a, b
  <2> QED BY <2>1, <2>2 DEF Before
<1>7. CASE j = k
  <2>1. i < k /\ i \in 1..Len(s) /\ r[i] = s[i] /\ r[j] = e
    BY <1>2, <1>3, <1>4, <1>5, <1>7
  <2> QED BY <1>3, <1>5, <2>1 DEF Linked
<1>8. CASE i = k
  <2>1. k \in 1..Len(s) /\ j - 1 \in 1..Len(s) /\ k <= j - 1 /\ r[j] = s[j - 1] /\ r[i] = e
    BY <1>2, <1>3, <1>4, <1>5, <1>8
  <2>2. s[k] \in C /\ Linked(s, s[k])
    BY <1>3, <2>1 DEF Linked
  <2>3. y = s[k] \/ Before(s, s[k], y)
    <3>1. CASE k = j - 1
      BY <1>5, <2>1, <3>1
    <3>2. CASE k < j - 1
      BY <1>5, <2>1, <3>2 DEF Before
    <3> QED BY <2>1, <3>1, <3>2
  <2> QED BY <1>5, <2>1, <2>2, <2>3
<1> QED BY <1>6, <1>7, <1>8

\* What is left of a list after its first n nodes is in the order of the list, and
\* behind these.
LEMMA BeforeDrop ==
  ASSUME NEW T, NEW s \in Seq(T), NoDup(s), NEW n \in 0..Len(s)
  PROVE  /\ \A x, y : Before(SubSeq(s, n + 1, Len(s)), x, y) => Before(s, x, y)
         /\ \A y : \A i \in 1..n : Linked(SubSeq(s, n + 1, Len(s)), y) => Before(s, s[i], y)
<1> DEFINE m == Len(s)
           d == SubSeq(s, n + 1, m)
<1>1. m \in Nat /\ n \in Nat /\ n <= m /\ \A i \in 1..m : s[i] \in T
  BY LenProperties, ElementOfSeq
<1>2. d \in Seq(T) /\ Len(d) = m - n /\ \A i \in 1..(m - n) : d[i] = s[n + i]
  <2>1. n + 1 \in Int /\ m \in Int /\ \A i \in (n + 1)..m : s[i] \in T
    BY <1>1
  <2> HIDE DEF m
  <2>2. /\ d \in Seq(T) /\ Len(d) = (IF n + 1 <= m THEN m - (n + 1) + 1 ELSE 0)
        /\ \A i \in 1..(m - (n + 1) + 1) : d[i] = s[(n + 1) + i - 1]
    BY <2>1, SubSeqProperties
  <2>3. m - (n + 1) + 1 = m - n /\ \A i \in 1..(m - n) : (n + 1) + i - 1 = n + i
    BY <1>1
  <2> QED BY <1>1, <2>2, <2>3
<1> HIDE DEF d
<1>3. ASSUME NEW x, NEW y, Before(d, x, y) PROVE Before(s, x, y)
  <2>1. PICK i, j \in 1..(m - n) : i < j /\ d[i] = x /\ d[j] = y
    BY <1>2, <1>3 DEF Before
  <2>2. n + i \in 1..m /\ n + j \in 1..m /\ n + i < n + j /\ s[n + i] = x /\ s[n + j] = y
    BY <1>1, <1>2, <2>1
  <2> QED BY <2>2 DEF Before
<1>4. ASSUME NEW y, NEW i \in 1..n, Linked(d, y) PROVE Before(s, s[i], y)
  <2>1. PICK j \in 1..(m - n) : d[j] = y
    BY <1>2, <1>4 DEF Linked
  <2>2. i \in 1..m /\ n + j \in 1..m /\ i < n + j /\ s[n + j] = y
    BY <1>1, <1>2, <2>1
  <2> QED BY <2>2 DEF Before
<1> QED BY <1>3, <1>4 DEF d, m

\* Of two threads, t is served before u.
Precedes(t, u) == prio[t] < prio[u] \/ (prio[t] = prio[u] /\ Before(arrived, t, u))

\* The wait queue is in the order of priorities and arrivals.
OrderInv ==
  /\ arrived \in Seq(Thread) /\ NoDup(arrived)
  /\ \A t \in Thread : Linked(arrived, t) <=> Linked(wait_q, t)
  /\ \A t, u \in Thread : Before(wait_q, t, u) => Precedes(t, u)

\* Threads that leave both lists leave the others in order.
LEMMA OrderKept ==
  ASSUME IInv, OrderInv, NEW G \in SUBSET Thread, prio' = prio,
         arrived' \in Seq(Thread), NoDup(arrived'),
         \A t \in Thread : Linked(arrived', t) <=> Linked(arrived, t) /\ t \notin G,
         \A t \in Thread : Linked(wait_q', t) <=> Linked(wait_q, t) /\ t \notin G,
         \A t, u \in Thread : t \notin G /\ u \notin G /\ Before(arrived, t, u) => Before(arrived', t, u),
         \A t, u \in Thread : Before(wait_q', t, u) => Before(wait_q, t, u) /\ t \notin G /\ u \notin G
  PROVE  OrderInv'
BY DEF OrderInv, Precedes

LEMMA BeforeLinked ==
  ASSUME NEW s, NEW x, NEW y, Before(s, x, y)
  PROVE  Linked(s, x) /\ Linked(s, y)
BY DEF Before, Linked

LEMMA WaitsOrder ==
  ASSUME IInv, OrderInv, NEW t \in Thread, NEW x, Waits(t, x)
  PROVE  OrderInv'
<1>1. /\ st[t] = Running /\ wait_q' = WaitInsert(t) /\ arrived' = Append(arrived, t) /\ prio' = prio
  BY DEF Waits, Pend
<1>2. ~Linked(wait_q, t) /\ ~Linked(arrived, t)
  BY <1>1, StateProps DEF IInv, WaitInv, OrderInv
<1>3. /\ arrived' \in Seq(Thread) /\ NoDup(arrived')
      /\ \A u : Linked(arrived', u) <=> Linked(arrived, u) \/ u = t
  BY <1>1, <1>2, AppendNode DEF OrderInv
<1>4. \A u : Linked(wait_q', u) <=> Linked(wait_q, u) \/ u = t
  BY <1>1, InsertAtProps DEF WaitInsert, IInv, WaitInv
<1>5. \A u, v \in Thread : Before(arrived', u, v) <=> Before(arrived, u, v) \/ (Linked(arrived, u) /\ v = t)
  BY <1>1, BeforeAppend DEF OrderInv
<1>6. \A u \in Thread : prio[u] \in Int
  BY DEF IInv, DataInv
<1>7. ASSUME NEW u \in Thread, NEW v \in Thread, Before(wait_q', u, v) PROVE Precedes(u, v)'
  <2> DEFINE C == {w \in Thread : prio[t] < prio[w]}
  <2>1. \/ Before(wait_q, u, v)
        \/ v = t /\ Linked(wait_q, u) /\ u \notin C
        \/ u = t /\ \E c \in C : Linked(wait_q, c) /\ (v = c \/ Before(wait_q, c, v))
    <3>1. wait_q \in Seq(Thread) /\ Before(sys_dlist_insert_at(wait_q, t, C), u, v)
      BY <1>1, <1>7 DEF WaitInsert, IInv, WaitInv
    <3> HIDE DEF C
    <3> QED BY <1>2, <3>1, BeforeInsert
  <2>2. CASE Before(wait_q, u, v)
    BY <1>1, <1>5, <2>2 DEF OrderInv, Precedes
  <2>3. CASE v = t /\ Linked(wait_q, u) /\ u \notin C
    BY <1>1, <1>5, <1>6, <2>3 DEF OrderInv, Precedes
  <2>4. ASSUME u = t, NEW c \in C, Linked(wait_q, c), v = c \/ Before(wait_q, c, v)
        PROVE  Precedes(u, v)'
    <3>1. prio[t] < prio[c] /\ c \in Thread
      BY <2>4
    <3>2. prio[c] <= prio[v]
      BY <1>6, <2>4, <3>1 DEF OrderInv, Precedes
    <3> QED BY <1>1, <1>6, <2>4, <3>1, <3>2 DEF Precedes
  <2> QED BY <2>1, <2>2, <2>3, <2>4
<1>8. \A u \in Thread : Linked(arrived', u) <=> Linked(wait_q', u)
  BY <1>3, <1>4 DEF OrderInv
<1> QED BY <1>3, <1>7, <1>8 DEF OrderInv

LEMMA SendsOrder ==
  ASSUME IInv, OrderInv, NEW xs, Sends(xs)
  PROVE  /\ OrderInv'
         /\ \A t, u \in Thread : Linked(wait_q, t) /\ ~Linked(wait_q', t) /\ Linked(wait_q', u)
                                   => Before(wait_q, t, u)
         /\ \A t \in Thread : st'[t].at = "woken" => ~Linked(wait_q', t)
<1> DEFINE n == Handed(xs)
<1>1. xs \in Seq(Item) /\ Len(xs) \in 1..2 /\ Hand(xs) /\ prio' = prio
  BY DEF Sends
<1>2. /\ n \in 0..Len(wait_q) /\ n \in 0..Len(xs)
      /\ \A t \in Thread : Linked(wait_q', t) <=>
           Linked(wait_q, t) /\ ~\E i \in 1..n : wait_q[i] = t
      /\ \A i \in 1..n : wait_q[i] \in Thread
      /\ \A t \in Thread : (\A i \in 1..n : wait_q[i] # t) => st'[t] = st[t]
  BY <1>1, HandProps DEF IInv, Handed
<1>3. /\ wait_q' = SubSeq(wait_q, n + 1, Len(wait_q))
      /\ arrived' = CASE n = 0 -> arrived
                      [] n = 1 -> sys_dlist_remove(arrived, wait_q[1])
                      [] n = 2 -> sys_dlist_remove(sys_dlist_remove(arrived, wait_q[1]), wait_q[2])
  BY <1>1 DEF Hand, Handed
<1> HIDE DEF n
<1>4. n \in {0, 1, 2}
  <2>1. n \in 0..Len(xs) /\ Len(xs) \in 1..2
    BY <1>1, <1>2
  <2>2. \A l \in 1..2 : \A k \in 0..l : k \in {0, 1, 2}
    OBVIOUS
  <2> QED BY <2>1, <2>2, Zenon
<1>5. /\ \A x, y : Before(wait_q', x, y) => Before(wait_q, x, y)
      /\ \A y : \A i \in 1..n : Linked(wait_q', y) => Before(wait_q, wait_q[i], y)
  BY <1>2, <1>3, BeforeDrop DEF IInv, WaitInv
<1> DEFINE G == {t \in Thread : \E i \in 1..n : wait_q[i] = t}
<1>6. /\ arrived' \in Seq(Thread) /\ NoDup(arrived')
      /\ \A t \in Thread : Linked(arrived', t) <=> Linked(arrived, t) /\ t \notin G
      /\ \A t, u \in Thread : t \notin G /\ u \notin G /\ Before(arrived, t, u) => Before(arrived', t, u)
  <2>1. arrived \in Seq(Thread) /\ NoDup(arrived)
    BY DEF OrderInv
  <2>2. CASE n = 0
    <3>1. arrived' = arrived /\ \A t \in Thread : t \notin G
      BY <1>3, <2>2
    <3> QED BY <2>1, <3>1
  <2>3. CASE n = 1
    <3>1. arrived' = sys_dlist_remove(arrived, wait_q[1]) /\ \A t \in Thread : t \in G <=> t = wait_q[1]
      BY <1>3, <2>3
    <3> HIDE DEF G
    <3> QED BY <2>1, <3>1, UnlinkProps, BeforeRemove
  <2>4. CASE n = 2
    <3> DEFINE b == sys_dlist_remove(arrived, wait_q[1])
    <3>1. /\ arrived' = sys_dlist_remove(b, wait_q[2])
          /\ \A t \in Thread : t \in G <=> t = wait_q[1] \/ t = wait_q[2]
      BY <1>3, <2>4
    <3>2. /\ b \in Seq(Thread) /\ NoDup(b)
          /\ \A t : Linked(b, t) <=> Linked(arrived, t) /\ t # wait_q[1]
          /\ \A t, u : t # wait_q[1] /\ u # wait_q[1] /\ Before(arrived, t, u) => Before(b, t, u)
      BY <2>1, UnlinkProps, BeforeRemove
    <3> HIDE DEF b, G
    <3>3. /\ arrived' \in Seq(Thread) /\ NoDup(arrived')
          /\ \A t : Linked(arrived', t) <=> Linked(b, t) /\ t # wait_q[2]
          /\ \A t, u : t # wait_q[2] /\ u # wait_q[2] /\ Before(b, t, u) => Before(arrived', t, u)
      BY <3>1, <3>2, UnlinkProps, BeforeRemove
    <3> QED BY <3>1, <3>2, <3>3
  <2> QED BY <1>4, <2>2, <2>3, <2>4
<1>7. \A t \in Thread : Linked(wait_q', t) <=> Linked(wait_q, t) /\ t \notin G
  BY <1>2
<1>8. G \in SUBSET Thread
  OBVIOUS
<1>9. \A t, u \in Thread : Linked(wait_q, t) /\ ~Linked(wait_q', t) /\ Linked(wait_q', u)
                             => Before(wait_q, t, u)
  BY <1>2, <1>5
<1>10. \A t \in Thread : st'[t].at = "woken" => ~Linked(wait_q', t)
  BY SendStep DEF WaitInv
<1> HIDE DEF G
<1>11. \A t, u \in Thread : Before(wait_q', t, u) => Before(wait_q, t, u) /\ t \notin G /\ u \notin G
  BY <1>5, <1>7, BeforeLinked
<1>12. OrderInv'
  BY <1>1, <1>6, <1>7, <1>8, <1>11, OrderKept
<1> QED BY <1>9, <1>10, <1>12

\* One thread leaves both lists: the first one, or one whose wait times out.
LEMMA LeaveOrder ==
  ASSUME IInv, OrderInv, NEW t \in Thread, prio' = prio,
         arrived' = sys_dlist_remove(arrived, t),
         \A u \in Thread : Linked(wait_q', u) <=> Linked(wait_q, u) /\ u # t,
         \A u, v : Before(wait_q', u, v) => Before(wait_q, u, v)
  PROVE  OrderInv'
<1> DEFINE G == {t}
<1>1. /\ arrived' \in Seq(Thread) /\ NoDup(arrived')
      /\ \A u : Linked(arrived', u) <=> Linked(arrived, u) /\ u # t
      /\ \A u, v \in Thread : u # t /\ v # t /\ Before(arrived, u, v) => Before(arrived', u, v)
  BY UnlinkProps, BeforeRemove DEF OrderInv
<1>2. G \in SUBSET Thread /\ \A u : u \in G <=> u = t
  OBVIOUS
<1> HIDE DEF G
<1>3. \A u, v \in Thread : Before(wait_q', u, v) => Before(wait_q, u, v) /\ u \notin G /\ v \notin G
  BY <1>2, BeforeLinked
<1>4. \A u \in Thread : Linked(arrived', u) <=> Linked(arrived, u) /\ u \notin G
  BY <1>1, <1>2
<1>5. \A u \in Thread : Linked(wait_q', u) <=> Linked(wait_q, u) /\ u \notin G
  BY <1>2
<1>6. \A u, v \in Thread : u \notin G /\ v \notin G /\ Before(arrived, u, v) => Before(arrived', u, v)
  BY <1>1, <1>2
<1> QED BY <1>1, <1>2, <1>3, <1>4, <1>5, <1>6, OrderKept

LEMMA RefillsOrder ==
  ASSUME IInv, OrderInv, NEW t \in Thread, Refills(t)
  PROVE  /\ OrderInv'
         /\ \A u, v \in Thread : Linked(wait_q, u) /\ ~Linked(wait_q', u) /\ Linked(wait_q', v)
                                   => Before(wait_q, u, v)
         /\ \A u \in Thread : st'[u].at = "woken" => ~Linked(wait_q', u)
<1>1. /\ wait_q # << >> /\ wait_q' = Tail(wait_q) /\ prio' = prio
      /\ arrived' = sys_dlist_remove(arrived, Head(wait_q))
  BY DEF Refills
<1>2. PICK w \in Thread : /\ w = Head(wait_q) /\ w = wait_q[1]
                          /\ \A u : Linked(wait_q', u) <=> Linked(wait_q, u) /\ u # w
  <2>1. /\ Head(wait_q) \in Thread
        /\ \A u : Linked(wait_q', u) <=> Linked(wait_q, u) /\ u # Head(wait_q)
    BY <1>1, TailProps DEF IInv, WaitInv
  <2>2. Head(wait_q) = wait_q[1]
    BY <1>1 DEF IInv, WaitInv
  <2> QED BY <2>1, <2>2
<1>3. wait_q' = SubSeq(wait_q, 2, Len(wait_q)) /\ 1 \in 0..Len(wait_q)
  BY <1>1, TailIsSubSeq, EmptySeq DEF IInv, WaitInv
<1>4. /\ \A x, y : Before(SubSeq(wait_q, 1 + 1, Len(wait_q)), x, y) => Before(wait_q, x, y)
      /\ \A y : \A i \in 1..1 : Linked(SubSeq(wait_q, 1 + 1, Len(wait_q)), y) => Before(wait_q, wait_q[i], y)
  BY <1>3, BeforeDrop DEF IInv, WaitInv
<1>5. /\ \A x, y : Before(wait_q', x, y) => Before(wait_q, x, y)
      /\ \A y : Linked(wait_q', y) => Before(wait_q, w, y)
  <2>1. SubSeq(wait_q, 1 + 1, Len(wait_q)) = wait_q'
    BY <1>3
  <2>2. 1 \in 1..1
    OBVIOUS
  <2>3. \A x, y : Before(wait_q', x, y) => Before(wait_q, x, y)
    BY <1>4, <2>1
  <2>4. \A y : Linked(wait_q', y) => Before(wait_q, wait_q[1], y)
    BY <1>4, <2>1, <2>2
  <2> QED BY <1>2, <2>3, <2>4
<1>6. OrderInv'
  BY <1>1, <1>2, <1>5, LeaveOrder
<1>7. \A u \in Thread : st'[u].at = "woken" => ~Linked(wait_q', u)
  BY RefillStep DEF WaitInv
<1> QED BY <1>2, <1>5, <1>6, <1>7

\* A thread that was waiting and is woken with OK was the first in order of those
\* that go on waiting.
Serves ==
  \A t, u \in Thread :
    /\ Linked(wait_q, t) /\ st'[t].at = "woken" /\ st'[t].ret = OK
    /\ Linked(wait_q, u) /\ Linked(wait_q', u)
    => Precedes(t, u)

LEMMA OrderNext ==
  ASSUME IInv, OrderInv, [Next]_vars
  PROVE  OrderInv' /\ Serves
<1>1. ASSUME NEW xs \in Seq(Item), Sends(xs) PROVE OrderInv' /\ Serves
  BY <1>1, SendsOrder DEF OrderInv, Serves
<1>2. ASSUME NEW t \in Thread, Receives(t) PROVE OrderInv' /\ Serves
  <2>1. /\ wait_q = << >> /\ UNCHANGED <<wait_q, arrived, prio>>
    BY <1>2 DEF Receives, Got
  <2>2. \A u \in Thread : ~Linked(wait_q, u)
    BY <2>1 DEF Linked
  <2> QED BY <2>1, <2>2 DEF OrderInv, Precedes, Serves
<1>3. ASSUME NEW t \in Thread, Refills(t) PROVE OrderInv' /\ Serves
  BY <1>3, RefillsOrder DEF OrderInv, Serves
<1>4. ASSUME NEW t \in Thread, NEW x \in Item \cup {NULL}, Waits(t, x) PROVE OrderInv' /\ Serves
  <2>1. WaitInv' /\ \A u : Linked(wait_q, u) => Linked(wait_q', u)
    <3>1. wait_q' = WaitInsert(t)
      BY <1>4 DEF Waits, Pend
    <3> QED BY <1>4, <3>1, PendStep, InsertAtProps DEF WaitInsert, IInv, WaitInv
  <2>2. Serves
    BY <2>1 DEF Serves, WaitInv
  <2> QED BY <1>4, <2>2, WaitsOrder
<1>5. ASSUME NEW t \in Thread, handle_one_timeout(t) PROVE OrderInv' /\ Serves
  <2>1. /\ wait_q' = sys_dlist_remove(wait_q, t) /\ arrived' = sys_dlist_remove(arrived, t)
        /\ st' = [st EXCEPT ![t] = Woken(EAGAIN, NULL)] /\ prio' = prio
    BY <1>5 DEF handle_one_timeout
  <2>2. \A u \in Thread : Linked(wait_q', u) <=> Linked(wait_q, u) /\ u # t
    BY <2>1, UnlinkProps DEF IInv, WaitInv
  <2>3. \A u, v : Before(wait_q', u, v) => Before(wait_q, u, v)
    BY <2>1, BeforeRemove DEF IInv, WaitInv
  <2>4. OrderInv'
    BY <2>1, <2>2, <2>3, LeaveOrder
  <2>5. st'[t].ret = EAGAIN /\ EAGAIN # OK /\ \A u \in Thread : u # t => st'[u] = st[u]
    BY <2>1, StateProps DEF IInv, WaitInv, EAGAIN, OK
  <2>6. Serves
    BY <2>5 DEF Serves, IInv, WaitInv
  <2> QED BY <2>4, <2>6
<1>6. ASSUME NEW t \in Thread, return(t) PROVE OrderInv' /\ Serves
  <2>1. /\ UNCHANGED <<wait_q, arrived, prio>>
    BY <1>6 DEF return
  <2>2. WaitInv'
    BY <1>6, ReturnStep DEF IInv
  <2> QED BY <2>1, <2>2 DEF OrderInv, Precedes, Serves, WaitInv
<1>7. ASSUME k_msgq_purge PROVE OrderInv' /\ Serves
  <2>1. wait_q' = << >> /\ arrived' = << >>
    BY <1>7 DEF k_msgq_purge
  <2>2. NoDup(<< >>) /\ << >> \in Seq(Thread)
        /\ \A x, y : ~Linked(<< >>, x) /\ ~Before(<< >>, x, y)
    BY DEF NoDup, Linked, Before
  <2> QED BY <2>1, <2>2 DEF OrderInv, Serves
<1>8. CASE UNCHANGED vars
  BY <1>8 DEF vars, OrderInv, Precedes, Serves, IInv, WaitInv
<1> QED BY <1>1, <1>2, <1>3, <1>4, <1>5, <1>6, <1>7, <1>8, Effects

\* Of the threads that wait, the one of the highest priority that has waited longest is
\* handed the item, or has its message taken, first: an order of the wait queue that
\* priority insertion, timeouts and handovers of one or two items all preserve.
THEOREM QueuesServeInOrder == Spec => ServedInOrder
<1>1. Init => OrderInv
  <2>1. NoDup(<< >>) /\ << >> \in Seq(Thread)
        /\ \A x, y : ~Linked(<< >>, x) /\ ~Before(<< >>, x, y)
    BY DEF NoDup, Linked, Before
  <2> QED BY <2>1 DEF Init, OrderInv
<1>2. IInv /\ OrderInv /\ [Next]_vars => OrderInv'
  BY OrderNext
<1>3. IInv /\ OrderInv /\ [Next]_vars =>
        [\A t, u \in Thread :
           /\ Linked(wait_q, t) /\ st'[t].at = "woken" /\ st'[t].ret = OK
           /\ Linked(wait_q, u) /\ Linked(wait_q', u)
           => \/ prio[t] < prio[u]
              \/ /\ prio[t] = prio[u]
                 /\ \E i, j \in 1..Len(arrived) : i < j /\ arrived[i] = t /\ arrived[j] = u]_vars
  BY OrderNext DEF Serves, Precedes, Before
<1> QED BY <1>1, <1>2, <1>3, QueuesInvariant, PTL DEF Spec, ServedInOrder
=============================================================================
