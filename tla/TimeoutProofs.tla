--------------------------- MODULE TimeoutProofs ---------------------------
(***************************************************************************)
(* Proofs about the timeout queue and its two users, the timers and the    *)
(* SysTick driver.                                                         *)
(*                                                                         *)
(* A timeout holds only the distance to the one before it, so that what is *)
(* left of it is a sum over the queue.  The proofs never reason about the  *)
(* sum: Times says locally, link by link, that r is what is left of every  *)
(* timeout, and every operation of timeout_q.h is shown to take a queue of *)
(* which Times holds with r to one of which it holds with r changed at one *)
(* timeout, or with the same ticks taken from all.                         *)
(***************************************************************************)
EXTENDS Timer, SysTick, DListProofs

(***************************************************************************)
(* The sums                                                                *)
(***************************************************************************)

\* The least counterexample of a fact about the positions of a queue
LEMMA LeastIndex ==
  ASSUME NEW n \in Nat, NEW S \in SUBSET (0..n), S # {}
  PROVE  \E m \in S : \A x \in S : m <= x
<1>1. S \in SUBSET Int /\ \A x \in S : 0 <= x
  OBVIOUS
<1>2. 0 \in Int
  OBVIOUS
<1> QED
  BY <1>1, <1>2, LeastElement, Zenon

\* s holds the sums of the first deltas of the queue q, up to the n-th.
SumsUpTo(q, d, n, s) == s = [i \in 0..n |-> IF i = 0 THEN 0 ELSE s[i - 1] + d[q[i]]]

\* The recursive definition of Sums has a value: by the least n without sums.
LEMMA SumsExist ==
  ASSUME NEW q \in Seq(Timeout), NEW d \in [Timeout -> Int], NEW n \in 0..Len(q)
  PROVE  \E s : SumsUpTo(q, d, n, s)
<1> DEFINE Bad == {m \in 0..Len(q) : ~\E s : SumsUpTo(q, d, m, s)}
<1>l. Len(q) \in Nat
  BY LenProperties
<1>1. SUFFICES ASSUME Bad # {} PROVE FALSE
  OBVIOUS
<1>2. PICK m \in Bad : \A x \in Bad : m <= x
  <2>1. Bad \in SUBSET (0..Len(q))
    OBVIOUS
  <2> HIDE DEF Bad
  <2> QED
    BY <1>1, <1>l, <2>1, LeastIndex
<1>3. SumsUpTo(q, d, 0, [i \in 0..0 |-> 0])
  BY DEF SumsUpTo
<1>4. m \in Nat /\ m # 0 /\ m - 1 \in 0..Len(q) /\ m - 1 \notin Bad
  <2>1. m \in 0..Len(q) /\ m # 0
    BY <1>3
  <2>2. m - 1 \in 0..Len(q) /\ ~(m <= m - 1)
    BY <2>1, <1>l
  <2> HIDE DEF Bad
  <2> QED
    BY <1>2, <1>l, <2>1, <2>2
<1>5. PICK s : SumsUpTo(q, d, m - 1, s)
  BY <1>4
<1> DEFINE r == [i \in 0..m |-> IF i = m THEN s[m - 1] + d[q[m]] ELSE s[i]]
<1>6. ASSUME NEW i \in 0..m
      PROVE  r[i] = IF i = 0 THEN 0 ELSE r[i - 1] + d[q[i]]
  <2>1. \A j \in 0..(m - 1) : s[j] = IF j = 0 THEN 0 ELSE s[j - 1] + d[q[j]]
    BY <1>4, <1>5, Zenon DEF SumsUpTo
  <2>2. CASE i = m
    BY <2>2, <1>4
  <2>3. CASE i # m
    <3>1. i \in 0..(m - 1) /\ r[i] = s[i] /\ (i # 0 => r[i - 1] = s[i - 1])
      BY <2>3, <1>4
    <3> QED
      BY <3>1, <2>1
  <2> QED
    BY <2>2, <2>3
<1>7. SumsUpTo(q, d, m, r)
  <2>1. r = [i \in 0..m |-> r[i]]
    OBVIOUS
  <2> HIDE DEF r
  <2>2. [i \in 0..m |-> r[i]] = [i \in 0..m |-> IF i = 0 THEN 0 ELSE r[i - 1] + d[q[i]]]
    BY <1>6
  <2> QED
    BY <2>1, <2>2, Zenon DEF SumsUpTo
<1> QED
  BY <1>2, <1>7

\* What Sums computes
LEMMA SumsProps ==
  ASSUME NEW q \in Seq(Timeout), NEW d \in [Timeout -> Int]
  PROVE  /\ Sums(q, d)[0] = 0
         /\ \A i \in 1..Len(q) : Sums(q, d)[i] = Sums(q, d)[i - 1] + d[q[i]]
<1>l. Len(q) \in Nat
  BY LenProperties
<1>1. \E s : s = [i \in 0..Len(q) |-> IF i = 0 THEN 0 ELSE s[i - 1] + d[q[i]]]
  <2>1. Len(q) \in 0..Len(q)
    BY <1>l
  <2>2. \E s : SumsUpTo(q, d, Len(q), s)
    BY <2>1, SumsExist
  <2> QED
    BY <2>2, Zenon DEF SumsUpTo
<1>2. Sums(q, d) = CHOOSE s : s = [i \in 0..Len(q) |-> IF i = 0 THEN 0 ELSE s[i - 1] + d[q[i]]]
  BY DEF Sums
<1>3. Sums(q, d) = [i \in 0..Len(q) |-> IF i = 0 THEN 0 ELSE Sums(q, d)[i - 1] + d[q[i]]]
  BY <1>1, <1>2
<1> HIDE DEF Sums
<1>4. \A i \in 0..Len(q) : Sums(q, d)[i] = IF i = 0 THEN 0 ELSE Sums(q, d)[i - 1] + d[q[i]]
  BY <1>3, Zenon
<1> QED
  BY <1>4, <1>l

(***************************************************************************)
(* A well-formed queue, and what is left of its timeouts                   *)
(***************************************************************************)

WellFormed(Q) ==
  /\ Q.q \in Seq(Timeout) /\ Q.d \in [Timeout -> Int]
  /\ NoDup(Q.q)
  /\ \A t \in Timeout : Linked(Q.q, t) <=> Q.d[t] # -1
  /\ \A t \in Timeout : Q.d[t] >= -1

\* r is what is left of each timeout of the queue Q, -1 for those that are not on it.
Times(Q, r) ==
  /\ r \in [Timeout -> Int]
  /\ \A t \in Timeout : ~Linked(Q.q, t) => r[t] = -1
  /\ \A i \in 1..Len(Q.q) : r[Q.q[i]] = (IF i = 1 THEN 0 ELSE r[Q.q[i - 1]]) + Q.d[Q.q[i]]

LEMMA WellFormedOf ==
  ASSUME NEW Q, NEW q, NEW d, Q.q = q, Q.d = d,
         q \in Seq(Timeout), d \in [Timeout -> Int], NoDup(q),
         \A t \in Timeout : (Linked(q, t) <=> d[t] # -1) /\ d[t] >= -1
  PROVE  WellFormed(Q)
BY Zenon DEF WellFormed

LEMMA TimesOf ==
  ASSUME NEW Q, NEW q, NEW d, Q.q = q, Q.d = d, NEW r,
         r \in [Timeout -> Int],
         \A t \in Timeout : ~Linked(q, t) => r[t] = -1,
         \A i \in 1..Len(q) : r[q[i]] = (IF i = 1 THEN 0 ELSE r[q[i - 1]]) + d[q[i]]
  PROVE  Times(Q, r)
BY Zenon DEF Times

\* Such an r agrees with the sums.
LEMMA TimesAreSums ==
  ASSUME NEW Q, WellFormed(Q), NEW r, Times(Q, r)
  PROVE  /\ RemainingAt(Q.q, Q.d, 0) = 0
         /\ \A i \in 1..Len(Q.q) : RemainingAt(Q.q, Q.d, i) = r[Q.q[i]]
<1> DEFINE q == Q.q
           d == Q.d
           s == Sums(q, d)
           Bad == {i \in 1..Len(q) : s[i] # r[q[i]]}
<1>l. q \in Seq(Timeout) /\ d \in [Timeout -> Int] /\ Len(q) \in Nat
  BY LenProperties DEF WellFormed
<1>s. s[0] = 0 /\ \A i \in 1..Len(q) : s[i] = s[i - 1] + d[q[i]]
  <2> HIDE DEF q, d
  <2> QED
    BY <1>l, SumsProps
<1>r. \A i \in 1..Len(q) : r[q[i]] = (IF i = 1 THEN 0 ELSE r[q[i - 1]]) + d[q[i]]
  BY DEF Times
<1>1. Bad = {}
  <2> HIDE DEF q, d, s
  <2>1. SUFFICES ASSUME Bad # {} PROVE FALSE
    OBVIOUS
  <2>2. PICK m \in Bad : \A x \in Bad : m <= x
    <3>1. Bad \in SUBSET (1..Len(q))
      OBVIOUS
    <3> HIDE DEF Bad
    <3> QED
      BY <2>1, <1>l, <3>1, FirstOf
  <2>3. m \in 1..Len(q) /\ s[m] # r[q[m]]
    OBVIOUS
  <2>4. CASE m = 1
    BY <2>3, <2>4, <1>s, <1>r
  <2>5. CASE m # 1
    <3>1. m - 1 \in 1..Len(q) /\ ~(m <= m - 1)
      BY <2>3, <2>5, <1>l
    <3>2. s[m - 1] = r[q[m - 1]]
      BY <3>1, <2>2
    <3> QED
      BY <3>2, <2>3, <2>5, <1>s, <1>r
  <2> QED
    BY <2>4, <2>5
<1> QED
  BY <1>1, <1>s DEF RemainingAt

\* remaining() is what is left, of a well-formed queue.
LEMMA RemainingIsTimes ==
  ASSUME NEW q, NEW d, NEW Q, Q.q = q, Q.d = d, WellFormed(Q), NEW r, Times(Q, r)
  PROVE  r = [t \in Timeout |-> IF d[t] # -1
                               THEN RemainingAt(q, d, CHOOSE i \in 1..Len(q) : q[i] = t) ELSE -1]
<1>1. ASSUME NEW t \in Timeout
      PROVE  r[t] = IF d[t] # -1
                    THEN RemainingAt(q, d, CHOOSE i \in 1..Len(q) : q[i] = t) ELSE -1
  <2>1. CASE d[t] = -1
    BY <2>1 DEF WellFormed, Times
  <2>2. CASE d[t] # -1
    <3> DEFINE k == CHOOSE i \in 1..Len(q) : q[i] = t
    <3>1. k \in 1..Len(q) /\ q[k] = t
      BY <2>2 DEF WellFormed, Linked
    <3> HIDE DEF k
    <3>2. RemainingAt(q, d, k) = r[t]
      BY <3>1, TimesAreSums
    <3> QED
      BY <3>2, <2>2 DEF k
  <2> QED
    BY <2>1, <2>2
<1> QED
  BY <1>1 DEF Times

\* What is left of the timeouts of a well-formed queue exists.
LEMMA TimesExist ==
  ASSUME NEW Q, WellFormed(Q)
  PROVE  \E r : Times(Q, r)
<1> DEFINE q == Q.q
           d == Q.d
           s == Sums(q, d)
           Pos(t) == CHOOSE i \in 1..Len(q) : q[i] = t
           r == [t \in Timeout |-> IF Linked(q, t) THEN s[Pos(t)] ELSE -1]
<1>l. q \in Seq(Timeout) /\ d \in [Timeout -> Int] /\ Len(q) \in Nat /\ NoDup(q)
  BY LenProperties DEF WellFormed
<1>e. \A i \in 1..Len(q) : q[i] \in Timeout /\ Linked(q, q[i])
  BY <1>l, ElementOfSeq DEF Linked
<1>s. s[0] = 0 /\ \A i \in 1..Len(q) : s[i] = s[i - 1] + d[q[i]]
  <2> HIDE DEF q, d
  <2> QED
    BY <1>l, SumsProps
<1>p. ASSUME NEW i \in 1..Len(q) PROVE r[q[i]] = s[i]
  <2>1. Pos(q[i]) = i
    BY <1>l DEF NoDup
  <2> HIDE DEF q, d, s, Pos
  <2> QED
    BY <1>e, <2>1
<1>i. \A i \in 1..Len(q) : s[i] \in Int
  <2> DEFINE Bad == {i \in 1..Len(q) : s[i] \notin Int}
  <2> HIDE DEF q, d, s
  <2>1. SUFFICES ASSUME Bad # {} PROVE FALSE
    OBVIOUS
  <2>2. PICK m \in Bad : \A x \in Bad : m <= x
    <3>1. Bad \in SUBSET (1..Len(q))
      OBVIOUS
    <3> HIDE DEF Bad
    <3> QED
      BY <2>1, <1>l, <3>1, FirstOf
  <2>3. m \in 1..Len(q) /\ s[m] \notin Int
    OBVIOUS
  <2>4. d[q[m]] \in Int
    BY <2>3, <1>e, <1>l
  <2>5. s[m - 1] \in Int
    <3>1. CASE m = 1
      BY <3>1, <1>s
    <3>2. CASE m # 1
      <4>1. m - 1 \in 1..Len(q) /\ ~(m <= m - 1)
        BY <2>3, <3>2, <1>l
      <4> QED
        BY <4>1, <2>2
    <3> QED
      BY <3>1, <3>2
  <2> QED
    BY <2>3, <2>4, <2>5, <1>s
<1>1. r \in [Timeout -> Int]
  <2>1. ASSUME NEW t \in Timeout, Linked(q, t) PROVE s[Pos(t)] \in Int
    <3>1. Pos(t) \in 1..Len(q)
      BY <2>1 DEF Linked
    <3> HIDE DEF q, d, s, Pos
    <3> QED
      BY <3>1, <1>i
  <2> HIDE DEF q, d, s, Pos
  <2> QED
    BY <2>1
<1>2. \A t \in Timeout : ~Linked(q, t) => r[t] = -1
  OBVIOUS
<1>3. \A i \in 1..Len(q) : r[q[i]] = (IF i = 1 THEN 0 ELSE r[q[i - 1]]) + d[q[i]]
  <2> SUFFICES ASSUME NEW i \in 1..Len(q)
               PROVE  r[q[i]] = (IF i = 1 THEN 0 ELSE r[q[i - 1]]) + d[q[i]]
    OBVIOUS
  <2> HIDE DEF q, d, s, r
  <2>1. i # 1 => i - 1 \in 1..Len(q)
    BY <1>l
  <2> QED
    BY <2>1, <1>p, <1>s
<1> QED
  BY <1>1, <1>2, <1>3, Zenon DEF Times

(***************************************************************************)
(* The operations of timeout_q.h                                           *)
(***************************************************************************)

\* The first timeout of a queue has its delta left, and no other has less.
LEMMA HeadIsFirst ==
  ASSUME NEW Q, WellFormed(Q), NEW r, Times(Q, r), Q.q # << >>
  PROVE  /\ Head(Q.q) \in Timeout /\ Linked(Q.q, Head(Q.q))
         /\ r[Head(Q.q)] = Q.d[Head(Q.q)]
         /\ Q.d[Head(Q.q)] >= 0
         /\ \A t \in Timeout : Linked(Q.q, t) => r[t] >= r[Head(Q.q)]
<1> DEFINE q == Q.q
           d == Q.d
<1>l. q \in Seq(Timeout) /\ d \in [Timeout -> Int] /\ Len(q) \in Nat /\ Len(q) >= 1
  BY LenProperties, EmptySeq DEF WellFormed
<1>e. \A i \in 1..Len(q) : q[i] \in Timeout /\ r[q[i]] \in Int /\ d[q[i]] \in Int /\ d[q[i]] >= 0
  <2>1. \A i \in 1..Len(q) : q[i] \in Timeout /\ Linked(q, q[i])
    BY <1>l, ElementOfSeq DEF Linked
  <2> QED
    BY <2>1, SMTT(60) DEF WellFormed, Times
<1>r. \A i \in 1..Len(q) : r[q[i]] = (IF i = 1 THEN 0 ELSE r[q[i - 1]]) + d[q[i]]
  BY DEF Times
<1>h. Head(q) = q[1]
  OBVIOUS
<1>i. \A i \in 1..Len(q) : r[q[i]] >= r[q[1]]
  <2> DEFINE Bad == {i \in 1..Len(q) : ~(r[q[i]] >= r[q[1]])}
  <2> HIDE DEF q, d
  <2>1. SUFFICES ASSUME Bad # {} PROVE FALSE
    OBVIOUS
  <2>2. PICK m \in Bad : \A x \in Bad : m <= x
    <3>1. Bad \in SUBSET (1..Len(q))
      OBVIOUS
    <3> HIDE DEF Bad
    <3> QED
      BY <2>1, <1>l, <3>1, FirstOf
  <2>3. m \in 1..Len(q) /\ ~(r[q[m]] >= r[q[1]])
    OBVIOUS
  <2>4. m # 1 /\ 1 \in 1..Len(q)
    BY <2>3, <1>e, <1>l
  <2>5. m - 1 \in 1..Len(q) /\ ~(m <= m - 1)
    BY <2>3, <2>4, <1>l
  <2>6. r[q[m - 1]] >= r[q[1]]
    BY <2>5, <2>2
  <2>7. /\ r[q[m]] = r[q[m - 1]] + d[q[m]] /\ d[q[m]] >= 0 /\ d[q[m]] \in Int
        /\ r[q[m - 1]] \in Int /\ r[q[1]] \in Int
    BY <2>3, <2>4, <2>5, <1>e, <1>r
  <2> QED
    BY <2>3, <2>6, <2>7
<1>1. 1 \in 1..Len(q)
  BY <1>l
<1>2. Head(q) \in Timeout /\ r[Head(q)] = d[Head(q)] /\ d[Head(q)] >= 0
  <2> HIDE DEF q, d
  <2> QED
    BY <1>1, <1>h, <1>e, <1>r
<1>3. Linked(q, Head(q))
  BY <1>1, <1>h DEF Linked
<1>4. \A t \in Timeout : Linked(q, t) => r[t] >= r[Head(q)]
  <2> HIDE DEF q, d
  <2> QED
    BY <1>i, <1>h DEF Linked
<1> QED
  BY <1>2, <1>3, <1>4

\* handle_expired_timeouts() takes its ticks from all timeouts at once.
LEMMA ElapseTimes ==
  ASSUME NEW Q, WellFormed(Q), NEW r, Times(Q, r), Q.q # << >>,
         NEW n \in Nat, n <= Q.d[Head(Q.q)],
         NEW R, R = [q |-> Q.q, d |-> [Q.d EXCEPT ![Head(Q.q)] = @ - n]]
  PROVE  /\ WellFormed(R)
         /\ Times(R, [t \in Timeout |-> IF Linked(Q.q, t) THEN r[t] - n ELSE -1])
<1> DEFINE q == Q.q
           d == Q.d
           e == [d EXCEPT ![Head(q)] = @ - n]
           s == [t \in Timeout |-> IF Linked(q, t) THEN r[t] - n ELSE -1]
<1>l. q \in Seq(Timeout) /\ d \in [Timeout -> Int] /\ Len(q) \in Nat /\ Len(q) >= 1 /\ NoDup(q)
  BY LenProperties, EmptySeq DEF WellFormed
<1>w. \A t \in Timeout : (Linked(q, t) <=> d[t] # -1) /\ d[t] >= -1
  BY DEF WellFormed
<1>e. \A i \in 1..Len(q) : q[i] \in Timeout /\ Linked(q, q[i]) /\ r[q[i]] \in Int
  <2>1. \A i \in 1..Len(q) : q[i] \in Timeout /\ Linked(q, q[i])
    BY <1>l, ElementOfSeq DEF Linked
  <2> QED
    BY <2>1 DEF Times
<1>r. \A i \in 1..Len(q) : r[q[i]] = (IF i = 1 THEN 0 ELSE r[q[i - 1]]) + d[q[i]]
  BY DEF Times
<1>t. r \in [Timeout -> Int]
  BY DEF Times
<1>h. Head(q) = q[1] /\ 1 \in 1..Len(q) /\ Head(q) \in Timeout /\ d[Head(q)] >= n /\ Linked(q, Head(q))
  <2>1. Head(q) = q[1]
    OBVIOUS
  <2> QED
    BY <1>l, HeadIsFirst, <2>1
<1>x. R.q = q /\ R.d = e
  OBVIOUS
<1>1. e \in [Timeout -> Int] /\ \A t \in Timeout : e[t] = IF t = Head(q) THEN d[t] - n ELSE d[t]
  <2> HIDE DEF q, d
  <2> QED
    BY <1>l, <1>h
<1>2. \A t \in Timeout : (Linked(q, t) <=> e[t] # -1) /\ e[t] >= -1
  <2> HIDE DEF q, d, e
  <2> QED
    BY <1>1, <1>w, <1>h, <1>l, SMTT(60)
<1>3. WellFormed(R)
  <2> HIDE DEF q, d, e
  <2> QED
    BY <1>x, <1>1, <1>2, <1>l, WellFormedOf
<1>4. s \in [Timeout -> Int] /\ \A t \in Timeout : ~Linked(q, t) => s[t] = -1
  <2> HIDE DEF q, d, e
  <2> QED
    BY <1>t
<1>5. \A i \in 1..Len(q) : s[q[i]] = r[q[i]] - n
  <2> HIDE DEF q, d, e
  <2> QED
    BY <1>e
<1>6. \A i \in 1..Len(q) : s[q[i]] = (IF i = 1 THEN 0 ELSE s[q[i - 1]]) + e[q[i]]
  <2> SUFFICES ASSUME NEW i \in 1..Len(q)
               PROVE  s[q[i]] = (IF i = 1 THEN 0 ELSE s[q[i - 1]]) + e[q[i]]
    OBVIOUS
  <2> HIDE DEF q, d, e, s
  <2>1. CASE i = 1
    BY <2>1, <1>5, <1>r, <1>1, <1>h, <1>e, <1>l
  <2>2. CASE i # 1
    <3>1. i - 1 \in 1..Len(q) /\ q[i] # Head(q)
      BY <2>2, <1>l, <1>h DEF NoDup
    <3>2. e[q[i]] = d[q[i]] /\ d[q[i]] \in Int /\ r[q[i]] \in Int /\ r[q[i - 1]] \in Int
      BY <3>1, <1>1, <1>e, <1>l
    <3>3. s[q[i]] = r[q[i]] - n /\ s[q[i - 1]] = r[q[i - 1]] - n /\ r[q[i]] = r[q[i - 1]] + d[q[i]]
      BY <3>1, <2>2, <1>5, <1>r
    <3> QED
      BY <2>2, <3>2, <3>3
  <2> QED
    BY <2>1, <2>2
<1>7. Times(R, s)
  <2> HIDE DEF q, d, e, s
  <2> QED
    BY <1>x, <1>4, <1>6, TimesOf, SMTT(60)
<1> QED
  BY <1>3, <1>7

\* _abort_timeout() changes what is left of the aborted timeout and of no other.
LEMMA AbortTimes ==
  ASSUME NEW Q, WellFormed(Q), NEW r, Times(Q, r), NEW t \in Timeout, Linked(Q.q, t)
  PROVE  /\ WellFormed(abort_timeout(Q, t))
         /\ Times(abort_timeout(Q, t), [r EXCEPT ![t] = -1])
<1> DEFINE q == Q.q
           d == Q.d
           N == Len(q)
           k == CHOOSE i \in 1..Len(q) : q[i] = t
           p == sys_dlist_remove(q, t)
           e == IF sys_dlist_is_tail(q, t)
                THEN [d EXCEPT ![t] = -1]
                ELSE [d EXCEPT ![t] = -1, ![q[k + 1]] = @ + d[t]]
           s == [r EXCEPT ![t] = -1]
           R == abort_timeout(Q, t)
<1>x. R.q = p /\ R.d = e
  BY DEF abort_timeout
<1>l. q \in Seq(Timeout) /\ d \in [Timeout -> Int] /\ N \in Nat /\ NoDup(q)
  BY LenProperties DEF WellFormed
<1>w. \A u \in Timeout : (Linked(q, u) <=> d[u] # -1) /\ d[u] >= -1
  BY DEF WellFormed
<1>r. \A i \in 1..N : r[q[i]] = (IF i = 1 THEN 0 ELSE r[q[i - 1]]) + d[q[i]]
  BY DEF Times
<1>t. r \in [Timeout -> Int] /\ \A u \in Timeout : ~Linked(q, u) => r[u] = -1
  BY DEF Times
<1>e. \A i \in 1..N : q[i] \in Timeout /\ Linked(q, q[i]) /\ r[q[i]] \in Int /\ d[q[i]] \in Int
  <2>1. \A i \in 1..N : q[i] \in Timeout /\ Linked(q, q[i])
    BY <1>l, ElementOfSeq DEF Linked
  <2> HIDE DEF q, d, N
  <2> QED
    BY <2>1, <1>t, <1>l
<1>k. k \in 1..N /\ q[k] = t /\ \A i \in 1..N : q[i] = t => i = k
  <2>1. k \in 1..N /\ q[k] = t
    BY DEF Linked
  <2> HIDE DEF q, d, k
  <2> QED
    BY <2>1, <1>l DEF NoDup
<1>p. /\ p \in Seq(Timeout) /\ NoDup(p) /\ \A u : Linked(p, u) <=> Linked(q, u) /\ u # t
      /\ Len(p) = N - 1 /\ \A i \in 1..(N - 1) : p[i] = IF i < k THEN q[i] ELSE q[i + 1]
  <2>1. p = [i \in 1..(N - 1) |-> IF i < k THEN q[i] ELSE q[i + 1]]
    BY DEF sys_dlist_remove
  <2>2. p \in Seq(Timeout) /\ NoDup(p) /\ \A u : Linked(p, u) <=> Linked(q, u) /\ u # t
    <3> HIDE DEF q, d
    <3> QED
      BY <1>l, UnlinkProps
  <2>3. N - 1 \in Nat
    <3> HIDE DEF q, d, k, N
    <3> QED
      BY <1>k, <1>l
  <2> HIDE DEF q, d, k, N, p
  <2>4. Len(p) = N - 1
    <3>1. Len(p) \in Nat /\ DOMAIN p = 1..Len(p)
      BY <2>2, LenProperties
    <3>2. 1..Len(p) = 1..(N - 1)
      BY <3>1, <2>1
    <3> QED
      BY <3>1, <3>2, <2>3
  <2> QED
    BY <2>1, <2>2, <2>4
<1>n. \A i \in 1..N, j \in 1..N : q[i] = q[j] => i = j
  BY <1>l DEF NoDup
<1>z. sys_dlist_is_tail(q, t) <=> k = N
  <2>1. q # << >>
    <3> HIDE DEF q, d, k
    <3> QED
      BY <1>k, <1>l, EmptySeq
  <2> HIDE DEF q, d, k
  <2> QED
    BY <2>1, <1>k, <1>l DEF sys_dlist_is_tail
<1>1. /\ e \in [Timeout -> Int]
      /\ \A u \in Timeout : e[u] = IF u = t THEN -1
                                    ELSE IF k # N /\ u = q[k + 1] THEN d[u] + d[t] ELSE d[u]
  <2>1. CASE k = N
    <3>1. e = [d EXCEPT ![t] = -1]
      BY <2>1, <1>z
    <3> HIDE DEF q, d, e, k, N
    <3> QED
      BY <3>1, <1>l, <2>1
  <2>2. CASE k # N
    <3>1. e = [d EXCEPT ![t] = -1, ![q[k + 1]] = @ + d[t]]
      BY <2>2, <1>z
    <3> HIDE DEF q, d, e, k, N
    <3>2. q[k + 1] \in Timeout /\ q[k + 1] # t
      <4>1. k + 1 \in 1..N /\ k + 1 # k
        BY <1>k, <1>l, <2>2
      <4> QED
        BY <4>1, <1>k, <1>e
    <3> QED
      BY <3>1, <3>2, <1>l, <2>2
  <2> QED
    BY <2>1, <2>2
<1>2. \A u \in Timeout : (Linked(p, u) <=> e[u] # -1) /\ e[u] >= -1
  <2> HIDE DEF q, d, e, k, N, p
  <2> SUFFICES ASSUME NEW u \in Timeout PROVE (Linked(p, u) <=> e[u] # -1) /\ e[u] >= -1
    OBVIOUS
  <2>1. Linked(q, t) /\ d[t] # -1 /\ d[t] >= -1 /\ d[t] \in Int
    BY <1>w, <1>k, <1>e, <1>l
  <2>2. CASE u # t /\ k # N /\ u = q[k + 1]
    <3>1. k + 1 \in 1..N
      BY <1>k, <1>l, <2>2
    <3>2. Linked(q, u) /\ d[u] # -1 /\ d[u] >= -1 /\ d[u] \in Int
      BY <3>1, <2>2, <1>w, <1>e, <1>l
    <3>3. Linked(p, u) /\ e[u] = d[u] + d[t]
      BY <3>2, <2>2, <1>p, <1>1
    <3> QED
      BY <3>2, <3>3, <2>1
  <2>3. CASE u # t /\ ~(k # N /\ u = q[k + 1])
    <3>1. e[u] = d[u] /\ (Linked(p, u) <=> Linked(q, u))
      BY <2>3, <1>1, <1>p
    <3> QED
      BY <3>1, <1>w
  <2>4. CASE u = t
    <3>1. e[u] = -1 /\ ~Linked(p, u)
      BY <2>4, <1>1, <1>p
    <3> QED
      BY <3>1
  <2> QED
    BY <2>2, <2>3, <2>4
<1>3. WellFormed(R)
  <2> HIDE DEF q, d, e, p, R
  <2> QED
    BY <1>x, <1>p, <1>1, <1>2, WellFormedOf
<1>4. s \in [Timeout -> Int] /\ \A u \in Timeout : ~Linked(p, u) => s[u] = -1
  <2> HIDE DEF q, d, e, p
  <2> QED
    BY <1>t, <1>p
<1>5. \A i \in 1..N : q[i] # t => s[q[i]] = r[q[i]]
  <2> HIDE DEF q, d, e, p
  <2> QED
    BY <1>t, <1>e
<1>6. \A i \in 1..Len(p) : s[p[i]] = (IF i = 1 THEN 0 ELSE s[p[i - 1]]) + e[p[i]]
  <2> SUFFICES ASSUME NEW i \in 1..(N - 1)
               PROVE  s[p[i]] = (IF i = 1 THEN 0 ELSE s[p[i - 1]]) + e[p[i]]
    BY <1>p
  <2> HIDE DEF q, d, e, k, N, p, s
  <2>0. i \in 1..N /\ i + 1 \in 1..N /\ i \in Nat /\ k \in Nat /\ (i # 1 => i - 1 \in 1..(N - 1))
    BY <1>l, <1>k
  <2>1. CASE i < k
    <3>1. p[i] = q[i] /\ q[i] # t /\ s[q[i]] = r[q[i]]
      BY <2>0, <2>1, <1>k, <1>p, <1>5
    <3>2. ASSUME i # 1 PROVE p[i - 1] = q[i - 1] /\ s[q[i - 1]] = r[q[i - 1]]
      <4>1. i - 1 \in 1..(N - 1) /\ i - 1 \in 1..N /\ i - 1 < k /\ i - 1 # k
        BY <3>2, <2>0, <2>1, <1>l
      <4> QED
        BY <4>1, <1>k, <1>p, <1>5
    <3>3. e[q[i]] = d[q[i]]
      <4>1. k # N => k + 1 \in 1..N /\ k + 1 # i
        BY <2>0, <2>1, <1>k, <1>l
      <4>2. k # N => q[i] # q[k + 1]
        BY <4>1, <2>0, <1>n
      <4> QED
        BY <4>2, <3>1, <1>1, <1>e, <2>0
    <3>4. r[q[i]] = (IF i = 1 THEN 0 ELSE r[q[i - 1]]) + d[q[i]]
      BY <1>r, <2>0
    <3> QED
      BY <3>1, <3>2, <3>3, <3>4
  <2>2. CASE i = k
    <3>1. p[i] = q[k + 1] /\ k + 1 \in 1..N /\ k # N /\ q[k + 1] # t
      <4>1. k + 1 \in 1..N /\ k # N /\ k + 1 # k /\ ~(i < k) /\ i + 1 = k + 1
        BY <2>0, <2>2, <1>l
      <4> QED
        BY <4>1, <1>k, <1>p
    <3>2. /\ s[q[k + 1]] = r[q[k + 1]] /\ e[q[k + 1]] = d[q[k + 1]] + d[t]
          /\ d[q[k + 1]] \in Int /\ r[q[k + 1]] \in Int
      BY <3>1, <1>5, <1>1, <1>e
    <3>3. r[q[k + 1]] = r[t] + d[q[k + 1]] /\ r[t] = (IF i = 1 THEN 0 ELSE r[q[i - 1]]) + d[t]
      <4>1. k + 1 # 1 /\ (k + 1) - 1 = k
        BY <2>0, <2>2
      <4> QED
        BY <4>1, <3>1, <2>2, <1>k, <1>r
    <3>4. ASSUME i # 1 PROVE p[i - 1] = q[i - 1] /\ s[q[i - 1]] = r[q[i - 1]] /\ r[q[i - 1]] \in Int
      <4>1. i - 1 \in 1..(N - 1) /\ i - 1 \in 1..N /\ i - 1 < k /\ i - 1 # k
        BY <3>4, <2>0, <2>2, <1>l
      <4> QED
        BY <4>1, <1>k, <1>p, <1>5, <1>e
    <3>5. d[t] \in Int
      BY <1>e, <1>k
    <3> QED
      BY <3>1, <3>2, <3>3, <3>4, <3>5
  <2>3. CASE i > k
    <3>1. p[i] = q[i + 1] /\ i + 1 # k /\ q[i + 1] # t
      BY <2>0, <2>3, <1>k, <1>p
    <3>2. i # 1 /\ i - 1 \in 1..(N - 1) /\ ~(i - 1 < k) /\ i # k /\ (i - 1) + 1 = i
      BY <2>0, <2>3, <1>k
    <3>3. p[i - 1] = q[i] /\ q[i] # t
      BY <3>2, <2>0, <1>p, <1>k
    <3>4. e[q[i + 1]] = d[q[i + 1]]
      <4>1. k # N => k + 1 \in 1..N /\ k + 1 # i + 1
        BY <2>0, <2>3, <1>k, <1>l
      <4>2. k # N => q[i + 1] # q[k + 1]
        BY <4>1, <2>0, <1>n
      <4> QED
        BY <4>2, <3>1, <1>1, <1>e, <2>0
    <3>5. r[q[i + 1]] = r[q[i]] + d[q[i + 1]]
      <4>1. i + 1 # 1 /\ (i + 1) - 1 = i
        BY <2>0
      <4> QED
        BY <4>1, <2>0, <1>r
    <3>6. s[q[i + 1]] = r[q[i + 1]] /\ s[q[i]] = r[q[i]]
      BY <2>0, <3>1, <3>3, <1>5
    <3> QED
      BY <3>1, <3>2, <3>3, <3>4, <3>5, <3>6
  <2> QED
    BY <2>1, <2>2, <2>3, <2>0
<1>7. Times(R, s)
  <2> HIDE DEF q, d, e, s, p, R
  <2> QED
    BY <1>x, <1>4, <1>6, TimesOf
<1> QED
  BY <1>3, <1>7

\* So does taking the first timeout off the queue, when it is due.
LEMMA DequeueTimes ==
  ASSUME NEW Q, WellFormed(Q), NEW r, Times(Q, r), Q.q # << >>, Q.d[Head(Q.q)] = 0
  PROVE  WellFormed(dequeue(Q)) /\ Times(dequeue(Q), [r EXCEPT ![Head(Q.q)] = -1])
<1> DEFINE q == Q.q
           d == Q.d
           h == Head(q)
           p == Tail(q)
           e == [d EXCEPT ![h] = -1]
           s == [r EXCEPT ![h] = -1]
           R == dequeue(Q)
<1>x. R.q = p /\ R.d = e
  BY DEF dequeue
<1>l. q \in Seq(Timeout) /\ d \in [Timeout -> Int] /\ NoDup(q) /\ q # << >> /\ d[h] = 0
  BY DEF WellFormed
<1>w. \A u \in Timeout : (Linked(q, u) <=> d[u] # -1) /\ d[u] >= -1
  BY DEF WellFormed
<1>r. \A i \in 1..Len(q) : r[q[i]] = (IF i = 1 THEN 0 ELSE r[q[i - 1]]) + d[q[i]]
  BY DEF Times
<1>t. r \in [Timeout -> Int] /\ \A u \in Timeout : ~Linked(q, u) => r[u] = -1
  BY DEF Times
<1>h. h \in Timeout /\ r[h] = 0
  BY HeadIsFirst
<1> HIDE DEF q, d, R
<1>p. /\ p \in Seq(Timeout) /\ NoDup(p) /\ \A u : Linked(p, u) <=> Linked(q, u) /\ u # h
      /\ Len(q) \in Nat /\ Len(p) = Len(q) - 1 /\ \A i \in 1..Len(p) : p[i] = q[i + 1]
      /\ q[1] = h
  <2>1. p \in Seq(Timeout) /\ NoDup(p) /\ \A u : Linked(p, u) <=> Linked(q, u) /\ u # h
    BY <1>l, TailProps
  <2>2. Len(q) \in Nat /\ Len(p) = Len(q) - 1 /\ \A i \in 1..Len(p) : p[i] = q[i + 1]
    BY <1>l, HeadTailProperties, LenProperties
  <2> QED
    BY <2>1, <2>2
<1>1. e \in [Timeout -> Int] /\ \A u \in Timeout : e[u] = IF u = h THEN -1 ELSE d[u]
  BY <1>l, <1>h
<1>2. \A u \in Timeout : (Linked(p, u) <=> e[u] # -1) /\ e[u] >= -1
  <2> HIDE DEF p, e, h
  <2> QED
    BY <1>1, <1>w, <1>p, <1>h
<1>3. WellFormed(R)
  <2> HIDE DEF p, e
  <2> QED
    BY <1>x, <1>p, <1>1, <1>2, WellFormedOf
<1>4. s \in [Timeout -> Int] /\ \A u \in Timeout : s[u] = IF u = h THEN -1 ELSE r[u]
  BY <1>t, <1>h
<1>5. \A u \in Timeout : ~Linked(p, u) => s[u] = -1
  <2> HIDE DEF p, e, s, h
  <2> QED
    BY <1>4, <1>t, <1>p
<1>6. \A i \in 1..Len(p) : s[p[i]] = (IF i = 1 THEN 0 ELSE s[p[i - 1]]) + e[p[i]]
  <2> SUFFICES ASSUME NEW i \in 1..Len(p)
               PROVE  s[p[i]] = (IF i = 1 THEN 0 ELSE s[p[i - 1]]) + e[p[i]]
    OBVIOUS
  <2>0. i + 1 \in 1..Len(q) /\ i \in 1..Len(q) /\ 1 \in 1..Len(q) /\ i + 1 # 1 /\ (i + 1) - 1 = i
    <3> HIDE DEF p
    <3> QED
      BY <1>p
  <2>e. \A j \in 1..Len(q) : q[j] \in Timeout
    BY <1>l, ElementOfSeq
  <2>n. \A j \in 1..Len(q) : q[j] = h => j = 1
    <3> HIDE DEF h, p
    <3> QED
      BY <2>0, <1>p, <1>l DEF NoDup
  <2> HIDE DEF p, e, s, h
  <2>1. p[i] = q[i + 1] /\ q[i + 1] \in Timeout /\ q[i + 1] # h
    BY <2>0, <2>e, <2>n, <1>p
  <2>2. s[p[i]] = r[q[i + 1]] /\ e[p[i]] = d[q[i + 1]]
    BY <2>1, <1>1, <1>4
  <2>3. r[q[i + 1]] = r[q[i]] + d[q[i + 1]]
    BY <2>0, <1>r
  <2>4. CASE i = 1
    BY <2>1, <2>2, <2>3, <2>4, <1>p, <1>h
  <2>5. CASE i # 1
    <3>1. i - 1 \in 1..Len(p) /\ (i - 1) + 1 = i
      BY <2>0, <2>5, <1>p
    <3>2. p[i - 1] = q[i] /\ q[i] \in Timeout /\ q[i] # h
      BY <3>1, <2>0, <2>5, <2>e, <2>n, <1>p
    <3>3. s[p[i - 1]] = r[q[i]]
      BY <3>2, <1>4
    <3> QED
      BY <2>2, <2>3, <2>5, <3>3
  <2> QED
    BY <2>4, <2>5
<1>7. Times(R, s)
  <2> HIDE DEF e, s, p
  <2> QED
    BY <1>x, <1>4, <1>5, <1>6, TimesOf
<1> QED
  BY <1>3, <1>7 DEF q, R

\* _add_timeout() arms a timeout with the ticks asked for and delays no other.
LEMMA AddTimes ==
  ASSUME NEW Q, WellFormed(Q), NEW r, Times(Q, r), NEW t \in Timeout, ~Linked(Q.q, t),
         NEW n \in Nat \ {0}
  PROVE  /\ WellFormed(add_timeout(Q, t, n))
         /\ Times(add_timeout(Q, t, n), [r EXCEPT ![t] = n])
<1> DEFINE q == Q.q
           d == Q.d
           N == Len(q)
           P == {i \in 1..Len(q) : n <= RemainingAt(q, d, i)}
           k == IF P = {} THEN Len(q) + 1 ELSE CHOOSE i \in P : \A j \in P : i <= j
           left == n - RemainingAt(q, d, k - 1)
           p == sys_dlist_insert_at(q, t, {q[i] : i \in P})
           e == [u \in Timeout |-> CASE u = t -> left
                                     [] u # t /\ P # {} /\ u = q[k] -> d[u] - left
                                     [] OTHER -> d[u]]
           s == [r EXCEPT ![t] = n]
           R == add_timeout(Q, t, n)
<1>x. R.q = p /\ R.d = e
  BY DEF add_timeout
<1>l. q \in Seq(Timeout) /\ d \in [Timeout -> Int] /\ N \in Nat /\ NoDup(q) /\ ~Linked(q, t)
  BY LenProperties DEF WellFormed
<1>w. \A u \in Timeout : (Linked(q, u) <=> d[u] # -1) /\ d[u] >= -1
  BY DEF WellFormed
<1>r. \A i \in 1..N : r[q[i]] = (IF i = 1 THEN 0 ELSE r[q[i - 1]]) + d[q[i]]
  BY DEF Times
<1>t. r \in [Timeout -> Int] /\ \A u \in Timeout : ~Linked(q, u) => r[u] = -1
  BY DEF Times
<1>a. RemainingAt(q, d, 0) = 0 /\ \A i \in 1..N : RemainingAt(q, d, i) = r[q[i]]
  BY TimesAreSums
<1> HIDE DEF q, d, R
<1>e. \A i \in 1..N : /\ q[i] \in Timeout /\ Linked(q, q[i]) /\ q[i] # t
                      /\ r[q[i]] \in Int /\ d[q[i]] \in Int
  <2>1. \A i \in 1..N : q[i] \in Timeout /\ Linked(q, q[i])
    BY <1>l, ElementOfSeq DEF Linked
  <2> HIDE DEF N
  <2> QED
    BY <2>1, <1>t, <1>l
<1>n. \A i \in 1..N, j \in 1..N : q[i] = q[j] => i = j
  BY <1>l DEF NoDup
<1>k. /\ k \in 1..(N + 1) /\ (P # {} <=> k \in 1..N)
      /\ (P # {} => n <= r[q[k]])
      /\ \A i \in 1..N : i < k => r[q[i]] < n
  <2>0. P \in SUBSET (1..N) /\ \A i \in 1..N : i \in P <=> n <= r[q[i]]
    BY <1>a
  <2>1. CASE P = {}
    <3>1. k = N + 1
      BY <2>1
    <3> HIDE DEF k, P, N
    <3>2. ASSUME NEW i \in 1..N PROVE r[q[i]] < n
      BY <2>0, <2>1, <1>e
    <3> QED
      BY <3>1, <3>2, <2>1, <1>l
  <2>2. CASE P # {}
    <3>1. k = CHOOSE i \in P : \A j \in P : i <= j
      BY <2>2
    <3>2. k \in P /\ \A j \in P : k <= j
      <4> HIDE DEF k, P, N
      <4>1. \E i \in P : \A j \in P : i <= j
        BY <2>0, <2>2, <1>l, FirstOf
      <4> QED
        BY <3>1, <4>1
    <3> HIDE DEF k, P, N
    <3>3. k \in 1..N /\ n <= r[q[k]]
      BY <3>2, <2>0
    <3>4. ASSUME NEW i \in 1..N, i < k PROVE r[q[i]] < n
      <4>1. ~(k <= i)
        BY <3>3, <3>4
      <4>2. i \notin P
        BY <3>2, <4>1
      <4> QED
        BY <4>2, <2>0, <1>e
    <3> QED
      BY <3>3, <3>4, <2>2, <1>l
  <2> QED
    BY <2>1, <2>2
<1>b. left = n - (IF k = 1 THEN 0 ELSE r[q[k - 1]]) /\ left \in Nat \ {0}
  <2> HIDE DEF k, P, N
  <2>1. CASE k = 1
    BY <2>1, <1>a
  <2>2. CASE k # 1
    <3>1. k - 1 \in 1..N /\ k - 1 < k
      BY <2>2, <1>k, <1>l
    <3>2. RemainingAt(q, d, k - 1) = r[q[k - 1]] /\ r[q[k - 1]] \in Int /\ r[q[k - 1]] < n
      BY <3>1, <1>a, <1>e, <1>k
    <3> QED
      BY <2>2, <3>2
  <2> QED
    BY <2>1, <2>2
<1>p. /\ p \in Seq(Timeout) /\ NoDup(p) /\ \A u : Linked(p, u) <=> Linked(q, u) \/ u = t
      /\ Len(p) = N + 1
      /\ \A i \in 1..(N + 1) : p[i] = IF i < k THEN q[i] ELSE IF i = k THEN t ELSE q[i - 1]
  <2>1. p \in Seq(Timeout) /\ NoDup(p) /\ \A u : Linked(p, u) <=> Linked(q, u) \/ u = t
    <3> DEFINE C == {q[i] : i \in P}
    <3> HIDE DEF C
    <3>1. sys_dlist_insert_at(q, t, C) \in Seq(Timeout) /\ NoDup(sys_dlist_insert_at(q, t, C))
          /\ \A u : Linked(sys_dlist_insert_at(q, t, C), u) <=> Linked(q, u) \/ u = t
      BY <1>l, InsertAtProps
    <3> QED
      BY <3>1, Zenon DEF C
  <2>2. {i \in 1..Len(q) : q[i] \in {q[j] : j \in P}} = P
    <3>1. P \in SUBSET (1..N)
      OBVIOUS
    <3> HIDE DEF P
    <3> QED
      BY <3>1, <1>n
  <2>3. p = [i \in 1..(N + 1) |-> IF i < k THEN q[i] ELSE IF i = k THEN t ELSE q[i - 1]]
    <3> DEFINE S == {i \in 1..Len(q) : q[i] \in {q[j] : j \in P}}
    <3>1. p = LET kk == IF S = {} THEN Len(q) + 1 ELSE CHOOSE i \in S : \A j \in S : i <= j
              IN [i \in 1..(Len(q) + 1) |->
                    IF i < kk THEN q[i] ELSE IF i = kk THEN t ELSE q[i - 1]]
      BY Zenon DEF sys_dlist_insert_at
    <3>2. S = P
      BY <2>2
    <3> HIDE DEF S, P
    <3> QED
      BY <3>1, <3>2
  <2> HIDE DEF k, P, N, p
  <2>4. Len(p) = N + 1
    <3>1. Len(p) \in Nat /\ DOMAIN p = 1..Len(p)
      BY <2>1, LenProperties
    <3>2. 1..Len(p) = 1..(N + 1)
      BY <3>1, <2>3
    <3>3. N + 1 \in 1..(N + 1) /\ N + 1 \in Nat
      BY <1>l
    <3>4. N + 1 <= Len(p) /\ Len(p) \in 1..Len(p)
      BY <3>1, <3>2, <3>3
    <3>5. Len(p) <= N + 1
      BY <3>2, <3>3, <3>4
    <3> QED
      BY <3>1, <3>3, <3>4, <3>5
  <2> QED
    BY <2>1, <2>3, <2>4
<1>1. /\ e \in [Timeout -> Int]
      /\ \A u \in Timeout : e[u] = IF u = t THEN left
                                    ELSE IF k \in 1..N /\ u = q[k] THEN d[u] - left ELSE d[u]
  <2> HIDE DEF k, N, P, left
  <2> QED
    BY <1>b, <1>k, <1>l
<1>g. ASSUME k \in 1..N
      PROVE  /\ e[q[k]] = d[q[k]] - left /\ d[q[k]] - left >= 0
             /\ r[q[k]] = n + (d[q[k]] - left)
  <2> HIDE DEF k, N, P, left, e
  <2>1. q[k] \in Timeout /\ q[k] # t /\ r[q[k]] \in Int /\ d[q[k]] \in Int /\ n <= r[q[k]]
    BY <1>g, <1>e, <1>k
  <2>2. r[q[k]] = (IF k = 1 THEN 0 ELSE r[q[k - 1]]) + d[q[k]]
    BY <1>g, <1>r
  <2>3. k # 1 => r[q[k - 1]] \in Int
    <3>1. k # 1 => k - 1 \in 1..N
      BY <1>g, <1>l
    <3> QED
      BY <3>1, <1>e
  <2>4. e[q[k]] = d[q[k]] - left
    BY <2>1, <1>g, <1>1
  <2> QED
    BY <2>1, <2>2, <2>3, <2>4, <1>b
<1>2. \A u \in Timeout : (Linked(p, u) <=> e[u] # -1) /\ e[u] >= -1
  <2> HIDE DEF k, N, P, left, e, p
  <2> SUFFICES ASSUME NEW u \in Timeout PROVE (Linked(p, u) <=> e[u] # -1) /\ e[u] >= -1
    OBVIOUS
  <2>1. CASE u = t
    BY <2>1, <1>1, <1>b, <1>p
  <2>2. CASE u # t /\ k \in 1..N /\ u = q[k]
    <3>1. Linked(p, u) /\ d[u] \in Int
      BY <2>2, <1>e, <1>p
    <3>2. e[u] \in Int /\ e[u] >= 0
      BY <2>2, <3>1, <1>b, <1>g
    <3> QED
      BY <3>1, <3>2
  <2>3. CASE u # t /\ ~(k \in 1..N /\ u = q[k])
    <3>1. e[u] = d[u] /\ (Linked(p, u) <=> Linked(q, u))
      BY <2>3, <1>1, <1>p
    <3> QED
      BY <3>1, <1>w
  <2> QED
    BY <2>1, <2>2, <2>3
<1>3. WellFormed(R)
  <2> HIDE DEF p, e
  <2> QED
    BY <1>x, <1>p, <1>1, <1>2, WellFormedOf, SMTT(60)
<1>4. s \in [Timeout -> Int] /\ \A u \in Timeout : s[u] = IF u = t THEN n ELSE r[u]
  BY <1>t
<1>5. \A u \in Timeout : ~Linked(p, u) => s[u] = -1
  <2> HIDE DEF p, e, s
  <2> QED
    BY <1>4, <1>t, <1>p
<1>6. \A i \in 1..Len(p) : s[p[i]] = (IF i = 1 THEN 0 ELSE s[p[i - 1]]) + e[p[i]]
  <2> SUFFICES ASSUME NEW i \in 1..(N + 1)
               PROVE  s[p[i]] = (IF i = 1 THEN 0 ELSE s[p[i - 1]]) + e[p[i]]
    BY <1>p
  <2> HIDE DEF k, N, P, left, e, p, s
  <2>0. i \in Nat /\ k \in Nat /\ k >= 1 /\ (i # 1 => i - 1 \in 1..N /\ i - 1 \in 1..(N + 1))
    BY <1>l, <1>k
  <2>s. s[t] = n /\ e[t] = left /\ \A j \in 1..N : s[q[j]] = r[q[j]]
    BY <1>4, <1>1, <1>e
  <2>1. CASE i < k
    <3>1. i \in 1..N /\ p[i] = q[i]
      BY <2>1, <1>k, <1>l, <1>p
    <3>2. i # 1 => p[i - 1] = q[i - 1]
      <4>1. i # 1 => i - 1 < k
        BY <2>0, <2>1
      <4> QED
        BY <4>1, <2>0, <1>p
    <3>3. e[q[i]] = d[q[i]]
      <4>1. k \in 1..N => q[i] # q[k]
        BY <2>0, <2>1, <3>1, <1>n
      <4> QED
        BY <4>1, <3>1, <1>1, <1>e
    <3>4. r[q[i]] = (IF i = 1 THEN 0 ELSE r[q[i - 1]]) + d[q[i]]
      BY <3>1, <1>r
    <3> QED
      BY <3>1, <3>2, <3>3, <3>4, <2>0, <2>s
  <2>2. CASE i = k
    <3>1. p[i] = t
      BY <2>0, <2>2, <1>p
    <3>2. i # 1 => p[i - 1] = q[i - 1] /\ s[q[i - 1]] = r[q[i - 1]] /\ r[q[i - 1]] \in Int
      <4>1. i # 1 => i - 1 < k
        BY <2>0, <2>2
      <4> QED
        BY <4>1, <2>0, <2>s, <1>p, <1>e
    <3>3. left = n - (IF i = 1 THEN 0 ELSE r[q[i - 1]])
      BY <1>b, <2>2
    <3> QED
      BY <3>1, <3>2, <3>3, <2>s
  <2>3. CASE i = k + 1
    <3>1. k \in 1..N /\ i # 1 /\ i - 1 = k /\ ~(i < k) /\ i # k
      BY <2>0, <2>3, <1>l
    <3>2. p[i] = q[k] /\ p[i - 1] = t
      BY <3>1, <1>p, <1>k
    <3> QED
      BY <3>1, <3>2, <1>g, <2>s
  <2>4. CASE i > k + 1
    <3>1. i # 1 /\ ~(i < k) /\ i # k /\ ~(i - 1 < k) /\ i - 1 # k /\ i - 1 # 1
      BY <2>0, <2>4
    <3>2. i - 1 \in 1..N /\ (i - 1) - 1 \in 1..N /\ i - 1 \in 1..(N + 1)
      BY <2>0, <2>4, <3>1, <1>l
    <3>3. p[i] = q[i - 1] /\ p[i - 1] = q[(i - 1) - 1]
      BY <3>1, <3>2, <1>p
    <3>4. e[q[i - 1]] = d[q[i - 1]]
      <4>1. k \in 1..N => q[i - 1] # q[k]
        BY <3>1, <3>2, <1>n
      <4> QED
        BY <4>1, <3>2, <1>1, <1>e
    <3>5. r[q[i - 1]] = r[q[(i - 1) - 1]] + d[q[i - 1]]
      BY <3>1, <3>2, <1>r
    <3>6. s[q[i - 1]] = r[q[i - 1]] /\ s[q[(i - 1) - 1]] = r[q[(i - 1) - 1]]
      BY <3>2, <2>s
    <3> QED
      BY <3>1, <3>3, <3>4, <3>5, <3>6
  <2> QED
    BY <2>0, <2>1, <2>2, <2>3, <2>4
<1>7. Times(R, s)
  <2> HIDE DEF e, s, p
  <2> QED
    BY <1>x, <1>4, <1>5, <1>6, TimesOf
<1> QED
  BY <1>3, <1>7 DEF q, R

\* The timeouts on a queue have ticks left, and no other has.
LEMMA TimesArmed ==
  ASSUME NEW Q, WellFormed(Q), NEW r, Times(Q, r), NEW t \in Timeout
  PROVE  (Linked(Q.q, t) <=> r[t] # -1) /\ r[t] >= -1 /\ r[t] \in Int
<1>1. CASE Q.q = << >>
  <2>1. ~Linked(Q.q, t)
    BY <1>1 DEF Linked
  <2> QED
    BY <2>1 DEF Times
<1>2. CASE Q.q # << >> /\ Linked(Q.q, t)
  <2>1. Head(Q.q) \in Timeout /\ r[Head(Q.q)] = Q.d[Head(Q.q)] /\ Q.d[Head(Q.q)] >= 0
        /\ r[t] >= r[Head(Q.q)]
    BY <1>2, HeadIsFirst
  <2>2. r[t] \in Int /\ r[Head(Q.q)] \in Int
    BY <2>1 DEF Times
  <2> QED
    BY <1>2, <2>1, <2>2
<1>3. CASE ~Linked(Q.q, t)
  BY <1>3 DEF Times
<1> QED
  BY <1>1, <1>2, <1>3

(***************************************************************************)
(* The inductive invariant of the queue                                    *)
(***************************************************************************)

\* Nothing is due between two ticks, and nothing is left to wait for longer than
\* a timeout can be.
QInv ==
  /\ WellFormed(Queue)
  /\ ticking \in BOOLEAN
  /\ \A t \in Timeout : Left[t] <= MaxTicks
  /\ ~ticking => \A t \in Timeout : Left[t] # 0

\* What QInv says of the queue
LEMMA QFacts ==
  ASSUME QInv
  PROVE  /\ Times(Queue, Left) /\ Left \in [Timeout -> Int]
         /\ Queue.q = tq /\ Queue.d = delta
         /\ \A t \in Timeout : /\ Linked(tq, t) <=> Left[t] # -1
                               /\ Armed(t) <=> Left[t] # -1
                               /\ Left[t] >= -1
         /\ tq = << >> => \A t \in Timeout : Left[t] = -1
         /\ tq # << >> => /\ Head(tq) \in Timeout
                         /\ Left[Head(tq)] = delta[Head(tq)] /\ delta[Head(tq)] >= 0
                         /\ \A t \in Timeout : Left[t] # -1 => Left[t] >= Left[Head(tq)]
<1>q. Queue.q = tq /\ Queue.d = delta
  BY DEF Queue
<1>w. WellFormed(Queue)
  BY DEF QInv
<1>1. PICK r : Times(Queue, r)
  BY <1>w, TimesExist
<1>2. r = Left
  BY <1>q, <1>w, <1>1, RemainingIsTimes DEF Left, remaining, Armed
<1>3. Times(Queue, Left) /\ Left \in [Timeout -> Int]
  BY <1>1, <1>2 DEF Times
<1>4. \A t \in Timeout : (Linked(tq, t) <=> Left[t] # -1) /\ Left[t] >= -1
  BY <1>3, <1>q, <1>w, TimesArmed
<1>5. \A t \in Timeout : Linked(tq, t) <=> Armed(t)
  BY <1>q, <1>w DEF WellFormed, Armed
<1>6. tq = << >> => \A t \in Timeout : ~Linked(tq, t)
  BY DEF Linked
<1>7. tq # << >> => /\ Head(tq) \in Timeout
                    /\ Left[Head(tq)] = delta[Head(tq)] /\ delta[Head(tq)] >= 0
                    /\ \A t \in Timeout : Linked(tq, t) => Left[t] >= Left[Head(tq)]
  BY <1>3, <1>q, <1>w, HeadIsFirst
<1> QED
  BY <1>3, <1>4, <1>5, <1>6, <1>7, <1>q

\* QInv implies the invariant that the runs check.
LEMMA QInvMatches ==
  ASSUME QInv
  PROVE  QueueMatchesDeltas
<1>1. Queue.q = tq /\ Queue.d = delta /\ WellFormed(Queue)
  BY DEF QInv, Queue
<1>2. NoDup(tq) /\ \A t \in Timeout : (Linked(tq, t) <=> Armed(t)) /\ delta[t] \in Int /\ delta[t] >= -1
  BY <1>1 DEF WellFormed, Armed
<1>3. \A t \in Timeout : Armed(t) => delta[t] >= 0
  BY <1>2 DEF Armed
<1>4. ASSUME ~ticking, tq # << >> PROVE delta[Head(tq)] > 0
  <2>1. /\ Head(tq) \in Timeout
        /\ Left[Head(tq)] = delta[Head(tq)] /\ delta[Head(tq)] >= 0
    BY <1>4, QFacts
  <2>2. delta[Head(tq)] # 0
    BY <1>4, <2>1 DEF QInv
  <2> QED
    BY <2>1, <2>2, <1>2
<1> QED
  BY <1>2, <1>3, <1>4 DEF QueueMatchesDeltas

\* A step that leaves the queue R takes what is left of the timeouts to s.
LEMMA QueueStep ==
  ASSUME NEW R, SetQueue(R), WellFormed(R), NEW s, Times(R, s)
  PROVE  /\ WellFormed(Queue)' /\ Left' = s
         /\ \A t \in Timeout : Armed(t)' <=> s[t] # -1
<1>1. tq' = R.q /\ delta' = R.d
  BY DEF SetQueue
<1>2. WellFormed(Queue)'
  BY <1>1 DEF Queue, WellFormed
<1>3. s = Left'
  BY <1>1, RemainingIsTimes DEF Left, remaining, Armed
<1>4. ASSUME NEW t \in Timeout PROVE Armed(t)' <=> s[t] # -1
  <2>1. Linked(R.q, t) <=> s[t] # -1
    BY TimesArmed
  <2>2. Linked(R.q, t) <=> R.d[t] # -1
    BY DEF WellFormed
  <2> QED
    BY <1>1, <2>1, <2>2 DEF Armed
<1> QED
  BY <1>2, <1>3, <1>4

\* k_timer_start() arms a timeout, whether or not it runs.
LEMMA StartedTimes ==
  ASSUME NEW Q, WellFormed(Q), NEW r, Times(Q, r), NEW t \in Timeout, NEW n \in Nat \ {0}
  PROVE  WellFormed(Started(Q, t, n)) /\ Times(Started(Q, t, n), [r EXCEPT ![t] = n])
<1>1. CASE Q.d[t] = -1
  <2>1. ~Linked(Q.q, t) /\ Started(Q, t, n) = add_timeout(Q, t, n)
    BY <1>1 DEF WellFormed, Started
  <2> QED
    BY <2>1, AddTimes
<1>2. CASE Q.d[t] # -1
  <2> DEFINE R == abort_timeout(Q, t)
             s == [r EXCEPT ![t] = -1]
  <2>1. Linked(Q.q, t) /\ Started(Q, t, n) = add_timeout(R, t, n)
    BY <1>2 DEF WellFormed, Started
  <2>2. WellFormed(R) /\ Times(R, s)
    BY <2>1, AbortTimes
  <2>3. s[t] = -1 /\ [s EXCEPT ![t] = n] = [r EXCEPT ![t] = n]
    BY DEF Times
  <2> HIDE DEF R, s
  <2>4. ~Linked(R.q, t)
    BY <2>2, <2>3, TimesArmed
  <2>5. WellFormed(add_timeout(R, t, n)) /\ Times(add_timeout(R, t, n), [s EXCEPT ![t] = n])
    BY <2>2, <2>4, AddTimes
  <2> QED
    BY <2>1, <2>3, <2>5
<1> QED
  BY <1>1, <1>2

\* The queue that _handle_one_timeout() leaves, for a period of m ticks or none
Handled(m) == LET Q == dequeue(Queue) IN IF m > 0 THEN add_timeout(Q, Head(tq), m) ELSE Q

\* The timeout that is due is armed again with its period, or with nothing.
LEMMA HandledTimes ==
  ASSUME QInv, HeadIsDue, NEW m \in Nat
  PROVE  /\ Head(tq) \in Timeout /\ Left[Head(tq)] = 0
         /\ WellFormed(Handled(m))
         /\ Times(Handled(m), [Left EXCEPT ![Head(tq)] = IF m > 0 THEN m ELSE -1])
<1> DEFINE h == Head(tq)
           R == dequeue(Queue)
           s == [Left EXCEPT ![h] = -1]
<1>1. h \in Timeout /\ Left[h] = 0 /\ Left \in [Timeout -> Int]
  BY QFacts DEF HeadIsDue
<1>2. WellFormed(R) /\ Times(R, s)
  <2>1. Queue.q = tq /\ Queue.d = delta /\ WellFormed(Queue) /\ Times(Queue, Left)
    BY QFacts DEF QInv
  <2> QED
    BY <2>1, DequeueTimes DEF HeadIsDue
<1>3. CASE m = 0
  <2>1. Handled(m) = R
    BY <1>3 DEF Handled
  <2> QED
    BY <1>1, <1>2, <1>3, <2>1
<1>4. CASE m # 0
  <2>1. Handled(m) = add_timeout(R, h, m)
    BY <1>4 DEF Handled
  <2>2. s[h] = -1 /\ [s EXCEPT ![h] = m] = [Left EXCEPT ![h] = m] /\ m > 0
    BY <1>1, <1>4
  <2> HIDE DEF R, s, h
  <2>3. ~Linked(R.q, h)
    BY <1>1, <1>2, <2>2, TimesArmed
  <2>4. WellFormed(add_timeout(R, h, m)) /\ Times(add_timeout(R, h, m), [s EXCEPT ![h] = m])
    BY <1>1, <1>2, <1>4, <2>3, AddTimes
  <2>5. [Left EXCEPT ![h] = IF m > 0 THEN m ELSE -1] = [Left EXCEPT ![h] = m]
    BY <2>2
  <2>6. WellFormed(Handled(m)) /\ Times(Handled(m), [Left EXCEPT ![h] = IF m > 0 THEN m ELSE -1])
    BY <2>1, <2>2, <2>4, <2>5
  <2> QED
    BY <1>1, <2>6 DEF h
<1> QED
  BY <1>3, <1>4

(***************************************************************************)
(* The steps of the queue keep QInv, and are steps of the countdowns.      *)
(***************************************************************************)

\* Arming and aborting make nothing due.
LEMMA QInvKept ==
  ASSUME QInv, WellFormed(Queue)', UNCHANGED ticking, NEW s, Left' = s,
         \A t \in Timeout : s[t] = Left[t] \/ s[t] = -1 \/ s[t] \in 1..MaxTicks
  PROVE  QInv'
<1>1. \A t \in Timeout : s[t] <= MaxTicks
  BY TimeoutAssumption DEF QInv
<1>2. ~ticking => \A t \in Timeout : s[t] # 0
  BY DEF QInv
<1> QED
  BY <1>1, <1>2 DEF QInv

\* _abort_timeout() of an armed timeout
LEMMA AbortStep ==
  ASSUME QInv, NEW t \in Timeout, Armed(t), SetQueue(abort_timeout(Queue, t)), UNCHANGED ticking
  PROVE  /\ QInv' /\ Countdowns!Next
         /\ \A u \in Timeout : Armed(u)' <=> Armed(u) /\ u # t
<1>1. Times(Queue, Left) /\ WellFormed(Queue) /\ Left \in [Timeout -> Int] /\ Left[t] # -1
      /\ Linked(Queue.q, t)
  BY QFacts DEF QInv
<1>2. PICK l : l = Left
  OBVIOUS
<1>3. /\ WellFormed(Queue)' /\ Left' = [Left EXCEPT ![t] = -1]
      /\ \A u \in Timeout : Armed(u)' <=> [Left EXCEPT ![t] = -1][u] # -1
  BY <1>1, AbortTimes, QueueStep
<1>4. Left' = [l EXCEPT ![t] = -1]
  BY <1>2, <1>3
<1>5. \A u \in Timeout : [l EXCEPT ![t] = -1][u] = Left[u] \/ [l EXCEPT ![t] = -1][u] = -1
  BY <1>1, <1>2
<1>6. QInv'
  BY <1>3, <1>4, <1>5, QInvKept
<1>7. Countdowns!Abort(t)
  BY <1>1, <1>3 DEF Countdowns!Abort, Countdowns!Armed
<1>8. \A u \in Timeout : Armed(u) <=> Left[u] # -1
  BY QFacts
<1>9. \A u \in Timeout : Armed(u)' <=> Armed(u) /\ u # t
  BY <1>1, <1>3, <1>8
<1> QED
  BY <1>6, <1>7, <1>9 DEF Countdowns!Next

\* _add_timeout(), after _abort_timeout() if the timeout is armed
LEMMA StartStep ==
  ASSUME QInv, NEW t \in Timeout, NEW n \in 1..MaxTicks, SetQueue(Started(Queue, t, n)),
         UNCHANGED ticking
  PROVE  /\ QInv' /\ Countdowns!Next
         /\ \A u \in Timeout : Armed(u)' <=> Armed(u) \/ u = t
<1>n. n \in Nat \ {0}
  BY TimeoutAssumption
<1>1. Times(Queue, Left) /\ WellFormed(Queue) /\ Left \in [Timeout -> Int]
  BY QFacts DEF QInv
<1>2. PICK l : l = Left
  OBVIOUS
<1>3. /\ WellFormed(Queue)' /\ Left' = [Left EXCEPT ![t] = n]
      /\ \A u \in Timeout : Armed(u)' <=> [Left EXCEPT ![t] = n][u] # -1
  BY <1>1, <1>n, StartedTimes, QueueStep
<1>4. Left' = [l EXCEPT ![t] = n]
  BY <1>2, <1>3
<1>5. \A u \in Timeout : [l EXCEPT ![t] = n][u] = Left[u] \/ [l EXCEPT ![t] = n][u] \in 1..MaxTicks
  BY <1>1, <1>2
<1>6. QInv'
  BY <1>3, <1>4, <1>5, QInvKept
<1>7. Countdowns!Arm(t, n) \/ Countdowns!Rearm(t, n)
  BY <1>1, <1>3 DEF Countdowns!Arm, Countdowns!Rearm, Countdowns!Armed
<1>8. \A u \in Timeout : Armed(u) <=> Left[u] # -1
  BY QFacts
<1>9. \A u \in Timeout : Armed(u)' <=> Armed(u) \/ u = t
  BY <1>1, <1>3, <1>8, <1>n
<1> QED
  BY <1>6, <1>7, <1>9 DEF Countdowns!Next

\* handle_expired_timeouts(), of no more ticks than the first timeout has left
LEMMA ElapseStep ==
  ASSUME QInv, NEW n \in Nat, handle_expired_timeouts(n), tq # << >> => n <= delta[Head(tq)]
  PROVE  /\ QInv' /\ Countdowns!Next
         /\ \A t \in Timeout : Armed(t)' <=> Armed(t)
<1>h. ~ticking /\ ticking' = TRUE /\ tq' = tq
      /\ delta' = IF tq = << >> THEN delta ELSE [delta EXCEPT ![Head(tq)] = @ - n]
  BY DEF handle_expired_timeouts
<1>w. WellFormed(Queue) /\ Times(Queue, Left) /\ Queue.q = tq /\ Queue.d = delta
      /\ Left \in [Timeout -> Int]
  BY QFacts DEF QInv
<1>1. CASE tq = << >>
  <2>1. \A t \in Timeout : Left[t] = -1
    BY <1>1, QFacts
  <2>2. Left' = Left /\ Queue' = Queue
    BY <1>1, <1>h DEF Left, remaining, Armed, Queue
  <2>3. QInv'
    BY <2>1, <2>2, <1>w, <1>h DEF QInv
  <2>4. Left = [t \in Timeout |-> IF Countdowns!Armed(t) THEN Left[t] - 0 ELSE -1]
    BY <2>1, <1>w DEF Countdowns!Armed
  <2>5. Countdowns!Elapse(0)
    BY <2>1, <2>2, <2>4, <1>h DEF Countdowns!Elapse, Countdowns!Armed
  <2>6. 0 \in 0..MaxTicks
    BY TimeoutAssumption
  <2>7. \A t \in Timeout : Armed(t)' <=> Armed(t)
    BY <1>1, <1>h DEF Armed
  <2> QED
    BY <2>3, <2>5, <2>6, <2>7 DEF Countdowns!Next
<1>2. CASE tq # << >>
  <2> DEFINE R == [q |-> tq, d |-> [delta EXCEPT ![Head(tq)] = @ - n]]
             s == [t \in Timeout |-> IF Linked(tq, t) THEN Left[t] - n ELSE -1]
  <2>1. WellFormed(R) /\ Times(R, s)
    BY <1>2, <1>w, ElapseTimes
  <2>2. SetQueue(R)
    BY <1>2, <1>h DEF SetQueue
  <2>3. WellFormed(Queue)' /\ Left' = s /\ \A t \in Timeout : Armed(t)' <=> s[t] # -1
    <3> HIDE DEF R, s
    <3> QED
      BY <2>1, <2>2, QueueStep
  <2>4. \A t \in Timeout : (Linked(tq, t) <=> Left[t] # -1) /\ (Left[t] # -1 => Left[t] >= n)
        /\ Left[t] >= -1 /\ Left[t] <= MaxTicks
    <3>1. \A t \in Timeout : (Linked(tq, t) <=> Left[t] # -1) /\ Left[t] >= -1 /\ Left[t] <= MaxTicks
      BY QFacts DEF QInv
    <3>2. Head(tq) \in Timeout /\ Left[Head(tq)] >= n
          /\ \A t \in Timeout : Left[t] # -1 => Left[t] >= Left[Head(tq)]
      BY <1>2, QFacts
    <3> QED
      BY <3>1, <3>2, <1>w
  <2>5. n \in 0..MaxTicks
    <3>1. Head(tq) \in Timeout /\ n <= Left[Head(tq)]
      BY <1>2, QFacts
    <3> QED
      BY <3>1, <2>4, <1>w, TimeoutAssumption
  <2>6. \A t \in Timeout : s[t] <= MaxTicks /\ (s[t] # -1 <=> Left[t] # -1)
    BY <2>4, <1>w, TimeoutAssumption
  <2>7. s = [t \in Timeout |-> IF Countdowns!Armed(t) THEN Left[t] - n ELSE -1]
    BY <2>4 DEF Countdowns!Armed
  <2> HIDE DEF s
  <2>8. QInv'
    BY <2>3, <2>6, <1>h DEF QInv
  <2>9. Countdowns!Elapse(n)
    BY <2>3, <2>4, <2>7, <1>h DEF Countdowns!Elapse, Countdowns!Armed
  <2>10. \A t \in Timeout : Armed(t)' <=> Armed(t)
    <3>1. \A t \in Timeout : Armed(t) <=> Left[t] # -1
      BY QFacts
    <3> QED
      BY <2>3, <2>6, <3>1
  <2> QED
    BY <2>5, <2>8, <2>9, <2>10 DEF Countdowns!Next
<1> QED
  BY <1>1, <1>2

\* The end of a tick, when the loop of _handle_timeouts() finds nothing due
LEMMA EndStep ==
  ASSUME QInv, handle_timeouts_end
  PROVE  /\ QInv' /\ Countdowns!Next
         /\ \A t \in Timeout : Armed(t)' <=> Armed(t)
<1>h. ticking /\ ~HeadIsDue /\ ticking' = FALSE /\ tq' = tq /\ delta' = delta
  BY DEF handle_timeouts_end
<1>1. Left' = Left /\ Queue' = Queue
  BY <1>h DEF Left, remaining, Armed, Queue
<1>2. ASSUME NEW t \in Timeout PROVE Left[t] # 0
  <2>1. CASE tq = << >>
    BY <2>1, QFacts
  <2>2. CASE tq # << >>
    <3>1. /\ Head(tq) \in Timeout /\ Left[Head(tq)] = delta[Head(tq)] /\ delta[Head(tq)] >= 0
          /\ Left[t] # -1 => Left[t] >= Left[Head(tq)]
          /\ Left \in [Timeout -> Int]
      BY <2>2, QFacts
    <3>2. delta[Head(tq)] # 0
      BY <2>2, <1>h DEF HeadIsDue
    <3> QED
      BY <3>1, <3>2
  <2> QED
    BY <2>1, <2>2
<1>3. QInv'
  BY <1>1, <1>2, <1>h DEF QInv
<1>4. Countdowns!TickEnd
  BY <1>1, <1>2, <1>h DEF Countdowns!TickEnd
<1>5. \A t \in Timeout : Armed(t)' <=> Armed(t)
  BY <1>h DEF Armed
<1> QED
  BY <1>3, <1>4, <1>5 DEF Countdowns!Next

\* _handle_one_timeout()
LEMMA ExpireStep ==
  ASSUME QInv, ticking, HeadIsDue, NEW m \in 0..MaxTicks, SetQueue(Handled(m)), UNCHANGED ticking
  PROVE  /\ QInv' /\ Countdowns!Next /\ Head(tq) \in Timeout
         /\ \A u \in Timeout : u # Head(tq) => (Armed(u)' <=> Armed(u))
<1>m. m \in Nat
  BY TimeoutAssumption
<1> DEFINE v == IF m > 0 THEN m ELSE -1
<1>v. v \in {-1} \cup 1..MaxTicks
  BY TimeoutAssumption
<1> HIDE DEF v
<1>1. /\ Head(tq) \in Timeout /\ Left[Head(tq)] = 0 /\ Left \in [Timeout -> Int]
      /\ WellFormed(Handled(m)) /\ Times(Handled(m), [Left EXCEPT ![Head(tq)] = v])
  BY <1>m, HandledTimes, QFacts DEF v
<1>2. PICK h, l : h \in Timeout /\ h = Head(tq) /\ l = Left
  BY <1>1
<1>3. /\ WellFormed(Queue)' /\ Left' = [Left EXCEPT ![Head(tq)] = v]
      /\ \A u \in Timeout : Armed(u)' <=> [Left EXCEPT ![Head(tq)] = v][u] # -1
  BY <1>1, QueueStep
<1>4. Left' = [l EXCEPT ![h] = v]
  BY <1>2, <1>3
<1>5. \A u \in Timeout : \/ [l EXCEPT ![h] = v][u] = Left[u] \/ [l EXCEPT ![h] = v][u] = -1
                        \/ [l EXCEPT ![h] = v][u] \in 1..MaxTicks
  BY <1>1, <1>2, <1>v
<1>6. QInv'
  BY <1>3, <1>4, <1>5, QInvKept
<1>7. Countdowns!Expire(h)
  <2>1. Left' = [Left EXCEPT ![h] = v] /\ Left[h] = 0
    BY <1>1, <1>2, <1>3
  <2> QED
    BY <2>1, <1>v DEF Countdowns!Expire
<1>8. \A u \in Timeout : Armed(u) <=> Left[u] # -1
  BY QFacts
<1>9. \A u \in Timeout : u # Head(tq) => (Armed(u)' <=> Armed(u))
  BY <1>1, <1>3, <1>8
<1> QED
  BY <1>1, <1>2, <1>6, <1>7, <1>9 DEF Countdowns!Next

\* ... with an expiry function that starts a timer, the expired one or another
LEMMA ExpireRestartStep ==
  ASSUME QInv, ticking, HeadIsDue, NEW m \in 0..MaxTicks, NEW t \in Timeout, NEW n \in 1..MaxTicks,
         SetQueue(Started(Handled(m), t, n)), UNCHANGED ticking
  PROVE  /\ QInv' /\ Countdowns!Next /\ Head(tq) \in Timeout
         /\ \A u \in Timeout : u # Head(tq) => (Armed(u)' <=> Armed(u) \/ u = t)
<1>m. m \in Nat /\ n \in Nat \ {0}
  BY TimeoutAssumption
<1> DEFINE v == IF m > 0 THEN m ELSE -1
<1>v. v \in {-1} \cup 1..MaxTicks
  BY TimeoutAssumption
<1> HIDE DEF v
<1>1. /\ Head(tq) \in Timeout /\ Left[Head(tq)] = 0 /\ Left \in [Timeout -> Int]
      /\ WellFormed(Handled(m)) /\ Times(Handled(m), [Left EXCEPT ![Head(tq)] = v])
  BY <1>m, HandledTimes, QFacts DEF v
<1>2. PICK h, l : h \in Timeout /\ h = Head(tq) /\ l = Left
  BY <1>1
<1> DEFINE s == [l EXCEPT ![h] = v, ![t] = n]
<1>3. Times(Started(Handled(m), t, n), s) /\ WellFormed(Started(Handled(m), t, n))
  <2>1. Times(Handled(m), [l EXCEPT ![h] = v])
    BY <1>1, <1>2
  <2>2. /\ WellFormed(Started(Handled(m), t, n))
        /\ Times(Started(Handled(m), t, n), [[l EXCEPT ![h] = v] EXCEPT ![t] = n])
    BY <1>1, <1>m, <2>1, StartedTimes
  <2> QED
    BY <2>2
<1>4. WellFormed(Queue)' /\ Left' = s /\ \A u \in Timeout : Armed(u)' <=> s[u] # -1
  BY <1>3, QueueStep
<1>5. \A u \in Timeout : s[u] = Left[u] \/ s[u] = -1 \/ s[u] \in 1..MaxTicks
  BY <1>1, <1>2, <1>v
<1>8. Left' = [Left EXCEPT ![h] = v, ![t] = n] /\ Left[h] = 0
  BY <1>1, <1>2, <1>4
<1> HIDE DEF s
<1>6. QInv'
  BY <1>4, <1>5, QInvKept
<1>7. Countdowns!Expire(h)
  BY <1>8, <1>v DEF Countdowns!Expire
<1>10. \A u \in Timeout : Armed(u) <=> Left[u] # -1
  BY QFacts
<1>9. \A u \in Timeout : u # Head(tq) => (Armed(u)' <=> Armed(u) \/ u = t)
  BY <1>1, <1>2, <1>4, <1>10, <1>m DEF s
<1> QED
  BY <1>1, <1>2, <1>9, <1>6, <1>7 DEF Countdowns!Next

\* The empty queue
LEMMA QInvInit ==
  ASSUME Init
  PROVE  QInv /\ Countdowns!Init
<1>1. tq = << >> /\ delta = [t \in Timeout |-> -1] /\ ticking = FALSE
  BY DEF Init
<1>2. Queue.q = tq /\ Queue.d = delta
  BY DEF Queue
<1>3. WellFormed(Queue)
  <2>1. << >> \in Seq(Timeout) /\ NoDup(<< >>) /\ \A t \in Timeout : ~Linked(<< >>, t)
    BY EmptySeq DEF NoDup, Linked
  <2>2. \A t \in Timeout : delta[t] = -1 /\ delta \in [Timeout -> Int]
    BY <1>1
  <2> QED
    BY <1>1, <1>2, <2>1, <2>2 DEF WellFormed
<1>4. Left = [t \in Timeout |-> -1]
  BY <1>1 DEF Left, remaining, Armed
<1>5. QInv
  <2>1. \A t \in Timeout : Left[t] = -1
    BY <1>4
  <2>2. \A t \in Timeout : Left[t] <= MaxTicks /\ Left[t] # 0
    BY <2>1, TimeoutAssumption
  <2> QED
    BY <1>1, <1>3, <2>2 DEF QInv
<1>6. Countdowns!Init
  BY <1>1, <1>4 DEF Countdowns!Init
<1> QED
  BY <1>5, <1>6

(***************************************************************************)
(* Timers                                                                  *)
(***************************************************************************)

TimerInv ==
  /\ QInv
  /\ period \in [Tmr -> 0..MaxTicks]
  /\ DOMAIN pc = Thr
  /\ NoStrandedWaiter

\* NoStrandedWaiter, thread by thread
LEMMA Stranded ==
  NoStrandedWaiter <=>
    \A tm \in Tmr, x \in Thr : At(x, "sync", tm) => Armed(tm) \/ \E y \in Thr : At(y, "stop", tm)
BY Zenon DEF NoStrandedWaiter, Waiters

\* The same of the next state
LEMMA StrandedNext ==
  NoStrandedWaiter' <=>
    \A tm \in Tmr, x \in Thr :
      At(x, "sync", tm)' => Armed(tm)' \/ \E y \in Thr : At(y, "stop", tm)'
BY Zenon DEF NoStrandedWaiter, Waiters

\* The expiry of a timer, or its stop, leaves none of its waiters waiting.
LEMMA WakeEffect ==
  ASSUME NEW tm, NEW ret, pc' = Wake(tm, ret)
  PROVE  /\ DOMAIN pc' = Thr
         /\ \A x \in Thr : \A u : /\ At(x, "sync", u)' <=> At(x, "sync", u) /\ u # tm
                                  /\ At(x, "stop", u)' <=> At(x, "stop", u)
<1>1. DOMAIN pc' = Thr
  BY DEF Wake
<1>2. ASSUME NEW x \in Thr, NEW u
      PROVE  /\ At(x, "sync", u)' <=> At(x, "sync", u) /\ u # tm
             /\ At(x, "stop", u)' <=> At(x, "stop", u)
  <2>1. CASE pc[x].at = "sync" /\ pc[x].tmr = tm
    <3>1. pc'[x] = [at |-> "woken", tmr |-> tm, ret |-> ret]
      BY <2>1 DEF Wake, Waiters, At
    <3> QED
      BY <2>1, <3>1 DEF At
  <2>2. CASE ~(pc[x].at = "sync" /\ pc[x].tmr = tm)
    <3>1. pc'[x] = pc[x]
      BY <2>2 DEF Wake, Waiters, At
    <3> QED
      BY <2>2, <3>1 DEF At
  <2> QED
    BY <2>1, <2>2
<1> QED
  BY <1>1, <1>2

\* A step of the timers keeps the invariant and is a step of the countdowns.
LEMMA TimerStep ==
  ASSUME TimerInv, [TimerNext]_tvars
  PROVE  TimerInv' /\ [Countdowns!Next]_(Countdowns!vars)
<1>i. /\ QInv /\ period \in [Tmr -> 0..MaxTicks] /\ DOMAIN pc = Thr /\ NoStrandedWaiter
      /\ \A tm \in Tmr, x \in Thr : At(x, "sync", tm) => Armed(tm) \/ \E y \in Thr : At(y, "stop", tm)
  BY Stranded DEF TimerInv
<1>t. Tmr \subseteq Timeout
  BY TimerAssumption
<1>p. \A tm \in Tmr : period[tm] \in 0..MaxTicks
  BY <1>i
\* the queue does not change
<1>u. ASSUME UNCHANGED <<tq, delta, ticking>>
      PROVE  QInv' /\ UNCHANGED Countdowns!vars /\ \A t \in Timeout : Armed(t)' <=> Armed(t)
  <2>1. Left' = Left /\ Queue' = Queue
    BY <1>u DEF Left, remaining, Armed, Queue
  <2>2. QInv'
    BY <1>i, <1>u, <2>1 DEF QInv
  <2>3. UNCHANGED Countdowns!vars
    BY <1>u, <2>1 DEF Countdowns!vars
  <2> QED
    BY <1>u, <2>2, <2>3 DEF Armed
\* no thread starts or stops waiting
<1>s. ASSUME UNCHANGED pc
      PROVE  /\ DOMAIN pc' = Thr
             /\ \A x \in Thr : \A u : /\ At(x, "sync", u)' <=> At(x, "sync", u)
                                      /\ At(x, "stop", u)' <=> At(x, "stop", u)
  BY <1>s, <1>i DEF At
<1>1. ASSUME NEW tm \in Tmr, NEW n \in 1..MaxTicks, NEW p \in 0..MaxTicks, k_timer_start(tm, n, p)
      PROVE  TimerInv' /\ Countdowns!Next
  <2>1. SetQueue(Started(Queue, tm, n)) /\ UNCHANGED ticking /\ UNCHANGED pc
        /\ period' = [period EXCEPT ![tm] = p]
    BY <1>1 DEF k_timer_start
  <2>2. /\ QInv' /\ Countdowns!Next
        /\ \A u \in Timeout : Armed(u)' <=> Armed(u) \/ u = tm
    BY <2>1, <1>i, <1>t, StartStep
  <2>3. NoStrandedWaiter'
    BY <2>1, <2>2, <1>i, <1>t, <1>s, StrandedNext
  <2>4. period' \in [Tmr -> 0..MaxTicks]
    BY <2>1, <1>i
  <2> QED
    BY <2>1, <2>2, <2>3, <2>4, <1>s DEF TimerInv
<1>2. ASSUME NEW tm \in Tmr, NEW n \in 1..MaxTicks, NEW p \in 0..MaxTicks,
             timer_expiration_restart(tm, n, p)
      PROVE  TimerInv' /\ Countdowns!Next
  <2>1. /\ ticking /\ HeadIsDue /\ Head(tq) \in Tmr /\ SetQueue(Started(Expired(Head(tq)), tm, n))
        /\ UNCHANGED ticking /\ pc' = Wake(Head(tq), 0) /\ period' = [period EXCEPT ![tm] = p]
    BY <1>2 DEF timer_expiration_restart
  <2>2. PICK h, m : h = Head(tq) /\ m = period[h] /\ m \in 0..MaxTicks
    BY <2>1, <1>p
  <2>3. Expired(Head(tq)) = Handled(m)
    BY <2>2 DEF Expired, Handled
  <2>4. /\ QInv' /\ Countdowns!Next
        /\ \A u \in Timeout : u # Head(tq) => (Armed(u)' <=> Armed(u) \/ u = tm)
    BY <2>1, <2>2, <2>3, <1>i, <1>t, ExpireRestartStep
  <2>5. /\ DOMAIN pc' = Thr
        /\ \A x \in Thr : \A u : /\ At(x, "sync", u)' <=> At(x, "sync", u) /\ u # h
                                 /\ At(x, "stop", u)' <=> At(x, "stop", u)
    BY <2>1, <2>2, WakeEffect
  <2>6. NoStrandedWaiter'
    BY <2>2, <2>4, <2>5, <1>i, <1>t, StrandedNext
  <2>7. period' \in [Tmr -> 0..MaxTicks]
    BY <2>1, <1>i
  <2> QED
    BY <2>4, <2>5, <2>6, <2>7 DEF TimerInv
<1>3. ASSUME NEW tm \in Tmr, k_timer_status_get(tm)
      PROVE  TimerInv' /\ UNCHANGED Countdowns!vars
  <2>1. UNCHANGED <<tq, delta, ticking>> /\ UNCHANGED period /\ UNCHANGED pc
    BY <1>3 DEF k_timer_status_get
  <2>2. NoStrandedWaiter'
    BY <2>1, <1>i, <1>t, <1>u, <1>s, StrandedNext
  <2> QED
    BY <2>1, <2>2, <1>i, <1>u, <1>s DEF TimerInv
<1>4. ASSUME NEW th \in Thr, NEW tm \in Tmr, k_timer_stop(th, tm)
      PROVE  TimerInv' /\ Countdowns!Next
  <2>1. /\ pc[th] = Running /\ Armed(tm) /\ SetQueue(abort_timeout(Queue, tm)) /\ UNCHANGED ticking
        /\ pc' = [pc EXCEPT ![th] = [at |-> "stop", tmr |-> tm]] /\ UNCHANGED period
    BY <1>4 DEF k_timer_stop
  <2>2. /\ QInv' /\ Countdowns!Next
        /\ \A u \in Timeout : Armed(u)' <=> Armed(u) /\ u # tm
    BY <2>1, <1>i, <1>t, AbortStep
  <2>3. /\ DOMAIN pc' = Thr
        /\ \A x \in Thr : \A u : /\ At(x, "sync", u)' <=> At(x, "sync", u)
                                 /\ At(x, "stop", u)' <=> At(x, "stop", u) \/ (x = th /\ u = tm)
    <3>1. DOMAIN pc' = Thr /\ pc[th].at = "run" /\ pc'[th].at = "stop" /\ pc'[th].tmr = tm
          /\ \A x \in Thr : x # th => pc'[x] = pc[x]
      BY <2>1, <1>i DEF Running
    <3> QED
      BY <3>1 DEF At
  <2>4. NoStrandedWaiter'
    BY <2>2, <2>3, <1>i, <1>t, StrandedNext
  <2> QED
    BY <2>1, <2>2, <2>3, <2>4, <1>i DEF TimerInv
<1>5. ASSUME NEW th \in Thr, k_timer_stop_end(th)
      PROVE  TimerInv' /\ UNCHANGED Countdowns!vars
  <2>1. /\ pc[th].at = "stop" /\ pc' = [Wake(pc[th].tmr, -1) EXCEPT ![th] = Running]
        /\ UNCHANGED <<tq, delta, ticking>> /\ UNCHANGED period
    BY <1>5 DEF k_timer_stop_end
  <2>2. PICK tm : tm = pc[th].tmr
    OBVIOUS
  <2>3. /\ DOMAIN pc' = Thr
        /\ \A x \in Thr : \A u : /\ At(x, "sync", u)' => At(x, "sync", u) /\ u # tm
                                 /\ At(x, "stop", u) /\ u # tm => At(x, "stop", u)'
    <3>1. DOMAIN pc' = Thr /\ pc'[th].at = "run"
          /\ \A x \in Thr : x # th => pc'[x] = Wake(tm, -1)[x]
      BY <2>1, <2>2 DEF Running, Wake
    <3>2. ASSUME NEW x \in Thr, NEW u, At(x, "sync", u)' PROVE At(x, "sync", u) /\ u # tm
      <4>1. x # th /\ pc'[x] = Wake(tm, -1)[x]
        BY <3>1, <3>2 DEF At
      <4>2. CASE pc[x].at = "sync" /\ pc[x].tmr = tm
        <5>1. pc'[x] = [at |-> "woken", tmr |-> tm, ret |-> -1]
          BY <4>1, <4>2 DEF Wake, Waiters, At
        <5> QED
          BY <5>1, <3>2 DEF At
      <4>3. CASE ~(pc[x].at = "sync" /\ pc[x].tmr = tm)
        <5>1. pc'[x] = pc[x]
          BY <4>1, <4>3 DEF Wake, Waiters, At
        <5> QED
          BY <5>1, <4>3, <3>2 DEF At
      <4> QED
        BY <4>2, <4>3
    <3>3. ASSUME NEW x \in Thr, NEW u, At(x, "stop", u), u # tm PROVE At(x, "stop", u)'
      <4>1. x # th
        BY <3>3, <2>2 DEF At
      <4>2. pc'[x] = pc[x]
        BY <4>1, <3>1, <3>3 DEF Wake, Waiters, At
      <4> QED
        BY <4>2, <3>3 DEF At
    <3> QED
      BY <3>1, <3>2, <3>3
  <2>4. NoStrandedWaiter'
    BY <2>1, <2>3, <1>i, <1>t, <1>u, StrandedNext
  <2> QED
    BY <2>1, <2>3, <2>4, <1>i, <1>u DEF TimerInv
<1>6. ASSUME NEW th \in Thr, NEW tm \in Tmr, k_timer_status_sync(th, tm)
      PROVE  TimerInv' /\ UNCHANGED Countdowns!vars
  <2>1. /\ pc[th] = Running /\ UNCHANGED <<tq, delta, ticking>> /\ UNCHANGED period
        /\ \/ Armed(tm) /\ pc' = [pc EXCEPT ![th] = [at |-> "sync", tmr |-> tm]]
           \/ UNCHANGED pc
    BY <1>6 DEF k_timer_status_sync
  <2>2. /\ DOMAIN pc' = Thr
        /\ \A x \in Thr : \A u : /\ At(x, "sync", u)' => At(x, "sync", u) \/ (Armed(tm) /\ u = tm)
                                 /\ At(x, "stop", u)' <=> At(x, "stop", u)
    <3>1. CASE UNCHANGED pc
      BY <3>1, <1>s
    <3>2. CASE Armed(tm) /\ pc' = [pc EXCEPT ![th] = [at |-> "sync", tmr |-> tm]]
      <4>1. DOMAIN pc' = Thr /\ pc[th].at = "run" /\ pc'[th].at = "sync" /\ pc'[th].tmr = tm
            /\ \A x \in Thr : x # th => pc'[x] = pc[x]
        BY <2>1, <3>2, <1>i DEF Running
      <4> QED
        BY <4>1, <3>2 DEF At
    <3> QED
      BY <2>1, <3>1, <3>2
  <2>3. NoStrandedWaiter'
    BY <2>1, <2>2, <1>i, <1>t, <1>u, StrandedNext
  <2> QED
    BY <2>1, <2>2, <2>3, <1>i, <1>u DEF TimerInv
<1>7. ASSUME NEW th \in Thr, k_timer_status_sync_end(th)
      PROVE  TimerInv' /\ UNCHANGED Countdowns!vars
  <2>1. /\ pc[th].at = "woken" /\ UNCHANGED <<tq, delta, ticking>> /\ UNCHANGED period
        /\ pc' = [pc EXCEPT ![th] = Running]
    BY <1>7 DEF k_timer_status_sync_end
  <2>2. /\ DOMAIN pc' = Thr
        /\ \A x \in Thr : \A u : /\ At(x, "sync", u)' <=> At(x, "sync", u)
                                 /\ At(x, "stop", u)' <=> At(x, "stop", u)
    <3>1. DOMAIN pc' = Thr /\ pc'[th].at = "run" /\ \A x \in Thr : x # th => pc'[x] = pc[x]
      BY <2>1, <1>i DEF Running
    <3> QED
      BY <2>1, <3>1 DEF At
  <2>3. NoStrandedWaiter'
    BY <2>1, <2>2, <1>i, <1>t, <1>u, StrandedNext
  <2> QED
    BY <2>1, <2>2, <2>3, <1>i, <1>u DEF TimerInv
<1>8. ASSUME NEW t \in Timeout, thread_timeout(t)
      PROVE  TimerInv' /\ Countdowns!Next
  <2>1. t \notin Tmr /\ UNCHANGED ticking /\ UNCHANGED period /\ UNCHANGED pc
    BY <1>8 DEF thread_timeout
  <2>2. /\ QInv' /\ Countdowns!Next
        /\ \A u \in Tmr : Armed(u)' <=> Armed(u)
    <3>1. CASE Armed(t)
      <4>1. SetQueue(abort_timeout(Queue, t))
        BY <1>8, <3>1 DEF thread_timeout
      <4> QED
        BY <4>1, <3>1, <2>1, <1>i, <1>t, AbortStep
    <3>2. CASE ~Armed(t)
      <4>1. PICK n \in 1..MaxTicks : SetQueue(add_timeout(Queue, t, n))
        BY <1>8, <3>2 DEF thread_timeout
      <4>2. add_timeout(Queue, t, n) = Started(Queue, t, n)
        BY <3>2 DEF Started, Armed, Queue
      <4> QED
        BY <4>1, <4>2, <2>1, <1>i, <1>t, StartStep
    <3> QED
      BY <3>1, <3>2
  <2>3. NoStrandedWaiter'
    BY <2>1, <2>2, <1>i, <1>s, StrandedNext
  <2> QED
    BY <2>1, <2>2, <2>3, <1>i, <1>s DEF TimerInv
<1>9. ASSUME tick_announce
      PROVE  TimerInv' /\ Countdowns!Next
  <2>1. PICK n \in 1..MaxTicks : /\ get_next_timeout_expiry # -1 => n <= get_next_timeout_expiry
                                 /\ handle_expired_timeouts(n)
    BY <1>9 DEF tick_announce
  <2>2. n \in Nat /\ (tq # << >> => n <= delta[Head(tq)])
    <3>1. tq # << >> => delta[Head(tq)] >= 0 /\ delta[Head(tq)] = get_next_timeout_expiry
      BY <1>i, QFacts DEF get_next_timeout_expiry
    <3> QED
      BY <2>1, <3>1, TimeoutAssumption
  <2>3. QInv' /\ Countdowns!Next /\ \A u \in Timeout : Armed(u)' <=> Armed(u)
    BY <2>1, <2>2, <1>i, ElapseStep
  <2>4. UNCHANGED period /\ UNCHANGED pc
    BY <1>9 DEF tick_announce
  <2>5. NoStrandedWaiter'
    BY <2>3, <2>4, <1>i, <1>t, <1>s, StrandedNext
  <2> QED
    BY <2>3, <2>4, <2>5, <1>i, <1>s DEF TimerInv
<1>10. ASSUME timer_expiration_handler
       PROVE  TimerInv' /\ Countdowns!Next
  <2>1. /\ ticking /\ HeadIsDue /\ Head(tq) \in Tmr /\ SetQueue(Expired(Head(tq)))
        /\ UNCHANGED ticking /\ pc' = Wake(Head(tq), 0) /\ UNCHANGED period
    BY <1>10 DEF timer_expiration_handler
  <2>2. PICK h, m : h = Head(tq) /\ m = period[h] /\ m \in 0..MaxTicks
    BY <2>1, <1>p
  <2>3. Expired(Head(tq)) = Handled(m)
    BY <2>2 DEF Expired, Handled
  <2>4. /\ QInv' /\ Countdowns!Next
        /\ \A u \in Timeout : u # Head(tq) => (Armed(u)' <=> Armed(u))
    BY <2>1, <2>2, <2>3, <1>i, <1>t, ExpireStep
  <2>5. /\ DOMAIN pc' = Thr
        /\ \A x \in Thr : \A u : /\ At(x, "sync", u)' <=> At(x, "sync", u) /\ u # h
                                 /\ At(x, "stop", u)' <=> At(x, "stop", u)
    BY <2>1, <2>2, WakeEffect
  <2>6. NoStrandedWaiter'
    BY <2>2, <2>4, <2>5, <1>i, <1>t, StrandedNext
  <2> QED
    BY <2>1, <2>4, <2>5, <2>6, <1>i DEF TimerInv
<1>11. ASSUME thread_times_out
       PROVE  TimerInv' /\ Countdowns!Next
  <2>1. /\ ticking /\ HeadIsDue /\ Head(tq) \notin Tmr /\ SetQueue(dequeue(Queue))
        /\ UNCHANGED ticking /\ UNCHANGED pc /\ UNCHANGED period
    BY <1>11 DEF thread_times_out
  <2>2. 0 \in 0..MaxTicks /\ dequeue(Queue) = Handled(0)
    BY TimeoutAssumption DEF Handled
  <2>3. /\ QInv' /\ Countdowns!Next
        /\ \A u \in Timeout : u # Head(tq) => (Armed(u)' <=> Armed(u))
    BY <2>1, <2>2, <1>i, ExpireStep
  <2>4. NoStrandedWaiter'
    BY <2>1, <2>3, <1>i, <1>t, <1>s, StrandedNext
  <2> QED
    BY <2>1, <2>3, <2>4, <1>i, <1>s DEF TimerInv
<1>12. ASSUME tick_end
       PROVE  TimerInv' /\ Countdowns!Next
  <2>1. handle_timeouts_end /\ UNCHANGED pc /\ UNCHANGED period
    BY <1>12 DEF tick_end
  <2>2. QInv' /\ Countdowns!Next /\ \A u \in Timeout : Armed(u)' <=> Armed(u)
    BY <2>1, <1>i, EndStep
  <2>3. NoStrandedWaiter'
    BY <2>1, <2>2, <1>i, <1>t, <1>s, StrandedNext
  <2> QED
    BY <2>1, <2>2, <2>3, <1>i, <1>s DEF TimerInv
<1>13. ASSUME UNCHANGED tvars
       PROVE  TimerInv' /\ UNCHANGED Countdowns!vars
  <2>1. UNCHANGED <<tq, delta, ticking>> /\ UNCHANGED period /\ UNCHANGED pc
    BY <1>13 DEF tvars
  <2>2. NoStrandedWaiter'
    BY <2>1, <1>i, <1>t, <1>u, <1>s, StrandedNext
  <2> QED
    BY <2>1, <2>2, <1>i, <1>u, <1>s DEF TimerInv
<1> QED
  BY <1>1, <1>2, <1>3, <1>4, <1>5, <1>6, <1>7, <1>8, <1>9, <1>10, <1>11, <1>12, <1>13
     DEF TimerNext, Restart

\* The inductive invariant of the timers holds.
THEOREM TimerInvariant == TimerSpec => []TimerInv
<1>1. TimerInit => TimerInv
  <2> SUFFICES ASSUME TimerInit PROVE TimerInv
    OBVIOUS
  <2>1. Init /\ period = [tm \in Tmr |-> 0] /\ pc = [th \in Thr |-> Running]
    BY DEF TimerInit
  <2>2. QInv
    BY <2>1, QInvInit
  <2>3. period \in [Tmr -> 0..MaxTicks]
    BY <2>1, TimeoutAssumption
  <2>4. DOMAIN pc = Thr /\ \A x \in Thr : \A u : ~At(x, "sync", u)
    BY <2>1 DEF At, Running
  <2>5. NoStrandedWaiter
    BY <2>4, Stranded
  <2> QED
    BY <2>2, <2>3, <2>4, <2>5 DEF TimerInv
<1>2. TimerInv /\ [TimerNext]_tvars => TimerInv'
  BY TimerStep
<1> QED
  BY <1>1, <1>2, PTL DEF TimerSpec

\* The sentinel -1 says truly whether a timeout is on the queue, deltas are not negative, and
\* nothing is left due between two ticks: whatever k_timer_start(), k_timer_stop(), sleeping
\* threads and expiry functions do, for any number of timers and threads.
THEOREM TimerQueueMatches == TimerSpec => []QueueMatchesDeltas
<1>1. TimerInv => QueueMatchesDeltas
  BY QInvMatches DEF TimerInv
<1> QED
  BY <1>1, TimerInvariant, PTL

\* No thread is left on the wait queue of a timer that was stopped or has expired for
\* good: k_timer_status_sync() tests, and k_timer_stop() and the expiry wake.
THEOREM TimerNobodyStranded == TimerSpec => []NoStrandedWaiter
<1>1. TimerInv => NoStrandedWaiter
  BY DEF TimerInv
<1> QED
  BY <1>1, TimerInvariant, PTL

\* Timers implement independent countdowns: arming, stopping, periods and restarts inside
\* expiry functions never make another timeout early or late.
THEOREM TimersRefine == TimerSpec => TimersCountDown
<1>1. TimerInit => Countdowns!Init
  BY QInvInit DEF TimerInit
<1>2. TimerInv /\ [TimerNext]_tvars => [Countdowns!Next]_(Countdowns!vars)
  BY TimerStep
<1> QED
  BY <1>1, <1>2, TimerInvariant, PTL DEF TimerSpec, TimersCountDown, Countdowns!Spec

(***************************************************************************)
(* The SysTick driver                                                      *)
(***************************************************************************)

\* The state of the hardware, the driver and the idle thread
DriverInv ==
  /\ hw \in [stcvr : Nat, strvr : Nat, pending : BOOLEAN]
  /\ mode \in [one_shot : BOOLEAN, tickless : BOOLEAN, count : Nat, ticks : Nat]
  /\ cpu \in {"run", "lock", "wfi"} /\ idle \in Int

\* Ticking periodically the counter holds no more than a tick.  So it does after an idle
\* period that was cut short, and in the locked section of idle(), until the interrupt is
\* due; from then on it may hold what an earlier idle period left in the reload register.
ModeInv ==
  /\ ~mode.one_shot => hw.strvr = LoadValue /\ hw.stcvr <= LoadValue /\ ~mode.tickless
  /\ mode.one_shot /\ ~hw.pending => hw.stcvr # 0
  /\ ~mode.tickless /\ ~hw.pending => hw.stcvr <= LoadValue

\* Asleep for several ticks, the counter holds no more than was programmed, and the ticks
\* are no more than the first timeout has left.  From the moment idle() has asked for the
\* next timeout no thread and no callback changes the queue.
IdleInv ==
  /\ mode.tickless <=> cpu = "wfi" /\ Tickless(idle)
  /\ mode.tickless => /\ mode.ticks >= 1 /\ (idle # -1 => mode.ticks + 1 <= idle)
                      /\ hw.stcvr <= mode.count /\ hw.strvr <= mode.count
  /\ cpu # "run" => ~ticking /\ idle = get_next_timeout_expiry

Sound == QInv /\ DriverInv /\ ModeInv /\ IdleInv /\ OverflowOnlyIfDue

\* After too many ticks were announced
Broken == Corrupt /\ ticking /\ cpu = "run" /\ ~mode.tickless

SysTickInv == Sound \/ Broken

\* The reload register takes the lower bits of a count.
LEMMA ReloadBits ==
  ASSUME NEW h \in [stcvr : Nat, strvr : Nat, pending : BOOLEAN], NEW n \in Nat
  PROVE  \E c \in Nat : c <= n /\ Reload(h, n) = [stcvr |-> c, strvr |-> c, pending |-> h.pending]
<1>1. \A k \in Nat \ {0} : n % k \in Nat /\ n % k <= n
  <2> SUFFICES ASSUME NEW k \in Nat \ {0} PROVE n % k \in Nat /\ n % k <= n
    OBVIOUS
  <2>1. n % k \in Nat /\ n % k < k
    OBVIOUS
  <2>2. n < k => n % k = n
    OBVIOUS
  <2> QED
    BY <2>1, <2>2
<1>2. MaxCount + 1 \in Nat \ {0}
  BY SysTickAssumption
<1>3. PICK c \in Nat : c = n % (MaxCount + 1) /\ c <= n
  BY <1>1, <1>2
<1>4. Reload(h, n) = [h EXCEPT !.strvr = c, !.stcvr = c]
  BY <1>3 DEF Reload
<1> QED
  BY <1>3, <1>4

\* A value that fits the reload register is loaded as it is.
LEMMA ReloadFits ==
  ASSUME NEW h \in [stcvr : Nat, strvr : Nat, pending : BOOLEAN], NEW n \in Nat, n <= MaxCount
  PROVE  Reload(h, n) = [stcvr |-> n, strvr |-> n, pending |-> h.pending]
<1>1. n % (MaxCount + 1) = n
  BY SysTickAssumption
<1>2. Reload(h, n) = [h EXCEPT !.strvr = n, !.stcvr = n]
  BY <1>1 DEF Reload
<1> QED
  BY <1>2

\* The ticks an idle period is programmed for, and their count
LEMMA IdleEnterFits ==
  ASSUME NEW idl \in Int, Tickless(idl), idl >= -1, DriverInv,
         NEW m, m = timer_idle_enter(idl)
  PROVE  /\ m \in [one_shot : BOOLEAN, tickless : BOOLEAN, count : Nat, ticks : Nat]
         /\ m.one_shot /\ m.tickless
         /\ m.ticks >= 1 /\ (idl # -1 => m.ticks + 1 <= idl) /\ m.count >= 1
         /\ hw.stcvr <= LoadValue => m.count <= MaxCount /\ m.count <= (m.ticks + 1) * LoadValue
<1>a. LoadValue \in Nat \ {0} /\ MaxCount \in Nat /\ MaxCount >= 2 * LoadValue /\ Threshold >= 2
      /\ Threshold \in Nat /\ hw.stcvr \in Nat
  BY SysTickAssumption DEF DriverInv
<1> DEFINE M == max_system_ticks
           n == IF idl = -1 \/ idl > M THEN M - 1 ELSE idl - 1
<1>1. M \in Nat /\ M >= 2 /\ M * LoadValue <= MaxCount
  BY <1>a DEF max_system_ticks
<1>2. n \in Nat /\ n >= 1 /\ n + 1 <= M /\ (idl # -1 => n + 1 <= idl)
  <2> HIDE DEF M
  <2>1. idl = -1 \/ idl >= 2
    BY <1>a DEF Tickless
  <2> QED
    BY <1>1, <2>1
<1>3. m = [one_shot |-> TRUE, tickless |-> TRUE, count |-> hw.stcvr + n * LoadValue, ticks |-> n]
  BY DEF timer_idle_enter
<1> HIDE DEF n, M
<1>4. (n + 1) * LoadValue <= M * LoadValue /\ (n + 1) * LoadValue = n * LoadValue + LoadValue
      /\ n * LoadValue \in Nat /\ n * LoadValue >= 1
  BY <1>1, <1>2, <1>a
<1>5. /\ hw.stcvr + n * LoadValue \in Nat /\ hw.stcvr + n * LoadValue >= 1
      /\ hw.stcvr <= LoadValue => /\ hw.stcvr + n * LoadValue <= MaxCount
                                  /\ hw.stcvr + n * LoadValue <= (n + 1) * LoadValue
  <2> DEFINE x == n * LoadValue
             y == (n + 1) * LoadValue
             z == M * LoadValue
  <2>1. x \in Nat /\ y \in Nat /\ z \in Nat
    BY <1>1, <1>2, <1>a
  <2>2. x >= 1 /\ y = x + LoadValue /\ y <= z /\ z <= MaxCount
    BY <1>1, <1>4
  <2> HIDE DEF x, y, z
  <2>3. /\ hw.stcvr + x \in Nat /\ hw.stcvr + x >= 1
        /\ hw.stcvr <= LoadValue => hw.stcvr + x <= MaxCount /\ hw.stcvr + x <= y
    BY <2>1, <2>2, <1>a
  <2> QED
    BY <2>3 DEF x, y
<1> QED
  BY <1>2, <1>3, <1>5

\* _timer_idle_exit() announces no more ticks than the idle period had, if that was not overrun,
\* and leaves the counter within a tick.
LEMMA IdleExitFits ==
  ASSUME DriverInv, ModeInv, IdleInv, mode.tickless, NEW x, x = timer_idle_exit
  PROVE  /\ x.hw \in [stcvr : Nat, strvr : Nat, pending : BOOLEAN]
         /\ x.mode \in [one_shot : BOOLEAN, tickless : BOOLEAN, count : Nat, ticks : Nat]
         /\ ~x.mode.tickless
         /\ ~x.mode.one_shot => x.hw.strvr = LoadValue /\ x.hw.stcvr <= LoadValue
         /\ x.mode.one_shot /\ ~x.hw.pending => x.hw.stcvr # 0
         /\ ~x.hw.pending => x.hw.stcvr <= LoadValue
         /\ x.ticks = -1 \/ (x.ticks \in Nat /\ (~Overrun /\ idle # -1 => x.ticks <= idle))
<1> DEFINE count == hw.stcvr
           elapsed == mode.count - count
           rest == elapsed % LoadValue
           ticks == elapsed \div LoadValue
<1>a. LoadValue \in Nat \ {0} /\ MaxCount \in Nat /\ LoadValue <= MaxCount
  BY SysTickAssumption
<1>h. hw \in [stcvr : Nat, strvr : Nat, pending : BOOLEAN]
      /\ mode \in [one_shot : BOOLEAN, tickless : BOOLEAN, count : Nat, ticks : Nat] /\ idle \in Int
  BY DEF DriverInv
<1>m. mode.one_shot /\ mode.ticks >= 1 /\ (idle # -1 => mode.ticks + 1 <= idle)
      /\ hw.stcvr <= mode.count /\ (~Overrun => mode.count <= (mode.ticks + 1) * LoadValue)
      /\ hw.stcvr \in Nat /\ mode.count \in Nat /\ mode.ticks \in Nat
  <2>1. (mode.ticks + 1) * LoadValue \in Nat /\ mode.count \in Nat
    BY <1>h, <1>a
  <2>2. ~Overrun => mode.count <= (mode.ticks + 1) * LoadValue
    BY <2>1 DEF Overrun
  <2> QED
    BY <1>h, <2>2 DEF IdleInv, ModeInv
<1>p. Periodic \in [one_shot : BOOLEAN, tickless : BOOLEAN, count : Nat, ticks : Nat]
      /\ ~Periodic.tickless /\ ~Periodic.one_shot /\ Periodic.count = 0
  BY DEF Periodic
<1>c. PICK c : /\ c = [mode EXCEPT !.tickless = FALSE]
               /\ c \in [one_shot : BOOLEAN, tickless : BOOLEAN, count : Nat, ticks : Nat]
               /\ c.one_shot /\ ~c.tickless /\ c.count = mode.count
  <2>1. [mode EXCEPT !.tickless = FALSE] \in
          [one_shot : BOOLEAN, tickless : BOOLEAN, count : Nat, ticks : Nat]
    BY <1>h
  <2>2. [mode EXCEPT !.tickless = FALSE].one_shot /\ ~[mode EXCEPT !.tickless = FALSE].tickless
        /\ [mode EXCEPT !.tickless = FALSE].count = mode.count
    BY <1>h, <1>m
  <2> QED
    BY <2>1, <2>2
<1>l. Reload(hw, LoadValue) = [stcvr |-> LoadValue, strvr |-> LoadValue, pending |-> hw.pending]
  BY <1>a, <1>h, ReloadFits
<1>1. CASE count = 0
  <2>1. x = [hw |-> Reload(hw, LoadValue), mode |-> Periodic, ticks |-> mode.ticks - 1]
    BY <1>1, <1>m DEF timer_idle_exit
  <2>2. mode.ticks - 1 \in Nat /\ (idle # -1 => mode.ticks - 1 <= idle)
    BY <1>m, <1>h
  <2> QED
    BY <2>1, <2>2, <1>p, <1>l, <1>a, <1>h
<1>2. CASE count # 0
  <2>1. elapsed \in Nat /\ (~Overrun => elapsed < (mode.ticks + 1) * LoadValue)
    <3>1. (mode.ticks + 1) * LoadValue \in Nat
      BY <1>m, <1>a
    <3> QED
      BY <3>1, <1>2, <1>m
  <2> DEFINE t == IF ticks = 0 THEN -1 ELSE ticks
  <2>2. rest \in Nat /\ rest < LoadValue /\ ticks \in Nat /\ (~Overrun => ticks <= mode.ticks)
    <3>1. \A e \in Nat, L \in Nat \ {0}, k \in Nat :
            /\ e % L \in Nat /\ e % L < L /\ e \div L \in Nat
            /\ e < (k + 1) * L => e \div L <= k
      OBVIOUS
    <3> HIDE DEF elapsed
    <3> QED
      BY <2>1, <3>1, <1>a, <1>m
  <2>3. t = -1 \/ (t \in Nat /\ (~Overrun /\ idle # -1 => t <= idle))
    <3> HIDE DEF ticks
    <3> QED
      BY <2>2, <1>m, <1>h
  <2>4. x = [hw |-> IF rest = 0 THEN Reload(hw, LoadValue)
                    ELSE IF count > rest THEN Reload(hw, rest) ELSE hw,
             mode |-> IF rest = 0 THEN Periodic ELSE [mode EXCEPT !.tickless = FALSE],
             ticks |-> t]
    BY <1>2, <1>m DEF timer_idle_exit
  <2> HIDE DEF t, rest
  <2>5. CASE rest = 0
    <3>1. x = [hw |-> Reload(hw, LoadValue), mode |-> Periodic, ticks |-> t]
      BY <2>4, <2>5
    <3> QED
      BY <3>1, <2>3, <1>p, <1>l, <1>a, <1>h
  <2>6. CASE rest # 0 /\ count > rest
    <3>1. x = [hw |-> Reload(hw, rest), mode |-> [mode EXCEPT !.tickless = FALSE], ticks |-> t]
      BY <2>4, <2>6
    <3>2. Reload(hw, rest) = [stcvr |-> rest, strvr |-> rest, pending |-> hw.pending]
      BY <2>2, <1>a, <1>h, ReloadFits
    <3>3. x.hw.stcvr = rest /\ x.hw.strvr = rest /\ x.hw.pending = hw.pending
          /\ x.hw \in [stcvr : Nat, strvr : Nat, pending : BOOLEAN]
      BY <3>1, <3>2, <2>2, <1>h
    <3>4. /\ x.mode \in [one_shot : BOOLEAN, tickless : BOOLEAN, count : Nat, ticks : Nat]
          /\ x.mode.one_shot /\ ~x.mode.tickless /\ x.mode.count = mode.count /\ x.ticks = t
      <4>1. x.mode = c /\ x.ticks = t
        BY <3>1, <1>c
      <4> QED
        BY <4>1, <1>c
    <3> QED
      BY <3>3, <3>4, <2>2, <2>3, <2>6, <1>m, <1>a
  <2>7. CASE rest # 0 /\ ~(count > rest)
    <3>1. x = [hw |-> hw, mode |-> [mode EXCEPT !.tickless = FALSE], ticks |-> t]
      BY <2>4, <2>7
    <3>2. x.hw = hw /\ hw.stcvr # 0 /\ hw.stcvr <= LoadValue
      BY <3>1, <2>2, <2>7, <1>2, <1>m, <1>a
    <3>4. /\ x.mode \in [one_shot : BOOLEAN, tickless : BOOLEAN, count : Nat, ticks : Nat]
          /\ x.mode.one_shot /\ ~x.mode.tickless /\ x.mode.count = mode.count /\ x.ticks = t
      <4>1. x.mode = c /\ x.ticks = t
        BY <3>1, <1>c
      <4> QED
        BY <4>1, <1>c
    <3> QED
      BY <3>2, <3>4, <2>3, <1>m, <1>h
  <2> QED
    BY <2>5, <2>6, <2>7
<1> QED
  BY <1>1, <1>2

\* Announced ticks, no more than the first timeout has left, are a step of the countdowns.
LEMMA AnnounceStep ==
  ASSUME QInv, NEW n, Announce(n),
         n = -1 \/ (n \in Nat /\ (get_next_timeout_expiry # -1 => n <= get_next_timeout_expiry))
  PROVE  QInv' /\ [Countdowns!Next]_(Countdowns!vars)
<1>1. CASE n = -1
  <2>1. UNCHANGED <<tq, delta, ticking>>
    BY <1>1 DEF Announce, qvars
  <2>2. Left' = Left /\ Queue' = Queue
    BY <2>1 DEF Left, remaining, Armed, Queue
  <2> QED
    BY <2>1, <2>2 DEF QInv, Countdowns!vars
<1>2. CASE n # -1
  <2>1. handle_expired_timeouts(n) /\ n \in Nat
    BY <1>2 DEF Announce
  <2>2. tq # << >> => delta[Head(tq)] >= 0 /\ get_next_timeout_expiry = delta[Head(tq)]
    BY QFacts DEF get_next_timeout_expiry
  <2>3. tq # << >> => n <= delta[Head(tq)]
    BY <1>2, <2>2
  <2> QED
    BY <2>1, <2>3, ElapseStep
<1> QED
  BY <1>1, <1>2

\* More than that take the first delta below zero.
LEMMA AnnounceTooMany ==
  ASSUME QInv, NEW n \in Nat, Announce(n),
         get_next_timeout_expiry # -1, n > get_next_timeout_expiry
  PROVE  Corrupt' /\ ticking'
<1>1. tq # << >> /\ get_next_timeout_expiry = delta[Head(tq)]
  BY DEF get_next_timeout_expiry
<1>2. tq' = tq /\ delta' = [delta EXCEPT ![Head(tq)] = @ - n] /\ ticking'
  BY <1>1 DEF Announce, handle_expired_timeouts
<1>3. Head(tq) \in Timeout /\ delta \in [Timeout -> Int]
  BY <1>1, QFacts DEF QInv, WellFormed, Queue
<1>4. delta'[Head(tq)] = delta[Head(tq)] - n /\ delta[Head(tq)] \in Int
  BY <1>2, <1>3
<1>5. delta'[Head(tq)] < 0
  BY <1>1, <1>4
<1> QED
  BY <1>1, <1>2, <1>5 DEF Corrupt

\* How long there is nothing to do: at least until the next tick, between ticks
LEMMA NextExpiry ==
  ASSUME QInv
  PROVE  /\ get_next_timeout_expiry \in Int /\ get_next_timeout_expiry >= -1
         /\ ~ticking => get_next_timeout_expiry # 0
<1>1. CASE tq = << >>
  BY <1>1 DEF get_next_timeout_expiry
<1>2. CASE tq # << >>
  <2>1. /\ Head(tq) \in Timeout /\ Left[Head(tq)] = delta[Head(tq)] /\ delta[Head(tq)] >= 0
        /\ Left \in [Timeout -> Int]
    BY <1>2, QFacts
  <2>2. ~ticking => Left[Head(tq)] # 0
    BY <2>1 DEF QInv
  <2> QED
    BY <1>2, <2>1, <2>2 DEF get_next_timeout_expiry
<1> QED
  BY <1>1, <1>2

\* A step of the driver, the idle thread, the tick or a user of the queue keeps all sound
\* and is a step of the countdowns, unless an overrun idle period ends.
LEMMA SoundStep ==
  ASSUME Sound, [SysTickNext]_svars
  PROVE  \/ Sound' /\ [Countdowns!Next]_(Countdowns!vars)
         \/ Broken' /\ Overrun /\ isr_wrapper
<1>i. QInv /\ DriverInv /\ ModeInv /\ IdleInv /\ OverflowOnlyIfDue
  BY DEF Sound
<1>a. LoadValue \in Nat \ {0} /\ MaxCount \in Nat /\ LoadValue <= MaxCount
  BY SysTickAssumption
<1>h. /\ hw \in [stcvr : Nat, strvr : Nat, pending : BOOLEAN]
      /\ mode \in [one_shot : BOOLEAN, tickless : BOOLEAN, count : Nat, ticks : Nat]
      /\ cpu \in {"run", "lock", "wfi"} /\ idle \in Int
      /\ hw.stcvr \in Nat /\ hw.strvr \in Nat /\ hw.pending \in BOOLEAN
      /\ mode.one_shot \in BOOLEAN /\ mode.tickless \in BOOLEAN /\ mode.count \in Nat
      /\ mode.ticks \in Nat
  BY <1>i DEF DriverInv
<1>p. /\ Periodic \in [one_shot : BOOLEAN, tickless : BOOLEAN, count : Nat, ticks : Nat]
      /\ ~Periodic.tickless /\ ~Periodic.one_shot /\ Periodic.count = 0
  BY DEF Periodic
\* the queue does not change
<1>u. ASSUME UNCHANGED <<tq, delta, ticking>>
      PROVE  QInv' /\ UNCHANGED Countdowns!vars /\ UNCHANGED get_next_timeout_expiry
  <2>1. Left' = Left /\ Queue' = Queue
    BY <1>u DEF Left, remaining, Armed, Queue
  <2>2. QInv'
    BY <1>i, <1>u, <2>1 DEF QInv
  <2>3. UNCHANGED Countdowns!vars
    BY <1>u, <2>1 DEF Countdowns!vars
  <2> QED
    BY <1>u, <2>2, <2>3 DEF get_next_timeout_expiry
\* only the queue changes, while threads run or a tick is handled
<1>v. ASSUME UNCHANGED <<hw, mode, cpu, idle>>, cpu = "run" \/ ticking
      PROVE  DriverInv' /\ ModeInv' /\ IdleInv' /\ OverflowOnlyIfDue'
  <2>1. cpu = "run"
    BY <1>v, <1>i DEF IdleInv
  <2> QED
    BY <1>v, <1>i, <2>1 DEF DriverInv, ModeInv, IdleInv, OverflowOnlyIfDue, CountFits, Tickless
<1>1. ASSUME clock
      PROVE  Sound' /\ UNCHANGED Countdowns!vars
  <2>1. /\ hw' = [hw EXCEPT !.stcvr = IF @ = 0 THEN hw.strvr ELSE @ - 1,
                            !.pending = @ \/ hw.stcvr = 1]
        /\ UNCHANGED <<tq, delta, ticking>> /\ mode' = mode /\ cpu' = cpu /\ idle' = idle
    BY <1>1 DEF clock
  <2>2. /\ hw' \in [stcvr : Nat, strvr : Nat, pending : BOOLEAN]
        /\ hw'.stcvr = (IF hw.stcvr = 0 THEN hw.strvr ELSE hw.stcvr - 1)
        /\ hw'.strvr = hw.strvr /\ (hw'.pending <=> hw.pending \/ hw.stcvr = 1)
    <3>1. PICK c, b : /\ c = (IF hw.stcvr = 0 THEN hw.strvr ELSE hw.stcvr - 1)
                      /\ b = (hw.pending \/ hw.stcvr = 1)
      OBVIOUS
    <3>2. c \in Nat /\ b \in BOOLEAN
      BY <3>1, <1>h
    <3>3. hw' = [hw EXCEPT !.stcvr = c, !.pending = b]
      BY <3>1, <2>1
    <3>4. hw' = [stcvr |-> c, strvr |-> hw.strvr, pending |-> b]
      BY <3>2, <3>3, <1>h
    <3> QED
      BY <3>1, <3>2, <3>4, <1>h
  <2>3. DriverInv' /\ OverflowOnlyIfDue'
    BY <2>1, <2>2, <1>i DEF DriverInv, OverflowOnlyIfDue, CountFits
  <2>4. ModeInv'
    BY <2>1, <2>2, <1>i, <1>h, <1>a DEF ModeInv, IdleInv
  <2>5. IdleInv'
    <3>2. mode.tickless => hw'.stcvr <= mode.count
      BY <2>2, <1>i, <1>h DEF IdleInv
    <3> QED
      BY <3>2, <2>1, <1>i, <1>u DEF IdleInv, Tickless
  <2> QED
    BY <2>1, <2>3, <2>4, <2>5, <1>u DEF Sound
<1>2. ASSUME idle_lock
      PROVE  Sound' /\ UNCHANGED Countdowns!vars
  <2>1. /\ cpu = "run" /\ ~ticking /\ ~hw.pending /\ cpu' = "lock" /\ idle' = get_next_timeout_expiry
        /\ UNCHANGED <<tq, delta, ticking>> /\ hw' = hw /\ mode' = mode
    BY <1>2 DEF idle_lock
  <2>2. get_next_timeout_expiry \in Int
    BY <1>i, NextExpiry
  <2>3. ~mode.tickless
    BY <2>1, <1>i DEF IdleInv
  <2>4. DriverInv' /\ OverflowOnlyIfDue' /\ ModeInv'
    BY <2>1, <2>2, <2>3, <1>i DEF DriverInv, OverflowOnlyIfDue, CountFits, ModeInv
  <2>5. IdleInv'
    BY <2>1, <2>3, <1>u DEF IdleInv
  <2> QED
    BY <2>1, <2>4, <2>5, <1>u DEF Sound
<1>3. ASSUME sys_power_save_idle
      PROVE  Sound' /\ UNCHANGED Countdowns!vars
  <2>1. /\ cpu = "lock" /\ cpu' = "wfi" /\ idle' = idle /\ UNCHANGED <<tq, delta, ticking>>
    BY <1>3 DEF sys_power_save_idle
  <2>2. idle >= -1 /\ ~ticking /\ idle = get_next_timeout_expiry /\ ~mode.tickless
        /\ (~hw.pending => hw.stcvr <= LoadValue)
    BY <2>1, <1>i, NextExpiry DEF IdleInv, ModeInv
  <2>3. CASE Tickless(idle)
    <3>1. mode' = timer_idle_enter(idle) /\ hw' = Reload(hw, mode'.count)
      BY <1>3, <2>3 DEF sys_power_save_idle
    <3>2. PICK m : m = timer_idle_enter(idle)
      OBVIOUS
    <3>3. /\ m \in [one_shot : BOOLEAN, tickless : BOOLEAN, count : Nat, ticks : Nat]
          /\ m.one_shot /\ m.tickless
          /\ m.ticks >= 1 /\ (idle # -1 => m.ticks + 1 <= idle) /\ m.count >= 1
          /\ hw.stcvr <= LoadValue => m.count <= MaxCount
          /\ m.count \in Nat
      BY <3>2, <2>2, <2>3, <1>i, <1>h, IdleEnterFits
    <3>4. PICK c \in Nat : /\ hw' = [stcvr |-> c, strvr |-> c, pending |-> hw.pending]
                           /\ c <= m.count /\ (m.count <= MaxCount => c = m.count)
      <4>1. mode' = m /\ hw' = Reload(hw, m.count)
        BY <3>1, <3>2
      <4>2. CASE m.count <= MaxCount
        BY <4>1, <4>2, <3>3, <1>h, ReloadFits
      <4>3. CASE ~(m.count <= MaxCount)
        BY <4>1, <4>3, <3>3, <1>h, ReloadBits
      <4> QED
        BY <4>2, <4>3
    <3>5. /\ hw' \in [stcvr : Nat, strvr : Nat, pending : BOOLEAN] /\ mode' = m
          /\ hw'.stcvr = c /\ hw'.strvr = c /\ hw'.pending = hw.pending
      BY <3>1, <3>2, <3>4, <1>h
    <3>6. DriverInv' /\ OverflowOnlyIfDue'
      BY <3>3, <3>5, <2>1, <2>2, <1>h DEF DriverInv, OverflowOnlyIfDue, CountFits
    <3>7. ModeInv'
      BY <3>3, <3>4, <3>5, <2>1, <2>2 DEF ModeInv
    <3>8. IdleInv'
      BY <3>3, <3>4, <3>5, <2>1, <2>2, <2>3, <1>u DEF IdleInv, Tickless
    <3> QED
      BY <2>1, <3>6, <3>7, <3>8, <1>u DEF Sound
  <2>4. CASE ~Tickless(idle)
    <3>1. hw' = hw /\ mode' = mode
      BY <1>3, <2>4 DEF sys_power_save_idle
    <3>2. DriverInv' /\ OverflowOnlyIfDue' /\ ModeInv'
      BY <3>1, <2>1, <1>i DEF DriverInv, OverflowOnlyIfDue, CountFits, ModeInv
    <3>3. IdleInv'
      BY <3>1, <2>1, <2>2, <2>4, <1>u DEF IdleInv, Tickless
    <3> QED
      BY <2>1, <3>2, <3>3, <1>u DEF Sound
  <2> QED
    BY <2>3, <2>4
<1>4. ASSUME isr_wrapper
      PROVE  \/ Sound' /\ [Countdowns!Next]_(Countdowns!vars)
             \/ Broken' /\ Overrun
  <2>1. cpu = "wfi" /\ cpu' = "run" /\ idle' = 0
    BY <1>4 DEF isr_wrapper
  <2>2. CASE Tickless(idle)
    <3>1. PICK x : x = timer_idle_exit
      OBVIOUS
    <3>2. hw' = x.hw /\ mode' = x.mode /\ Announce(x.ticks)
      BY <1>4, <2>2, <3>1 DEF isr_wrapper
    <3>3. mode.tickless /\ idle = get_next_timeout_expiry
      BY <2>1, <2>2, <1>i DEF IdleInv
    <3>4. /\ x.hw \in [stcvr : Nat, strvr : Nat, pending : BOOLEAN]
          /\ x.mode \in [one_shot : BOOLEAN, tickless : BOOLEAN, count : Nat, ticks : Nat]
          /\ ~x.mode.tickless
          /\ ~x.mode.one_shot => x.hw.strvr = LoadValue /\ x.hw.stcvr <= LoadValue
          /\ x.mode.one_shot /\ ~x.hw.pending => x.hw.stcvr # 0
          /\ ~x.hw.pending => x.hw.stcvr <= LoadValue
          /\ x.ticks = -1 \/ (x.ticks \in Nat /\ (~Overrun /\ idle # -1 => x.ticks <= idle))
      BY <3>1, <3>3, <1>i, IdleExitFits
    <3>9. PICK n : n = x.ticks
      OBVIOUS
    <3>5. CASE n = -1 \/ (n \in Nat /\ (get_next_timeout_expiry # -1 => n <= get_next_timeout_expiry))
      <4>1. QInv' /\ [Countdowns!Next]_(Countdowns!vars)
        BY <3>2, <3>5, <3>9, <1>i, AnnounceStep
      <4>2. DriverInv' /\ OverflowOnlyIfDue'
        BY <3>2, <3>4, <2>1 DEF DriverInv, OverflowOnlyIfDue
      <4>3. ModeInv' /\ IdleInv'
        BY <3>2, <3>4, <2>1 DEF ModeInv, IdleInv
      <4> QED
        BY <4>1, <4>2, <4>3 DEF Sound
    <3>6. CASE ~(n = -1 \/ (n \in Nat /\ (get_next_timeout_expiry # -1 => n <= get_next_timeout_expiry)))
      <4>1. n \in Nat /\ get_next_timeout_expiry # -1 /\ ~(n <= get_next_timeout_expiry) /\ Overrun
        BY <3>3, <3>4, <3>6, <3>9
      <4>2. n > get_next_timeout_expiry
        BY <4>1, <1>i, NextExpiry
      <4>3. Corrupt' /\ ticking'
        BY <4>1, <4>2, <3>2, <3>9, <1>i, AnnounceTooMany
      <4> QED
        BY <4>1, <4>3, <3>2, <3>4, <2>1 DEF Broken
    <3> QED
      BY <3>5, <3>6
  <2>3. CASE ~Tickless(idle)
    <3>1. hw' = hw /\ mode' = mode /\ UNCHANGED <<tq, delta, ticking>>
      BY <1>4, <2>3 DEF isr_wrapper
    <3>2. ~mode.tickless
      BY <2>3, <1>i DEF IdleInv
    <3>3. DriverInv' /\ OverflowOnlyIfDue'
      BY <3>1, <2>1, <1>i DEF DriverInv, OverflowOnlyIfDue, CountFits
    <3>4. ModeInv' /\ IdleInv'
      BY <3>1, <3>2, <2>1, <1>i DEF ModeInv, IdleInv
    <3> QED
      BY <3>1, <3>3, <3>4, <1>u DEF Sound
  <2> QED
    BY <2>2, <2>3
<1>5. ASSUME timer_int_handler
      PROVE  Sound' /\ [Countdowns!Next]_(Countdowns!vars)
  <2>1. /\ hw.pending /\ cpu # "lock" /\ ~ticking /\ mode' = Periodic /\ cpu' = "run" /\ idle' = 0
        /\ hw' = [IF mode.one_shot THEN Reload(hw, LoadValue) ELSE hw EXCEPT !.pending = FALSE]
        /\ Announce(elapsed_at_interrupt)
    BY <1>5 DEF timer_int_handler
  <2>2. /\ hw' \in [stcvr : Nat, strvr : Nat, pending : BOOLEAN]
        /\ hw'.strvr = LoadValue /\ hw'.stcvr <= LoadValue
    <3>1. CASE mode.one_shot
      <4>1. Reload(hw, LoadValue) = [stcvr |-> LoadValue, strvr |-> LoadValue, pending |-> hw.pending]
        BY <1>a, <1>h, ReloadFits
      <4>2. hw' = [stcvr |-> LoadValue, strvr |-> LoadValue, pending |-> FALSE]
        <5>1. PICK r : r = Reload(hw, LoadValue)
          OBVIOUS
        <5>2. r \in [stcvr : Nat, strvr : Nat, pending : BOOLEAN]
              /\ r.stcvr = LoadValue /\ r.strvr = LoadValue
          BY <4>1, <5>1, <1>a, <1>h
        <5>3. hw' = [r EXCEPT !.pending = FALSE]
          BY <5>1, <3>1, <2>1
        <5> QED
          BY <5>2, <5>3
      <4> QED
        BY <4>2, <1>a
    <3>2. CASE ~mode.one_shot
      <4>1. hw' = [hw EXCEPT !.pending = FALSE] /\ hw.strvr = LoadValue /\ hw.stcvr <= LoadValue
        BY <3>2, <2>1, <1>i DEF ModeInv
      <4> QED
        BY <4>1, <1>h
    <3> QED
      BY <3>1, <3>2
  <2>3. QInv' /\ [Countdowns!Next]_(Countdowns!vars)
    <3>1. PICK n : n = elapsed_at_interrupt
      OBVIOUS
    <3>2. n \in Nat /\ (get_next_timeout_expiry # -1 => n <= get_next_timeout_expiry)
      <4>1. CASE mode.tickless
        <5>1. n = mode.ticks + 1
          BY <4>1, <3>1 DEF elapsed_at_interrupt
        <5> QED
          BY <5>1, <4>1, <1>i, <1>h DEF IdleInv
      <4>2. CASE ~mode.tickless
        <5>1. n = 1
          BY <4>2, <3>1 DEF elapsed_at_interrupt
        <5> QED
          BY <5>1, <2>1, <1>i, NextExpiry
      <4> QED
        BY <4>1, <4>2
    <3>3. Announce(n)
      BY <3>1, <2>1
    <3> QED
      BY <3>2, <3>3, <1>i, AnnounceStep
  <2>4. DriverInv' /\ OverflowOnlyIfDue'
    BY <2>1, <2>2, <1>p, <1>a DEF DriverInv, OverflowOnlyIfDue, CountFits
  <2>5. ModeInv' /\ IdleInv'
    BY <2>1, <2>2, <1>p DEF ModeInv, IdleInv
  <2> QED
    BY <2>3, <2>4, <2>5 DEF Sound
<1>6. ASSUME handle_timeouts
      PROVE  Sound' /\ Countdowns!Next
  <2>1. UNCHANGED <<hw, mode, cpu, idle>>
    BY <1>6 DEF handle_timeouts
  <2>2. CASE handle_timeouts_end
    <3>1. ticking
      BY <2>2 DEF handle_timeouts_end
    <3> QED
      BY <2>1, <2>2, <3>1, <1>i, <1>v, EndStep DEF Sound
  <2>3. ASSUME NEW n \in 0..MaxTicks, handle_one_timeout(n)
        PROVE  Sound' /\ Countdowns!Next
    <3>1. ticking /\ HeadIsDue /\ UNCHANGED ticking /\ SetQueue(Handled(n))
      BY <2>3 DEF handle_one_timeout, Handled
    <3>2. QInv' /\ Countdowns!Next
      BY <3>1, <1>i, ExpireStep
    <3> QED
      BY <2>1, <3>1, <3>2, <1>v DEF Sound
  <2> QED
    BY <1>6, <2>2, <2>3 DEF handle_timeouts
<1>7. ASSUME users
      PROVE  Sound' /\ Countdowns!Next
  <2>1. UNCHANGED <<hw, mode, cpu, idle>> /\ cpu = "run"
    BY <1>7 DEF users
  <2>2. PICK t \in Timeout : Abort(t) \/ \E n \in 1..MaxTicks : Arm(t, n) \/ Rearm(t, n)
    BY <1>7 DEF users
  <2>3. CASE Abort(t)
    <3>1. Armed(t) /\ SetQueue(abort_timeout(Queue, t)) /\ UNCHANGED ticking
      BY <2>3 DEF Abort
    <3>2. QInv' /\ Countdowns!Next
      BY <3>1, <1>i, AbortStep
    <3> QED
      BY <2>1, <3>2, <1>v DEF Sound
  <2>4. ASSUME NEW n \in 1..MaxTicks, Arm(t, n) \/ Rearm(t, n)
        PROVE  Sound' /\ Countdowns!Next
    <3>1. SetQueue(Started(Queue, t, n)) /\ UNCHANGED ticking
      BY <2>4 DEF Arm, Rearm, Started, Armed, Queue
    <3>2. QInv' /\ Countdowns!Next
      BY <3>1, <1>i, StartStep
    <3> QED
      BY <2>1, <3>2, <1>v DEF Sound
  <2> QED
    BY <2>2, <2>3, <2>4
<1>8. ASSUME UNCHANGED svars
      PROVE  Sound' /\ UNCHANGED Countdowns!vars
  <2>1. UNCHANGED <<tq, delta, ticking>> /\ UNCHANGED <<hw, mode, cpu, idle>>
    BY <1>8 DEF svars
  <2>2. DriverInv' /\ ModeInv' /\ IdleInv' /\ OverflowOnlyIfDue'
    BY <2>1, <1>i, <1>u DEF DriverInv, ModeInv, IdleInv, OverflowOnlyIfDue, CountFits, Tickless
  <2> QED
    BY <2>1, <2>2, <1>u DEF Sound
<1> QED
  BY <1>1, <1>2, <1>3, <1>4, <1>5, <1>6, <1>7, <1>8 DEF SysTickNext

\* A step that leaves the queue alone is a stutter of the countdowns.
LEMMA QueueStutter ==
  ASSUME UNCHANGED qvars
  PROVE  UNCHANGED Countdowns!vars
<1>1. tq' = tq /\ delta' = delta /\ ticking' = ticking
  BY DEF qvars
<1>2. Left' = Left
  BY <1>1 DEF Left, remaining, Armed
<1> QED
  BY <1>1, <1>2 DEF Countdowns!vars

\* Once broken, only the counter goes on.
LEMMA BrokenStep ==
  ASSUME Broken, [SysTickNext]_svars
  PROVE  Broken' /\ UNCHANGED qvars
<1>b. Corrupt /\ ticking /\ cpu = "run" /\ ~mode.tickless
  BY DEF Broken
<1>1. clock \/ UNCHANGED svars
  BY <1>b DEF SysTickNext, idle_lock, sys_power_save_idle, isr_wrapper, timer_int_handler,
              handle_timeouts, users
<1>2. tq' = tq /\ delta' = delta /\ ticking' = ticking /\ cpu' = cpu /\ mode' = mode
  BY <1>1 DEF clock, svars
<1> QED
  BY <1>b, <1>2 DEF Broken, Corrupt, qvars

\* A step keeps the invariant, and breaks neither the queue nor the countdowns unless an
\* overrun idle period ends.
LEMMA SysTickStep ==
  ASSUME SysTickInv, [SysTickNext]_svars
  PROVE  /\ SysTickInv'
         /\ QueueMatchesDeltas' \/ (Overrun /\ isr_wrapper) \/ UNCHANGED qvars
         /\ Countdowns!Next \/ (Overrun /\ isr_wrapper) \/ UNCHANGED Countdowns!vars
<1>1. CASE Sound
  <2>1. CASE Sound' /\ [Countdowns!Next]_(Countdowns!vars)
    <3>1. QInv'
      BY <2>1 DEF Sound
    <3>3. QueueMatchesDeltas'
      BY <3>1, QInvMatches, PTL
    <3> QED
      BY <2>1, <3>3 DEF SysTickInv
  <2>2. CASE Broken' /\ Overrun /\ isr_wrapper
    BY <2>2 DEF SysTickInv
  <2> QED
    BY <1>1, <2>1, <2>2, SoundStep
<1>2. CASE Broken
  BY <1>2, BrokenStep, QueueStutter DEF SysTickInv
<1> QED
  BY <1>1, <1>2 DEF SysTickInv

\* The inductive invariant of the driver holds, with the counter restarting whenever it does:
\* all is sound, or the end of an overrun idle period has announced too many ticks.
THEOREM SysTickInvariant == SysTickSpec => []SysTickInv
<1>1. SysTickInit => SysTickInv
  <2> SUFFICES ASSUME SysTickInit PROVE SysTickInv
    OBVIOUS
  <2>1. /\ Init /\ hw = [stcvr |-> LoadValue, strvr |-> LoadValue, pending |-> FALSE]
        /\ mode = Periodic /\ cpu = "run" /\ idle = 0
    BY DEF SysTickInit
  <2>2. QInv
    BY <2>1, QInvInit
  <2>3. DriverInv /\ ModeInv /\ IdleInv /\ OverflowOnlyIfDue
    BY <2>1, SysTickAssumption DEF Periodic, DriverInv, ModeInv, IdleInv, OverflowOnlyIfDue
  <2> QED
    BY <2>2, <2>3 DEF SysTickInv, Sound
<1>2. SysTickInv /\ [SysTickNext]_svars => SysTickInv'
  BY SysTickStep
<1> QED
  BY <1>1, <1>2, PTL DEF SysTickSpec

\* Under tickless idle, the timeout queue is broken by one thing alone: another interrupt that
\* ends an idle period programmed on top of more than a tick, before the tick that is due.
THEOREM SysTickQueueMatches == SysTickSpec => QueueUnlessOverrun
<1>1. SysTickInit => QueueMatchesDeltas
  BY QInvInit, QInvMatches DEF SysTickInit
<1>2. SysTickInv /\ [SysTickNext]_svars =>
        [QueueMatchesDeltas' \/ (Overrun /\ isr_wrapper)]_qvars
  BY SysTickStep
<1> QED
  BY <1>1, <1>2, SysTickInvariant, PTL DEF SysTickSpec, QueueUnlessOverrun

\* The count of _timer_idle_enter() overflows the 24 bit reload register only when the tick is
\* due already, for any load value, threshold and timeouts: max_system_ticks leaves room for
\* the rest of the current tick.
THEOREM SysTickOverflow == SysTickSpec => []OverflowOnlyIfDue
<1>1. SysTickInv => OverflowOnlyIfDue
  BY DEF SysTickInv, Sound, Broken, OverflowOnlyIfDue
<1> QED
  BY <1>1, SysTickInvariant, PTL

\* With tickless idle, whatever cuts an idle period short and when, no timeout expires before
\* the tick it was armed for is announced, and none after, unless that idle period was overrun.
THEOREM SysTickRefines == SysTickSpec => DeadlinesUnlessOverrun
<1>1. SysTickInit => Countdowns!Init
  BY QInvInit DEF SysTickInit
<1>2. SysTickInv /\ [SysTickNext]_svars =>
        [Countdowns!Next \/ (Overrun /\ isr_wrapper)]_(Countdowns!vars)
  BY SysTickStep
<1> QED
  BY <1>1, <1>2, SysTickInvariant, PTL DEF SysTickSpec, DeadlinesUnlessOverrun
=============================================================================
