---------------------------- MODULE DListProofs ----------------------------
(***************************************************************************)
(* What the list operations of DList.tla do to membership, duplicates and  *)
(* the head of a list, for lists of any length.                            *)
(***************************************************************************)
EXTENDS DList, SequenceTheorems, FiniteSetTheorems, WellFoundedInduction, TLAPS

\* A function on 1..n with values in T is a sequence over T of length n.
LEMMA FunctionIsSeq ==
  ASSUME NEW T, NEW n \in Nat, NEW f \in [1..n -> T]
  PROVE  f \in Seq(T) /\ Len(f) = n
BY SeqDef, LenProperties

\* sys_dlist_append() links e, keeps every other node linked and keeps the head
\* of a list that has one; it links no node twice if e was on no list.
LEMMA AppendProps ==
  ASSUME NEW T, NEW s \in Seq(T), NEW e \in T, NEW r, r = sys_dlist_append(s, e)
  PROVE  /\ r \in Seq(T) /\ r # << >> /\ Len(r) = Len(s) + 1
         /\ \A x : Linked(r, x) <=> Linked(s, x) \/ x = e
         /\ NoDup(s) /\ ~Linked(s, e) => NoDup(r)
         /\ s # << >> => r[1] = s[1]
         /\ s = << >> => r[1] = e
<1>1. /\ r \in Seq(T) /\ r # << >> /\ Len(r) = Len(s) + 1
      /\ \A i \in 1..Len(s) : r[i] = s[i]
      /\ r[Len(s) + 1] = e
  BY AppendProperties DEF sys_dlist_append
<1>2. Len(s) \in Nat
  BY LenProperties
<1>3. \A x : Linked(r, x) <=> Linked(s, x) \/ x = e
  <2> SUFFICES ASSUME NEW x PROVE Linked(r, x) <=> Linked(s, x) \/ x = e
    OBVIOUS
  <2>1. ASSUME Linked(r, x) PROVE Linked(s, x) \/ x = e
    <3>1. PICK i \in 1..Len(r) : r[i] = x
      BY <2>1 DEF Linked
    <3>2. CASE i = Len(s) + 1
      BY <3>1, <3>2, <1>1
    <3>3. CASE i # Len(s) + 1
      <4>1. i \in 1..Len(s)
        BY <3>1, <3>3, <1>1, <1>2
      <4> QED BY <4>1, <3>1, <1>1 DEF Linked
    <3> QED BY <3>2, <3>3
  <2>2. ASSUME Linked(s, x) PROVE Linked(r, x)
    <3>1. PICK i \in 1..Len(s) : s[i] = x
      BY <2>2 DEF Linked
    <3>2. i \in 1..Len(r) /\ r[i] = x
      BY <3>1, <1>1, <1>2
    <3> QED BY <3>2 DEF Linked
  <2>3. ASSUME x = e PROVE Linked(r, x)
    <3>1. Len(s) + 1 \in 1..Len(r) /\ r[Len(s) + 1] = x
      BY <2>3, <1>1, <1>2
    <3> QED BY <3>1 DEF Linked
  <2> QED BY <2>1, <2>2, <2>3
<1>4. ASSUME NoDup(s), ~Linked(s, e) PROVE NoDup(r)
  <2> SUFFICES ASSUME NEW i \in 1..Len(r), NEW j \in 1..Len(r), r[i] = r[j]
               PROVE  i = j
    BY DEF NoDup
  <2>1. CASE i \in 1..Len(s) /\ j \in 1..Len(s)
    BY <2>1, <1>4, <1>1 DEF NoDup
  <2>2. CASE i \in 1..Len(s) /\ j = Len(s) + 1
    BY <2>2, <1>4, <1>1 DEF Linked
  <2>3. CASE i = Len(s) + 1 /\ j \in 1..Len(s)
    BY <2>3, <1>4, <1>1 DEF Linked
  <2>4. i \in 1..Len(s) \cup {Len(s) + 1} /\ j \in 1..Len(s) \cup {Len(s) + 1}
    BY <1>1, <1>2
  <2> QED BY <2>1, <2>2, <2>3, <2>4
<1>5. s # << >> => r[1] = s[1]
  <2>1. s # << >> => 1 \in 1..Len(s)
    BY <1>2, EmptySeq
  <2> QED BY <2>1, <1>1
<1>6. s = << >> => r[1] = e
  BY <1>1, EmptySeq
<1> QED BY <1>1, <1>3, <1>4, <1>5, <1>6

\* sys_dlist_remove() unlinks e and no other node, links nothing twice, and
\* keeps the head unless e was the head.
LEMMA RemoveProps ==
  ASSUME NEW T, NEW s \in Seq(T), NEW e, NoDup(s), Linked(s, e),
         NEW l, l = sys_dlist_remove(s, e)
  PROVE  /\ l \in Seq(T)
         /\ \A x : Linked(l, x) <=> Linked(s, x) /\ x # e
         /\ NoDup(l)
         /\ s[1] # e => l # << >> /\ l[1] = s[1]
<1> DEFINE k == CHOOSE i \in 1..Len(s) : s[i] = e
           r == [i \in 1..(Len(s) - 1) |-> IF i < k THEN s[i] ELSE s[i + 1]]
<1>1. k \in 1..Len(s) /\ s[k] = e
  BY DEF Linked
<1>2. l = r
  BY Zenon DEF sys_dlist_remove
<1>3. Len(s) \in Nat /\ Len(s) >= 1 /\ \A i \in 1..Len(s) : s[i] \in T
  BY <1>1, LenProperties, ElementOfSeq
<1> HIDE DEF k
<1>4. r \in [1..(Len(s) - 1) -> T]
  <2> SUFFICES ASSUME NEW i \in 1..(Len(s) - 1)
               PROVE  (IF i < k THEN s[i] ELSE s[i + 1]) \in T
    OBVIOUS
  <2>1. i \in 1..Len(s) /\ i + 1 \in 1..Len(s)
    BY <1>3
  <2> QED BY <2>1, <1>3
<1>5. Len(s) - 1 \in Nat
  BY <1>3
<1>6. r \in Seq(T) /\ Len(r) = Len(s) - 1
  BY <1>4, <1>5, FunctionIsSeq
<1>7. \A i \in 1..(Len(s) - 1) : r[i] = IF i < k THEN s[i] ELSE s[i + 1]
  OBVIOUS
<1> HIDE DEF r
<1>8. ASSUME NEW x PROVE Linked(r, x) <=> Linked(s, x) /\ x # e
  <2>1. ASSUME Linked(r, x) PROVE Linked(s, x) /\ x # e
    <3>1. PICK i \in 1..(Len(s) - 1) : r[i] = x
      BY <2>1, <1>6 DEF Linked
    <3>2. i \in 1..Len(s) /\ i + 1 \in 1..Len(s)
      BY <1>3
    <3>3. CASE i < k
      <4>1. s[i] = x /\ i # k
        BY <3>1, <3>3, <1>7, <1>1, <1>3
      <4> QED BY <4>1, <3>2, <1>1 DEF Linked, NoDup
    <3>4. CASE ~(i < k)
      <4>1. s[i + 1] = x /\ i + 1 # k
        BY <3>1, <3>4, <1>7, <1>1, <1>3
      <4> QED BY <4>1, <3>2, <1>1 DEF Linked, NoDup
    <3> QED BY <3>3, <3>4
  <2>2. ASSUME Linked(s, x), x # e PROVE Linked(r, x)
    <3>1. PICK i \in 1..Len(s) : s[i] = x
      BY <2>2 DEF Linked
    <3>2. i # k
      BY <3>1, <2>2, <1>1
    <3>3. CASE i < k
      <4>1. i \in 1..(Len(s) - 1) /\ r[i] = x
        BY <3>1, <3>3, <1>7, <1>1, <1>3
      <4> QED BY <4>1, <1>6 DEF Linked
    <3>4. CASE ~(i < k)
      <4>1. i - 1 \in 1..(Len(s) - 1) /\ ~(i - 1 < k)
        BY <3>1, <3>2, <3>4, <1>1, <1>3
      <4>2. r[i - 1] = s[(i - 1) + 1] /\ (i - 1) + 1 = i
        BY <4>1, <1>7
      <4>3. r[i - 1] = x
        BY <4>2, <3>1
      <4> QED BY <4>1, <4>3, <1>6 DEF Linked
    <3> QED BY <3>3, <3>4
  <2> QED BY <2>1, <2>2
<1>9. NoDup(r)
  <2> SUFFICES ASSUME NEW i \in 1..(Len(s) - 1), NEW j \in 1..(Len(s) - 1), r[i] = r[j]
               PROVE  i = j
    BY <1>6 DEF NoDup
  <2> DEFINE m(n) == IF n < k THEN n ELSE n + 1
  <2>1. m(i) \in 1..Len(s) /\ m(j) \in 1..Len(s)
    BY <1>1, <1>3
  <2>2. r[i] = s[m(i)] /\ r[j] = s[m(j)]
    BY <1>7
  <2>3. m(i) = m(j)
    BY <2>1, <2>2 DEF NoDup
  <2> QED BY <2>3, <1>1, <1>3
<1>10. ASSUME s[1] # e PROVE r # << >> /\ r[1] = s[1]
  <2>1. k # 1
    BY <1>10, <1>1
  <2>2. 1 \in 1..(Len(s) - 1) /\ 1 < k
    BY <2>1, <1>1, <1>3
  <2>3. r[1] = s[1] /\ Len(r) # 0
    BY <2>2, <1>7, <1>6, <1>3
  <2> QED BY <2>3, <1>6, EmptySeq
<1> QED BY <1>2, <1>6, <1>8, <1>9, <1>10

\* Unlinking a node that is not linked changes nothing.
LEMMA RemoveAbsent ==
  ASSUME NEW s, NEW e, ~Linked(s, e)
  PROVE  sys_dlist_remove(s, e) = s
BY DEF sys_dlist_remove

\* A non-empty set of integers that is bounded below has a least element.
LEMMA LeastElement ==
  ASSUME NEW S \in SUBSET Int, S # {}, NEW b \in Int, \A x \in S : b <= x
  PROVE  \E m \in S : \A x \in S : m <= x
<1> DEFINE N == {x - b : x \in S}
           R == OpToRel(<, Nat)
<1>1. N \subseteq Nat /\ N # {}
  <2>1. \A x \in S : x - b \in Nat
    OBVIOUS
  <2> QED BY <2>1
<1>2. PICK n \in N : \A y \in N : ~(<<y, n>> \in R)
  BY <1>1, WFMin, NatLessThanWellFounded
<1>3. \A x, y \in Nat : x < y => <<x, y>> \in R
  BY Zenon DEF OpToRel
<1> HIDE DEF R
<1>4. \A y \in N : ~(y < n)
  BY <1>1, <1>2, <1>3
<1>5. PICK m \in S : n = m - b
  BY <1>2
<1>6. ASSUME NEW x \in S PROVE m <= x
  <2>1. x - b \in N
    OBVIOUS
  <2> HIDE DEF N
  <2>2. ~(x - b < m - b)
    BY <2>1, <1>4, <1>5
  <2> QED BY <2>2
<1> QED BY <1>6

\* The insertion point that sys_dlist_insert_at() looks for exists: the least
\* of the positions that satisfy its callback, or the end of the list.
LEMMA InsertPoint ==
  ASSUME NEW n \in Nat, NEW P \in SUBSET (1..n)
  PROVE  (IF P = {} THEN n + 1 ELSE CHOOSE i \in P : \A j \in P : i <= j) \in 1..(n + 1)
<1>1. CASE P = {}
  BY <1>1
<1>2. CASE P # {}
  <2>1. P \in SUBSET Int /\ \A x \in P : 1 <= x
    OBVIOUS
  <2>2. \E i \in P : \A j \in P : i <= j
    BY <2>1, <1>2, LeastElement
  <2> DEFINE c == CHOOSE i \in P : \A j \in P : i <= j
  <2>3. c \in P
    BY <2>2
  <2> HIDE DEF c
  <2>4. c \in 1..(n + 1)
    BY <2>3
  <2> QED BY <2>4, <1>2 DEF c
<1> QED BY <1>1, <1>2

\* sys_dlist_insert_at() with insertion point k links e, keeps every other node
\* linked, and links no node twice if e was on no list.
LEMMA InsertProps ==
  ASSUME NEW T, NEW s \in Seq(T), NEW e \in T, NEW k \in 1..(Len(s) + 1),
         NEW r, r = [i \in 1..(Len(s) + 1) |->
                       IF i < k THEN s[i] ELSE IF i = k THEN e ELSE s[i - 1]]
  PROVE  /\ r \in Seq(T) /\ r # << >>
         /\ \A x : Linked(r, x) <=> Linked(s, x) \/ x = e
         /\ NoDup(s) /\ ~Linked(s, e) => NoDup(r)
<1>2. Len(s) \in Nat /\ \A i \in 1..Len(s) : s[i] \in T
  BY LenProperties, ElementOfSeq
<1>3. k \in 1..(Len(s) + 1)
  OBVIOUS
<1>4. r \in [1..(Len(s) + 1) -> T]
  <2> SUFFICES ASSUME NEW i \in 1..(Len(s) + 1)
               PROVE  (IF i < k THEN s[i] ELSE IF i = k THEN e ELSE s[i - 1]) \in T
    OBVIOUS
  <2>1. (i < k => i \in 1..Len(s)) /\ (~(i < k) /\ i # k => i - 1 \in 1..Len(s))
    BY <1>2, <1>3
  <2> QED BY <2>1, <1>2
<1>5. r \in Seq(T) /\ Len(r) = Len(s) + 1
  BY <1>2, <1>4, FunctionIsSeq
<1>6. \A i \in 1..(Len(s) + 1) :
        r[i] = IF i < k THEN s[i] ELSE IF i = k THEN e ELSE s[i - 1]
  OBVIOUS
<1>7. ASSUME NEW x PROVE Linked(r, x) <=> Linked(s, x) \/ x = e
  <2>1. ASSUME Linked(r, x), x # e PROVE Linked(s, x)
    <3>1. PICK i \in 1..(Len(s) + 1) : r[i] = x
      BY <2>1, <1>5 DEF Linked
    <3>2. i # k
      BY <3>1, <2>1, <1>6
    <3>3. CASE i < k
      <4>1. i \in 1..Len(s) /\ s[i] = x
        BY <3>1, <3>3, <1>2, <1>3, <1>6
      <4> QED BY <4>1 DEF Linked
    <3>4. CASE ~(i < k)
      <4>1. i - 1 \in 1..Len(s) /\ s[i - 1] = x
        BY <3>1, <3>2, <3>4, <1>2, <1>3, <1>6
      <4> QED BY <4>1 DEF Linked
    <3> QED BY <3>3, <3>4
  <2>2. ASSUME Linked(s, x) PROVE Linked(r, x)
    <3>1. PICK i \in 1..Len(s) : s[i] = x
      BY <2>2 DEF Linked
    <3>2. CASE i < k
      <4>1. i \in 1..Len(r) /\ r[i] = x
        BY <3>1, <3>2, <1>2, <1>5, <1>6
      <4> QED BY <4>1 DEF Linked
    <3>3. CASE ~(i < k)
      <4>1. i + 1 \in 1..(Len(s) + 1) /\ ~(i + 1 < k) /\ i + 1 # k /\ (i + 1) - 1 = i
        BY <3>3, <1>2, <1>3
      <4>2. r[i + 1] = s[(i + 1) - 1]
        BY <4>1, <1>6
      <4>3. r[i + 1] = x
        BY <4>1, <4>2, <3>1
      <4> QED BY <4>1, <4>3, <1>5 DEF Linked
    <3> QED BY <3>2, <3>3
  <2>3. ASSUME x = e PROVE Linked(r, x)
    BY <2>3, <1>3, <1>5, <1>6 DEF Linked
  <2> QED BY <2>1, <2>2, <2>3
<1>8. ASSUME NoDup(s), ~Linked(s, e) PROVE NoDup(r)
  <2> SUFFICES ASSUME NEW i \in 1..(Len(s) + 1), NEW j \in 1..(Len(s) + 1), r[i] = r[j]
               PROVE  i = j
    BY <1>5 DEF NoDup
  <2> DEFINE m(n) == IF n < k THEN n ELSE n - 1
  <2>1. (i # k => m(i) \in 1..Len(s)) /\ (j # k => m(j) \in 1..Len(s))
    BY <1>2, <1>3
  <2>2. (i # k => r[i] = s[m(i)]) /\ (j # k => r[j] = s[m(j)])
    BY <1>6
  <2>3. r[k] = e
    BY <1>3, <1>6
  <2>4. CASE i = k \/ j = k
    BY <2>1, <2>2, <2>3, <2>4, <1>8 DEF Linked
  <2>5. CASE i # k /\ j # k
    <3>1. m(i) = m(j)
      BY <2>1, <2>2, <2>5, <1>8 DEF NoDup
    <3> QED BY <3>1, <2>5, <1>2, <1>3
  <2> QED BY <2>4, <2>5
<1>9. r # << >>
  BY <1>2, <1>5, EmptySeq
<1> QED BY <1>5, <1>7, <1>8, <1>9

\* Taking the head off a list (sys_dlist_get()) unlinks the head and no other.
LEMMA TailProps ==
  ASSUME NEW T, NEW s \in Seq(T), s # << >>, NoDup(s)
  PROVE  /\ Head(s) \in T /\ Linked(s, Head(s)) /\ Tail(s) \in Seq(T)
         /\ \A x : Linked(Tail(s), x) <=> Linked(s, x) /\ x # Head(s)
         /\ NoDup(Tail(s))
<1>1. /\ Head(s) = s[1] /\ Head(s) \in T /\ Tail(s) \in Seq(T)
      /\ Len(s) \in Nat /\ Len(s) >= 1 /\ Len(Tail(s)) = Len(s) - 1
      /\ \A i \in 1..(Len(s) - 1) : Tail(s)[i] = s[i + 1]
  BY HeadTailProperties, LenProperties, EmptySeq, ElementOfSeq
<1>2. Linked(s, Head(s))
  BY <1>1 DEF Linked
<1>3. ASSUME NEW x PROVE Linked(Tail(s), x) <=> Linked(s, x) /\ x # Head(s)
  <2>1. ASSUME Linked(Tail(s), x) PROVE Linked(s, x) /\ x # Head(s)
    <3>1. PICK i \in 1..(Len(s) - 1) : Tail(s)[i] = x
      BY <2>1, <1>1 DEF Linked
    <3>2. i + 1 \in 1..Len(s) /\ s[i + 1] = x /\ i + 1 # 1 /\ 1 \in 1..Len(s)
      BY <3>1, <1>1
    <3> QED BY <3>2, <1>1 DEF Linked, NoDup
  <2>2. ASSUME Linked(s, x), x # Head(s) PROVE Linked(Tail(s), x)
    <3>1. PICK i \in 1..Len(s) : s[i] = x
      BY <2>2 DEF Linked
    <3>2. i # 1
      BY <3>1, <2>2, <1>1
    <3>3. i - 1 \in 1..(Len(s) - 1) /\ (i - 1) + 1 = i
      BY <3>1, <3>2, <1>1
    <3>4. Tail(s)[i - 1] = s[(i - 1) + 1]
      BY <3>3, <1>1
    <3>5. Tail(s)[i - 1] = x
      BY <3>1, <3>3, <3>4
    <3> QED BY <3>3, <3>5, <1>1 DEF Linked
  <2> QED BY <2>1, <2>2
<1>4. NoDup(Tail(s))
  <2> SUFFICES ASSUME NEW i \in 1..(Len(s) - 1), NEW j \in 1..(Len(s) - 1),
                      Tail(s)[i] = Tail(s)[j]
               PROVE  i = j
    BY <1>1 DEF NoDup
  <2>1. i + 1 \in 1..Len(s) /\ j + 1 \in 1..Len(s) /\ s[i + 1] = s[j + 1]
    BY <1>1
  <2>2. i + 1 = j + 1
    BY <2>1 DEF NoDup
  <2> QED BY <2>2
<1> QED BY <1>1, <1>2, <1>3, <1>4

\* sys_dlist_insert_at() links e, whatever its callback says, keeps every other node
\* linked, and links no node twice if e was on no list.
LEMMA InsertAtProps ==
  ASSUME NEW T, NEW s \in Seq(T), NEW e \in T, NEW C
  PROVE  /\ sys_dlist_insert_at(s, e, C) \in Seq(T) /\ sys_dlist_insert_at(s, e, C) # << >>
         /\ \A x : Linked(sys_dlist_insert_at(s, e, C), x) <=> Linked(s, x) \/ x = e
         /\ NoDup(s) /\ ~Linked(s, e) => NoDup(sys_dlist_insert_at(s, e, C))
<1> DEFINE P == {i \in 1..Len(s) : s[i] \in C}
           k == IF P = {} THEN Len(s) + 1 ELSE CHOOSE i \in P : \A j \in P : i <= j
<1>1. sys_dlist_insert_at(s, e, C) =
        [i \in 1..(Len(s) + 1) |-> IF i < k THEN s[i] ELSE IF i = k THEN e ELSE s[i - 1]]
  BY Zenon DEF sys_dlist_insert_at
<1>2. Len(s) \in Nat /\ P \in SUBSET (1..Len(s))
  BY LenProperties
<1> HIDE DEF P
<1>3. k \in 1..(Len(s) + 1)
  BY <1>2, InsertPoint
<1> HIDE DEF k
<1> QED BY <1>1, <1>3, InsertProps

\* sys_dlist_remove() unlinks e, linked or not, and no other node.
LEMMA UnlinkProps ==
  ASSUME NEW T, NEW s \in Seq(T), NEW e, NoDup(s)
  PROVE  /\ sys_dlist_remove(s, e) \in Seq(T) /\ NoDup(sys_dlist_remove(s, e))
         /\ \A x : Linked(sys_dlist_remove(s, e), x) <=> Linked(s, x) /\ x # e
<1>1. CASE Linked(s, e)
  BY <1>1, RemoveProps
<1>2. CASE ~Linked(s, e)
  BY <1>2, RemoveAbsent
<1> QED BY <1>1, <1>2

\* A list is empty exactly when no node is linked on it.
LEMMA EmptyUnlinked ==
  ASSUME NEW T, NEW s \in Seq(T)
  PROVE  /\ s = << >> <=> \A x : ~Linked(s, x)
         /\ NoDup(<< >>) /\ << >> \in Seq(T)
         /\ s # << >> => Head(s) \in T /\ Linked(s, Head(s))
<1>1. Len(s) \in Nat /\ (s = << >> <=> Len(s) = 0)
  BY LenProperties, EmptySeq
<1>2. s = << >> => \A x : ~Linked(s, x)
  BY <1>1 DEF Linked
<1>3. s # << >> => Head(s) \in T /\ Linked(s, Head(s))
  <2> SUFFICES ASSUME s # << >> PROVE Head(s) \in T /\ Linked(s, Head(s))
    OBVIOUS
  <2>1. 1 \in 1..Len(s) /\ Head(s) = s[1]
    BY <1>1, HeadTailProperties
  <2> QED BY <2>1, ElementOfSeq DEF Linked
<1>4. NoDup(<< >>) /\ << >> \in Seq(T)
  BY EmptySeq DEF NoDup
<1> QED BY <1>2, <1>3, <1>4

\* On a list that links no node twice, a node is linked in one place or in none.
LEMMA LinkedOnce ==
  ASSUME NEW T, NEW s \in Seq(T), NoDup(s), NEW e
  PROVE  Cardinality({i \in 1..Len(s) : s[i] = e}) = IF Linked(s, e) THEN 1 ELSE 0
<1>1. CASE Linked(s, e)
  <2>1. PICK i \in 1..Len(s) : s[i] = e
    BY <1>1 DEF Linked
  <2>2. {j \in 1..Len(s) : s[j] = e} = {i}
    BY <2>1 DEF NoDup
  <2> QED BY <1>1, <2>2, FS_Singleton
<1>2. CASE ~Linked(s, e)
  <2>1. {j \in 1..Len(s) : s[j] = e} = {}
    BY <1>2 DEF Linked
  <2> QED BY <1>2, <2>1, FS_EmptySet
<1> QED BY <1>1, <1>2

\* AppendProps, of the term itself
LEMMA AppendNode ==
  ASSUME NEW T, NEW s \in Seq(T), NEW e \in T
  PROVE  /\ Append(s, e) \in Seq(T) /\ Append(s, e) # << >>
         /\ \A x : Linked(Append(s, e), x) <=> Linked(s, x) \/ x = e
         /\ NoDup(s) /\ ~Linked(s, e) => NoDup(Append(s, e))
<1>1. /\ sys_dlist_append(s, e) \in Seq(T) /\ sys_dlist_append(s, e) # << >>
      /\ \A x : Linked(sys_dlist_append(s, e), x) <=> Linked(s, x) \/ x = e
      /\ NoDup(s) /\ ~Linked(s, e) => NoDup(sys_dlist_append(s, e))
  BY AppendProps
<1> QED BY <1>1 DEF sys_dlist_append

\* The nodes are in the order of their keys.
SortedBy(key, s) == \A i, j \in 1..Len(s) : i < j => key[s[i]] <= key[s[j]]

\* The first element of a sorted list is a least one, and the rest is sorted.
LEMMA HeadSorted ==
  ASSUME NEW T, NEW key \in [T -> Int], NEW s \in Seq(T), s # << >>, SortedBy(key, s)
  PROVE  /\ \A x : Linked(s, x) => key[Head(s)] <= key[x]
         /\ SortedBy(key, Tail(s))
<1>1. /\ Len(s) \in Nat /\ Len(s) >= 1 /\ Head(s) = s[1] /\ Len(Tail(s)) = Len(s) - 1
      /\ \A i \in 1..Len(s) : s[i] \in T /\ key[s[i]] \in Int
      /\ \A i \in 1..(Len(s) - 1) : Tail(s)[i] = s[i + 1]
  BY EmptySeq, LenProperties, ElementOfSeq, HeadTailProperties
<1>2. \A x : Linked(s, x) => key[Head(s)] <= key[x]
  <2> SUFFICES ASSUME NEW i \in 1..Len(s) PROVE key[s[1]] <= key[s[i]]
    BY <1>1 DEF Linked
  <2>1. CASE i = 1
    BY <1>1, <2>1
  <2>2. CASE 1 < i
    BY <1>1, <2>2 DEF SortedBy
  <2> QED BY <1>1, <2>1, <2>2
<1>3. SortedBy(key, Tail(s))
  <2> SUFFICES ASSUME NEW i \in 1..(Len(s) - 1), NEW j \in 1..(Len(s) - 1), i < j
               PROVE  key[s[i + 1]] <= key[s[j + 1]]
    BY <1>1 DEF SortedBy
  <2>1. i + 1 \in 1..Len(s) /\ j + 1 \in 1..Len(s) /\ i + 1 < j + 1
    BY <1>1
  <2> QED BY <2>1 DEF SortedBy
<1> QED BY <1>2, <1>3

\* Removal keeps a list sorted.
LEMMA RemoveSorted ==
  ASSUME NEW T, NEW key \in [T -> Int], NEW s \in Seq(T), NEW e, SortedBy(key, s)
  PROVE  SortedBy(key, sys_dlist_remove(s, e))
<1>1. CASE ~Linked(s, e)
  BY <1>1 DEF sys_dlist_remove
<1>2. CASE Linked(s, e)
  <2> DEFINE k == CHOOSE i \in 1..Len(s) : s[i] = e
             l == [i \in 1..(Len(s) - 1) |-> IF i < k THEN s[i] ELSE s[i + 1]]
  <2>1. sys_dlist_remove(s, e) = l
    BY <1>2 DEF sys_dlist_remove
  <2>2. k \in 1..Len(s) /\ Len(s) \in Nat /\ \A i \in 1..Len(s) : s[i] \in T
    BY <1>2, LenProperties, ElementOfSeq DEF Linked
  <2> HIDE DEF k
  <2>3. l \in [1..(Len(s) - 1) -> T] /\ Len(s) - 1 \in Nat
    BY <2>2
  <2>4. Len(l) = Len(s) - 1
    BY <2>3, FunctionIsSeq
  <2> SUFFICES ASSUME NEW i \in 1..(Len(s) - 1), NEW j \in 1..(Len(s) - 1), i < j
               PROVE  key[l[i]] <= key[l[j]]
    BY <2>1, <2>4 DEF SortedBy
  <2>5. CASE j < k
    <3>1. i \in 1..Len(s) /\ j \in 1..Len(s) /\ l[i] = s[i] /\ l[j] = s[j]
      BY <2>2, <2>5
    <3> QED BY <3>1 DEF SortedBy
  <2>6. CASE i < k /\ ~(j < k)
    <3>1. i \in 1..Len(s) /\ j + 1 \in 1..Len(s) /\ i < j + 1
      BY <2>2
    <3> QED BY <2>6, <3>1 DEF SortedBy
  <2>7. CASE ~(i < k)
    <3>1. i + 1 \in 1..Len(s) /\ j + 1 \in 1..Len(s) /\ i + 1 < j + 1 /\ ~(j < k)
      BY <2>2, <2>7
    <3> QED BY <2>7, <3>1 DEF SortedBy
  <2> QED BY <2>2, <2>5, <2>6, <2>7
<1> QED BY <1>1, <1>2

LEMMA FirstOf ==
  ASSUME NEW n \in Nat, NEW P \in SUBSET (1..n), P # {}
  PROVE  \E i \in P : \A j \in P : i <= j
<1>1. P \in SUBSET Int /\ \A x \in P : 1 <= x
  OBVIOUS
<1> QED BY <1>1, LeastElement

\* Insertion before the first node with a greater key keeps a list sorted.
LEMMA InsertSorted ==
  ASSUME NEW T, NEW key \in [T -> Int], NEW s \in Seq(T), NEW e \in T, NEW C, SortedBy(key, s),
         \A i \in 1..Len(s) : s[i] \in C <=> key[e] < key[s[i]]
  PROVE  SortedBy(key, sys_dlist_insert_at(s, e, C))
<1> DEFINE P == {i \in 1..Len(s) : s[i] \in C}
           k == IF P = {} THEN Len(s) + 1 ELSE CHOOSE i \in P : \A j \in P : i <= j
           r == [i \in 1..(Len(s) + 1) |->
                   IF i < k THEN s[i] ELSE IF i = k THEN e ELSE s[i - 1]]
<1>1. sys_dlist_insert_at(s, e, C) = r
  BY DEF sys_dlist_insert_at
<1>2. Len(s) \in Nat /\ P \in SUBSET (1..Len(s)) /\ key[e] \in Int
      /\ \A i \in 1..Len(s) : s[i] \in T /\ key[s[i]] \in Int
  BY LenProperties, ElementOfSeq
<1>3. k \in 1..(Len(s) + 1)
  BY <1>2, InsertPoint
<1>4. /\ \A i \in 1..Len(s) : i < k => key[s[i]] <= key[e]
      /\ \A i \in 1..Len(s) : k <= i => key[e] <= key[s[i]]
  <2>1. CASE P = {}
    <3>1. k = Len(s) + 1
      BY <2>1
    <3>2. \A i \in 1..Len(s) : ~(key[e] < key[s[i]])
      BY <2>1
    <3> QED BY <1>2, <3>1, <3>2
  <2>2. CASE P # {}
    <3> HIDE DEF P
    <3>2. \E i \in P : \A j \in P : i <= j
      BY <1>2, <2>2, FirstOf
    <3>3. k \in P /\ \A j \in P : k <= j
      BY <2>2, <3>2
    <3> HIDE DEF k
    <3>4. k \in 1..Len(s) /\ key[e] < key[s[k]]
      BY <3>3 DEF P
    <3>5. \A i \in 1..Len(s) : i < k => ~(key[e] < key[s[i]])
      BY <1>2, <1>3, <3>3 DEF P
    <3>6. ASSUME NEW i \in 1..Len(s), k <= i PROVE key[e] <= key[s[i]]
      <4>1. CASE k = i
        BY <1>2, <3>4, <4>1
      <4>2. CASE k < i
        <5>1. key[s[k]] <= key[s[i]]
          BY <3>4, <4>2 DEF SortedBy
        <5> QED BY <1>2, <3>4, <5>1
      <4> QED BY <1>2, <1>3, <3>6, <4>1, <4>2
    <3> QED BY <1>2, <3>5, <3>6
  <2> QED BY <2>1, <2>2
<1> HIDE DEF P, k
<1>5. r \in [1..(Len(s) + 1) -> T] /\ Len(s) + 1 \in Nat
  BY <1>2, <1>3
<1>6. Len(r) = Len(s) + 1
  BY <1>5, FunctionIsSeq
<1> SUFFICES ASSUME NEW i \in 1..(Len(s) + 1), NEW j \in 1..(Len(s) + 1), i < j
             PROVE  key[r[i]] <= key[r[j]]
  BY <1>1, <1>6 DEF SortedBy
<1>7. CASE j < k
  BY <1>2, <1>3, <1>7 DEF SortedBy
<1>8. CASE j = k
  BY <1>2, <1>3, <1>4, <1>8
<1>9. CASE k < j /\ i < k
  <2>1. i \in 1..Len(s) /\ j - 1 \in 1..Len(s) /\ k <= j - 1
    BY <1>2, <1>3, <1>9
  <2>2. key[s[i]] <= key[e] /\ key[e] <= key[s[j - 1]]
    BY <1>4, <1>9, <2>1
  <2>3. r[i] = s[i] /\ r[j] = s[j - 1]
    BY <1>3, <1>9
  <2> QED BY <1>2, <2>1, <2>2, <2>3, SMTT(60)
<1>10. CASE i = k
  <2>1. j - 1 \in 1..Len(s) /\ k <= j - 1 /\ r[i] = e /\ r[j] = s[j - 1]
    BY <1>2, <1>3, <1>10
  <2> QED BY <1>4, <2>1
<1>11. CASE k < i
  <2>1. i - 1 \in 1..Len(s) /\ j - 1 \in 1..Len(s) /\ i - 1 < j - 1
    BY <1>2, <1>3, <1>11
  <2>2. r[i] = s[i - 1] /\ r[j] = s[j - 1]
    BY <1>3, <1>11
  <2> QED BY <2>1, <2>2 DEF SortedBy
<1> QED BY <1>3, <1>7, <1>8, <1>9, <1>10, <1>11
=============================================================================
