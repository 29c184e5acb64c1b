---------------------------- MODULE MutexProofs ----------------------------
(***************************************************************************)
(* Proofs about mutexes, for any threads, mutexes and priorities.  What    *)
(* priority inheritance promises is proved of threads that hold one mutex  *)
(* at a time and have priorities the ceiling does not cut off.             *)
(***************************************************************************)
EXTENDS Mutex, DListProofs

SwapLoc(m, r) == [at |-> "swap", m |-> m, ret |-> r]
PeekLoc(m, p) == [at |-> "peeked", m |-> m, new_prio |-> p]

LocState == {NotLocking} \cup {SwapLoc(m, r) : m \in Mtx, r \in {0, -1}}
              \cup {PeekLoc(m, p) : m \in Mtx, p \in Int}
MutexState == [owner : Thread \cup {NULL}, lock_count : Nat, owner_orig_prio : Int,
               wait_q : Seq(Thread)]

TypeInv ==
  /\ mutex \in [Mtx -> MutexState]
  /\ prio \in [Thread -> Int] /\ base \in [Thread -> AppPrio]
  /\ blk \in [Thread -> Mtx \cup {"sleep", NULL}]
  /\ tmo \in [Thread -> BOOLEAN]
  /\ current \in Thread \cup {NULL}
  /\ loc \in [Thread -> LocState]

\* A mutex and its wait queue
LockInv ==
  \A m \in Mtx :
    /\ mutex[m].owner # NULL <=> mutex[m].lock_count > 0
    /\ NoDup(mutex[m].wait_q)
    /\ \A t \in Thread : Linked(mutex[m].wait_q, t) <=> blk[t] = m
    /\ mutex[m].wait_q # << >> => mutex[m].owner # NULL
    /\ \A t \in Thread : loc[t] = SwapLoc(m, 0) => mutex[m].owner = t

\* Where a thread is, what it is blocked on and whether it can be running
ThreadInv ==
  \A t \in Thread :
    /\ blk[t] \in Mtx => loc[t] = SwapLoc(blk[t], -1)
    /\ blk[t] = "sleep" => loc[t] = NotLocking
    /\ tmo[t] => blk[t] # NULL
    /\ current = t => blk[t] = NULL
    /\ loc[t].at = "peeked" => current = t

IInv == TypeInv /\ LockInv /\ ThreadInv

\* With one mutex at a time and priorities below the ceiling: a thread has inherited
\* something only while it is an owner, and a waiter is none.
OwnInv ==
  /\ \A m, n \in Mtx : mutex[m].owner = mutex[n].owner /\ mutex[m].owner # NULL => m = n
  /\ \A m \in Mtx, t \in Thread : mutex[m].owner = t => blk[t] \notin Mtx
  /\ \A t \in Thread : prio[t] >= Ceiling
  /\ \A t \in Thread : (\A m \in Mtx : mutex[m].owner # t) => prio[t] = base[t]
  /\ \A m \in Mtx : mutex[m].owner # NULL => mutex[m].owner_orig_prio = base[mutex[m].owner]

\* With own priority b[o] and waiters W, the priority p is low enough, and is one of theirs.
Bounds(b, o, W, p) == p <= b[o] /\ \A t \in W : p <= b[t]
Among(b, o, W, p) == p = b[o] \/ \E t \in W : p = b[t]

BlockedOn(m) == {t \in Thread : blk[t] = m}
GivesUp(t, m) ==
  /\ blk[t] = NULL
  /\ loc[t] = SwapLoc(m, -1) \/ (loc[t].at = "peeked" /\ loc[t].m = m)

\* The waiters are in the order of their priorities, and the owner has inherited the
\* most urgent of them, or is about to have it set by the threads that are giving up.
InheritOf(m) ==
  /\ SortedBy(base, mutex[m].wait_q)
  /\ mutex[m].owner # NULL =>
       LET o == mutex[m].owner
           W == BlockedOn(m)
       IN  /\ Bounds(base, o, W, prio[o])
           /\ (\A t \in Thread : ~GivesUp(t, m)) => Among(base, o, W, prio[o])
           /\ \A t \in Thread, p \in Int : loc[t] = PeekLoc(m, p) =>
                /\ p >= Ceiling /\ Bounds(base, o, W, p)
                /\ (\A u \in Thread : GivesUp(u, m) => u = t) => Among(base, o, W, p)

InheritInv == \A m \in Mtx : InheritOf(m)

PInv == OwnInv /\ InheritInv

\* The places a thread may be at in k_mutex_lock() are told apart by what they hold.
LEMMA LocProps ==
  /\ NotLocking \in LocState /\ NotLocking.at = "run"
  /\ \A m \in Mtx : SwapLoc(m, 0) \in LocState /\ SwapLoc(m, -1) \in LocState
  /\ \A m \in Mtx, p \in Int : PeekLoc(m, p) \in LocState
  /\ \A m, r : SwapLoc(m, r).at = "swap" /\ SwapLoc(m, r).m = m /\ SwapLoc(m, r).ret = r
  /\ \A m, p : PeekLoc(m, p).at = "peeked" /\ PeekLoc(m, p).m = m /\ PeekLoc(m, p).new_prio = p
  /\ \A x \in LocState : \/ x = NotLocking
                         \/ \E m \in Mtx : x = SwapLoc(m, 0) \/ x = SwapLoc(m, -1)
                         \/ \E m \in Mtx, p \in Int : x = PeekLoc(m, p)
<1>1. /\ NotLocking \in LocState /\ NotLocking.at = "run"
      /\ \A m \in Mtx : SwapLoc(m, 0) \in LocState /\ SwapLoc(m, -1) \in LocState
      /\ \A m \in Mtx, p \in Int : PeekLoc(m, p) \in LocState
  BY DEF LocState, NotLocking
<1>2. \A m, r : SwapLoc(m, r).at = "swap" /\ SwapLoc(m, r).m = m /\ SwapLoc(m, r).ret = r
  BY DEF SwapLoc
<1>3. \A m, p : PeekLoc(m, p).at = "peeked" /\ PeekLoc(m, p).m = m /\ PeekLoc(m, p).new_prio = p
  BY DEF PeekLoc
<1>4. \A x \in LocState : \/ x = NotLocking
                          \/ \E m \in Mtx : x = SwapLoc(m, 0) \/ x = SwapLoc(m, -1)
                          \/ \E m \in Mtx, p \in Int : x = PeekLoc(m, p)
  BY DEF LocState
<1> QED BY <1>1, <1>2, <1>3, <1>4

\* Only a ready thread is switched to.
LEMMA SwapProps ==
  ASSUME NEW pr, NEW bl, Swap(pr, bl)
  PROVE  current' = NULL \/ (current' \in Thread /\ bl[current'] = NULL)
BY DEF Swap, Highest, Ready

\* ... and a thread inside k_mutex_lock() keeps the CPU as long as it is ready.
LEMMA RescheduleProps ==
  ASSUME NEW pr, NEW bl, NEW lo, Reschedule(pr, bl, lo), current \in Thread \cup {NULL}
  PROVE  /\ current' = NULL \/ (current' \in Thread /\ bl[current'] = NULL)
         /\ current # NULL /\ bl[current] = NULL /\ lo[current] # NotLocking => current' = current
BY SwapProps DEF Reschedule, Ready, is_preempt

LEMMA InitInv == Init => IInv
<1> SUFFICES ASSUME Init PROVE IInv
  OBVIOUS
<1>1. NoDup(<< >>) /\ \A x : ~Linked(<< >>, x)
  BY DEF NoDup, Linked
<1>2. TypeInv
  <2>1. prio \in [Thread -> Int] /\ base \in [Thread -> AppPrio]
    BY MutexAssumption DEF Init
  <2>2. mutex \in [Mtx -> MutexState]
    BY DEF Init, MutexState
  <2>3. current \in Thread
    BY DEF Init, Highest
  <2> QED BY <2>1, <2>2, <2>3, LocProps DEF Init, TypeInv
<1>3. LockInv
  BY <1>1, LocProps, MutexAssumption DEF Init, LockInv
<1>4. ThreadInv
  BY LocProps, MutexAssumption DEF Init, ThreadInv
<1> QED BY <1>2, <1>3, <1>4 DEF IInv

\* What priority inheritance is proved under
Single == MaxHeld = 1 /\ \A p \in AppPrio : Ceiling <= p

\* The guards on how many mutexes a thread holds, when it may hold one
LEMMA HeldOne ==
  ASSUME NEW c, MaxHeld = 1
  PROVE  /\ \A m \in Mtx : Cardinality(Owned(c) \cup {m}) <= MaxHeld =>
                             \A n \in Mtx : mutex[n].owner = c => n = m
         /\ Cardinality(Owned(c)) < MaxHeld => \A n \in Mtx : mutex[n].owner # c
<1>1. Owned(c) \in SUBSET Mtx /\ \A n \in Mtx : mutex[n].owner = c => n \in Owned(c)
  BY DEF Owned
<1>2. ASSUME NEW m \in Mtx, Cardinality(Owned(c) \cup {m}) <= 1, NEW n \in Mtx, n \in Owned(c), n # m
      PROVE  FALSE
  <2>1. IsFiniteSet(Owned(c) \cup {m})
    BY <1>1, MutexAssumption, FS_Subset
  <2>2. IsFiniteSet({m}) /\ Cardinality({m}) = 1
    BY FS_Singleton
  <2>3. IsFiniteSet({m} \cup {n}) /\ Cardinality({m} \cup {n}) = 2
    BY <1>2, <2>2, FS_AddElement
  <2>4. {m} \cup {n} \in SUBSET (Owned(c) \cup {m})
    BY <1>2
  <2>5. Cardinality({m} \cup {n}) <= Cardinality(Owned(c) \cup {m})
    BY <2>1, <2>4, FS_Subset
  <2> QED BY <1>2, <2>1, <2>3, <2>5, FS_CardinalityType
<1>3. ASSUME Cardinality(Owned(c)) < 1 PROVE Owned(c) = {}
  <2>1. IsFiniteSet(Owned(c))
    BY <1>1, MutexAssumption, FS_Subset
  <2>2. Cardinality(Owned(c)) \in Nat
    BY <2>1, FS_CardinalityType
  <2>3. Cardinality(Owned(c)) = 0
    BY <1>3, <2>2
  <2> QED BY <2>1, <2>3, FS_EmptySet
<1> QED BY <1>1, <1>2, <1>3

\* A step that leaves a mutex, its waiters and its owner's priority alone
LEMMA InheritFrame ==
  ASSUME NEW n \in Mtx, TypeInv, InheritOf(n), base' = base,
         mutex'[n].owner = mutex[n].owner, mutex'[n].wait_q = mutex[n].wait_q,
         mutex[n].owner # NULL => prio'[mutex[n].owner] = prio[mutex[n].owner],
         \A t \in Thread : blk'[t] = n <=> blk[t] = n,
         \A t \in Thread : GivesUp(t, n)' <=> GivesUp(t, n),
         \A t \in Thread, p \in Int : loc'[t] = PeekLoc(n, p) => loc[t] = PeekLoc(n, p)
  PROVE  InheritOf(n)'
<1>1. BlockedOn(n)' = BlockedOn(n)
  BY DEF BlockedOn
<1> QED BY <1>1 DEF InheritOf

\* A mutex that is free, or the caller's own, is locked.
LEMMA LockStep ==
  ASSUME IInv, NEW m \in Mtx, k_mutex_lock(m)
  PROVE  IInv' /\ (Single /\ PInv => PInv')
<1> DEFINE c == current
<1>1. /\ c \in Thread /\ loc[c] = NotLocking /\ blk[c] = NULL
      /\ mutex[m].lock_count = 0 \/ mutex[m].owner = c
      /\ UNCHANGED <<base, prio, blk, tmo, loc, faulted>>
  BY DEF k_mutex_lock, Call, IInv, TypeInv, ThreadInv
<1>2. /\ mutex' \in [Mtx -> MutexState]
      /\ \A n \in Mtx : n # m => mutex'[n] = mutex[n]
      /\ mutex'[m].owner = c /\ mutex'[m].lock_count = mutex[m].lock_count + 1
      /\ mutex'[m].wait_q = mutex[m].wait_q
      /\ mutex'[m].owner_orig_prio = IF mutex[m].lock_count = 0 THEN prio[c]
                                     ELSE mutex[m].owner_orig_prio
      /\ mutex[m].lock_count \in Nat
  BY <1>1 DEF k_mutex_lock, IInv, TypeInv, MutexState
<1>3. current' = NULL \/ (current' \in Thread /\ blk[current'] = NULL)
  BY RescheduleProps DEF k_mutex_lock, IInv, TypeInv
<1>4. \A t \in Thread : loc[t].at # "peeked"
  BY <1>1, LocProps DEF IInv, ThreadInv
<1> HIDE DEF c
<1>5. TypeInv'
  BY <1>1, <1>2, <1>3 DEF IInv, TypeInv
<1>6. LockInv'
  BY <1>1, <1>2, LocProps, MutexAssumption DEF IInv, LockInv
<1>7. ThreadInv'
  BY <1>1, <1>3, <1>4, MutexAssumption DEF IInv, ThreadInv
<1>8. ASSUME Single, PInv PROVE PInv'
  <2>1. \A n \in Mtx : mutex[n].owner = c => n = m
    BY <1>8, HeldOne DEF k_mutex_lock, Single, c
  <2>2. mutex[m].owner = NULL \/ mutex[m].owner = c
    BY <1>1 DEF IInv, LockInv
  <2>3. OwnInv'
    BY <1>1, <1>2, <1>8, <2>1, <2>2, MutexAssumption DEF PInv, OwnInv, IInv, LockInv
  <2>4. \A n \in Mtx, t \in Thread : GivesUp(t, n)' <=> GivesUp(t, n)
    BY <1>1 DEF GivesUp
  <2>5. ASSUME NEW n \in Mtx, mutex'[n].owner = mutex[n].owner PROVE InheritOf(n)'
    <3>1. mutex'[n].wait_q = mutex[n].wait_q
      BY <1>2
    <3> QED BY <1>1, <1>8, <2>4, <2>5, <3>1, InheritFrame DEF PInv, InheritInv, IInv
  <2>6. ASSUME mutex[m].owner = NULL PROVE InheritOf(m)'
    <3>1. mutex[m].wait_q = << >>
      BY <2>6 DEF IInv, LockInv
    <3>2. BlockedOn(m)' = {}
      BY <1>1, <3>1 DEF IInv, LockInv, BlockedOn, Linked
    <3>3. prio[c] = base[c] /\ base[c] \in Int
      BY <1>1, <1>8, <2>1, <2>6, MutexAssumption DEF PInv, OwnInv, IInv, TypeInv
    <3>4. \A t \in Thread, p \in Int : loc[t] # PeekLoc(m, p)
      BY <1>4, LocProps
    <3>5. SortedBy(base, << >>)
      BY DEF SortedBy
    <3> QED BY <1>1, <1>2, <3>1, <3>2, <3>3, <3>4, <3>5 DEF InheritOf, Bounds, Among
  <2>7. InheritInv'
    BY <1>2, <2>2, <2>5, <2>6 DEF InheritInv
  <2> QED BY <2>3, <2>7 DEF PInv
<1> QED BY <1>5, <1>6, <1>7, <1>8 DEF IInv

\* The steps that change neither a mutex nor a priority: k_sleep(), k_yield() and the
\* return of k_mutex_lock() with the mutex
LEMMA QuietStep ==
  ASSUME IInv, k_sleep \/ k_yield \/ k_mutex_lock_got
  PROVE  IInv' /\ (Single /\ PInv => PInv')
<1> DEFINE c == current
<1>1. /\ c \in Thread /\ blk[c] = NULL /\ UNCHANGED <<base, mutex, prio, faulted>>
      /\ loc[c] = NotLocking \/ \E m \in Mtx : loc[c] = SwapLoc(m, 0)
      /\ loc' = [loc EXCEPT ![c] = NotLocking]
      /\ \/ UNCHANGED blk /\ UNCHANGED tmo
         \/ blk' = [blk EXCEPT ![c] = "sleep"] /\ tmo' = [tmo EXCEPT ![c] = TRUE]
  <2>1. c \in Thread /\ blk[c] = NULL
    BY DEF k_sleep, k_yield, k_mutex_lock_got, Call, IInv, TypeInv, ThreadInv
  <2>2. loc[c] = NotLocking => loc = [loc EXCEPT ![c] = NotLocking]
    BY <2>1 DEF IInv, TypeInv
  <2>3. CASE k_sleep \/ k_yield
    BY <2>1, <2>2, <2>3 DEF k_sleep, k_yield, Call
  <2>4. CASE k_mutex_lock_got
    <3>1. loc[c].at = "swap" /\ loc[c].ret = 0
      BY <2>4 DEF k_mutex_lock_got
    <3>2. \E m \in Mtx : loc[c] = SwapLoc(m, 0)
      BY <2>1, <3>1, LocProps DEF IInv, TypeInv
    <3> QED BY <2>1, <2>4, <3>2 DEF k_mutex_lock_got
  <2> QED BY <2>3, <2>4
<1>2. current' = NULL \/ (current' \in Thread /\ blk'[current'] = NULL)
  <2>1. CASE k_sleep
    BY <2>1, SwapProps DEF k_sleep
  <2>2. CASE k_yield
    BY <2>2, SwapProps DEF k_yield
  <2>3. CASE k_mutex_lock_got
    BY <2>3, RescheduleProps DEF k_mutex_lock_got, IInv, TypeInv
  <2> QED BY <2>1, <2>2, <2>3
<1>3. \A t \in Thread : loc[t].at # "peeked"
  BY <1>1, LocProps DEF IInv, ThreadInv
<1> HIDE DEF c
<1>4. /\ \A t \in Thread : t # c => loc'[t] = loc[t] /\ blk'[t] = blk[t] /\ tmo'[t] = tmo[t]
      /\ loc'[c] = NotLocking
      /\ (blk'[c] = NULL /\ tmo'[c] = tmo[c]) \/ blk'[c] = "sleep"
  BY <1>1 DEF IInv, TypeInv
<1>5. TypeInv'
  BY <1>1, <1>2, LocProps, ZenonT(60) DEF IInv, TypeInv
<1>6. LockInv'
  BY <1>1, <1>4, LocProps, MutexAssumption DEF IInv, LockInv
<1>7. ThreadInv'
  BY <1>1, <1>2, <1>3, <1>4, LocProps, MutexAssumption DEF IInv, ThreadInv
<1>8. ASSUME Single, PInv PROVE PInv'
  <2>1. OwnInv'
    BY <1>1, <1>4, <1>8, MutexAssumption DEF PInv, OwnInv
  <2>2. ASSUME NEW m \in Mtx PROVE InheritOf(m)'
    <3>1. \A t \in Thread : blk'[t] = m <=> blk[t] = m
      BY <1>1, <1>4, MutexAssumption
    <3>2. \A t \in Thread : GivesUp(t, m)' <=> GivesUp(t, m)
      BY <1>1, <1>4, LocProps DEF GivesUp
    <3>3. \A t \in Thread, p \in Int : loc'[t] = PeekLoc(m, p) => loc[t] = PeekLoc(m, p)
      BY <1>4, LocProps
    <3> QED BY <1>1, <1>8, <3>1, <3>2, <3>3, InheritFrame DEF PInv, InheritInv, IInv
  <2> QED BY <2>1, <2>2 DEF PInv, InheritInv
<1> QED BY <1>5, <1>6, <1>7, <1>8 DEF IInv

\* Under the ceiling, inheritance takes the more urgent of two priorities.
LEMMA InheritProps ==
  ASSUME NEW p \in Int, NEW q \in Int
  PROVE  /\ new_prio_for_inheritance(p, q) \in Int
         /\ p >= Ceiling /\ q >= Ceiling =>
              /\ new_prio_for_inheritance(p, q) <= p /\ new_prio_for_inheritance(p, q) <= q
              /\ new_prio_for_inheritance(p, q) = p \/ new_prio_for_inheritance(p, q) = q
BY MutexAssumption DEF new_prio_for_inheritance, get_new_prio_with_ceiling, is_prio_higher

\* A waiter has its own priority.
LEMMA WaiterPrio ==
  ASSUME IInv, PInv, NEW m \in Mtx, NEW t \in Thread, Linked(mutex[m].wait_q, t)
  PROVE  blk[t] = m /\ prio[t] = base[t]
<1>1. blk[t] = m
  BY DEF IInv, LockInv
<1>2. \A n \in Mtx : mutex[n].owner # t
  BY <1>1 DEF PInv, OwnInv
<1> QED BY <1>1, <1>2 DEF PInv, OwnInv

\* The new priority of the owner is read.
LEMMA PeekStep ==
  ASSUME IInv, k_mutex_lock_peek
  PROVE  IInv' /\ (Single /\ PInv => PInv')
<1> DEFINE c == current
<1>1. /\ c \in Thread /\ blk[c] = NULL /\ UNCHANGED <<base, mutex, prio, blk, tmo, current>>
      /\ loc[c].at = "swap" /\ loc[c].ret # 0
  BY DEF k_mutex_lock_peek, IInv, TypeInv, ThreadInv
<1>2. PICK m \in Mtx : loc[c] = SwapLoc(m, -1)
  BY <1>1, LocProps DEF IInv, TypeInv
<1> DEFINE q == mutex[m].wait_q
           orig == mutex[m].owner_orig_prio
           new == IF q = << >> THEN orig ELSE new_prio_for_inheritance(prio[Head(q)], orig)
<1>3. loc' = [loc EXCEPT ![c] = PeekLoc(m, new)]
  <2>1. loc[c].m = m
    BY <1>2, LocProps
  <2> QED BY <2>1 DEF k_mutex_lock_peek, PeekLoc
<1>4. /\ orig \in Int /\ q \in Seq(Thread) /\ NoDup(q)
      /\ q # << >> => Head(q) \in Thread /\ Linked(q, Head(q)) /\ prio[Head(q)] \in Int
  <2>1. mutex[m] \in MutexState
    BY <1>2 DEF IInv, TypeInv
  <2>2. orig \in Int /\ q \in Seq(Thread) /\ NoDup(q)
    BY <1>2, <2>1 DEF MutexState, IInv, LockInv
  <2> HIDE DEF q
  <2>3. q # << >> => Head(q) \in Thread /\ Linked(q, Head(q))
    BY <2>2, EmptyUnlinked
  <2> QED BY <2>2, <2>3 DEF IInv, TypeInv
<1>5. new \in Int
  BY <1>4, InheritProps
<1> HIDE DEF c, new
<1>6. \A t \in Thread : t # c => loc'[t] = loc[t] /\ loc[t].at # "peeked"
  BY <1>1, <1>3, LocProps DEF IInv, TypeInv, ThreadInv, c
<1>7. loc'[c] = PeekLoc(m, new)
  BY <1>1, <1>3 DEF IInv, TypeInv
<1>8. TypeInv'
  BY <1>1, <1>2, <1>3, <1>5, LocProps DEF IInv, TypeInv
<1>9. LockInv'
  BY <1>1, <1>6, <1>7, LocProps DEF IInv, LockInv
<1>10. ThreadInv'
  BY <1>1, <1>2, <1>6, <1>7, LocProps, MutexAssumption DEF IInv, ThreadInv, c
<1>11. ASSUME Single, PInv PROVE PInv'
  <2>1. OwnInv'
    BY <1>1, <1>11 DEF PInv, OwnInv
  <2>2. \A n \in Mtx, t \in Thread : GivesUp(t, n)' <=> GivesUp(t, n)
    BY <1>1, <1>2, <1>6, <1>7, LocProps DEF GivesUp
  <2>3. ASSUME NEW n \in Mtx, n # m PROVE InheritOf(n)'
    <3>1. \A t \in Thread, p \in Int : loc'[t] = PeekLoc(n, p) => loc[t] = PeekLoc(n, p)
      BY <1>6, <1>7, <2>3, LocProps
    <3> QED BY <1>1, <1>11, <2>2, <3>1, InheritFrame DEF PInv, InheritInv, IInv
  <2>4. InheritOf(m)'
    <3> DEFINE o == mutex[m].owner
               W == BlockedOn(m)
    <3>1. SortedBy(base, q) /\ W' = W /\ InheritOf(m)
      BY <1>1, <1>2, <1>11 DEF PInv, InheritInv, InheritOf, BlockedOn
    <3>2. ASSUME o # NULL PROVE new >= Ceiling /\ Bounds(base, o, W, new) /\ Among(base, o, W, new)
      <4>1. /\ o \in Thread /\ base \in [Thread -> Int] /\ orig = base[o]
            /\ \A t \in Thread : base[t] >= Ceiling /\ base[t] \in Int
        <5>1. mutex[m] \in MutexState
          BY <1>2 DEF IInv, TypeInv
        <5>2. o \in Thread
          BY <3>2, <5>1 DEF MutexState
        <5> QED BY <1>2, <1>11, <3>2, <5>2, MutexAssumption DEF IInv, TypeInv, PInv, OwnInv, Single
      <4>2. \A t \in Thread : t \in W <=> Linked(q, t)
        BY <1>2 DEF IInv, LockInv, BlockedOn
      <4>3. W \in SUBSET Thread
        BY DEF BlockedOn
      <4>4. CASE q = << >>
        <5>1. W = {}
          BY <4>2, <4>3, <4>4 DEF Linked
        <5> QED BY <4>1, <4>4, <5>1 DEF new, Bounds, Among
      <4>5. CASE q # << >>
        <5> DEFINE h == Head(q)
        <5>1. h \in Thread /\ Linked(q, h) /\ prio[h] = base[h]
          BY <1>2, <1>4, <1>11, <4>5, WaiterPrio
        <5>2. \A x : Linked(q, x) => base[h] <= base[x]
          BY <1>4, <3>1, <4>1, <4>5, HeadSorted
        <5>3. new = new_prio_for_inheritance(base[h], base[o])
          BY <4>1, <4>5, <5>1 DEF new
        <5> HIDE DEF h, o, W, q
        <5>4. base[h] \in Int /\ base[o] \in Int /\ base[h] >= Ceiling /\ base[o] >= Ceiling
          BY <4>1, <5>1
        <5>5. /\ new \in Int /\ new <= base[h] /\ new <= base[o]
              /\ new = base[h] \/ new = base[o]
          BY <5>3, <5>4, InheritProps
        <5>6. new >= Ceiling
          BY <5>4, <5>5
        <5>7. ASSUME NEW t \in W PROVE new <= base[t]
          <6>1. base[h] <= base[t] /\ base[t] \in Int
            BY <4>1, <4>2, <4>3, <5>2
          <6> QED BY <5>4, <5>5, <6>1
        <5>8. h \in W
          BY <4>2, <5>1
        <5> QED BY <5>5, <5>6, <5>7, <5>8 DEF Bounds, Among
      <4> QED BY <4>4, <4>5
    <3> HIDE DEF W
    <3>3. \A t \in Thread, p \in Int : loc'[t] = PeekLoc(m, p) => p = new
      BY <1>6, <1>7, LocProps
    <3> QED BY <1>1, <2>2, <3>1, <3>2, <3>3 DEF InheritOf, W
  <2> QED BY <2>1, <2>3, <2>4 DEF PInv, InheritInv
<1> QED BY <1>8, <1>9, <1>10, <1>11 DEF IInv

\* ... and set.
LEMMA TimedOutStep ==
  ASSUME IInv, k_mutex_lock_timed_out
  PROVE  IInv' /\ (Single /\ PInv => PInv')
<1> DEFINE c == current
<1>0. c \in Thread /\ loc[c].at = "peeked"
  BY DEF k_mutex_lock_timed_out, IInv, TypeInv
<1>2. PICK m \in Mtx, new \in Int : loc[c] = PeekLoc(m, new)
  BY <1>0, LocProps DEF IInv, TypeInv
<1> DEFINE o == mutex[m].owner
<1>1. /\ c \in Thread /\ blk[c] = NULL /\ UNCHANGED <<base, mutex, blk, tmo>>
      /\ loc[c].at = "peeked" /\ loc' = [loc EXCEPT ![c] = NotLocking]
      /\ o # NULL => prio' = [prio EXCEPT ![o] = new]
      /\ o = NULL => prio' = prio
  <2>1. loc[c].m = m /\ loc[c].new_prio = new
    BY <1>2, LocProps
  <2> QED BY <1>0, <2>1 DEF k_mutex_lock_timed_out, adjust_owner_prio, IInv, TypeInv, ThreadInv
<1>3. current' = NULL \/ (current' \in Thread /\ blk'[current'] = NULL)
  <2>1. Reschedule(prio', blk, loc')
    BY DEF k_mutex_lock_timed_out
  <2> QED BY <1>1, <2>1, RescheduleProps DEF IInv, TypeInv
<1>4. /\ \A t \in Thread : t # c => loc'[t] = loc[t] /\ loc[t].at # "peeked"
      /\ loc'[c] = NotLocking
  BY <1>1, LocProps DEF IInv, TypeInv, ThreadInv
<1>5. o # NULL => o \in Thread
  <2>1. mutex[m] \in MutexState
    BY <1>2 DEF IInv, TypeInv
  <2> QED BY <2>1 DEF MutexState
<1> HIDE DEF c
<1>6. TypeInv'
  <2>1. prio' \in [Thread -> Int]
    BY <1>1, <1>2 DEF IInv, TypeInv
  <2> QED BY <1>1, <1>3, <2>1, LocProps DEF IInv, TypeInv
<1>7. LockInv'
  BY <1>1, <1>4, LocProps DEF IInv, LockInv
<1>8. ThreadInv'
  BY <1>1, <1>3, <1>4, LocProps, MutexAssumption DEF IInv, ThreadInv
<1>9. ASSUME Single, PInv PROVE PInv'
  <2>1. o # NULL => /\ new >= Ceiling /\ Bounds(base, o, BlockedOn(m), new)
                    /\ (\A u \in Thread : GivesUp(u, m) => u = c) => Among(base, o, BlockedOn(m), new)
    BY <1>1, <1>2, <1>9 DEF PInv, InheritInv, InheritOf
  <2>2. \A t \in Thread : t # o => prio'[t] = prio[t]
    BY <1>1, <1>5 DEF IInv, TypeInv
  <2>3. o # NULL => prio'[o] = new
    BY <1>1, <1>5 DEF IInv, TypeInv
  <2>4. OwnInv'
    BY <1>1, <1>2, <1>5, <1>9, <2>1, <2>2, <2>3 DEF PInv, OwnInv
  <2>5. \A n \in Mtx, t \in Thread : GivesUp(t, n)' <=> GivesUp(t, n) /\ t # c
    BY <1>1, <1>4, LocProps DEF GivesUp
  <2>6. \A n \in Mtx : n # m => ~GivesUp(c, n)
    BY <1>2, LocProps DEF GivesUp
  <2>7. \A t \in Thread, n \in Mtx, p \in Int : loc'[t] # PeekLoc(n, p)
    BY <1>4, LocProps
  <2>8. ASSUME NEW n \in Mtx, n # m PROVE InheritOf(n)'
    <3>1. mutex[n].owner # NULL => prio'[mutex[n].owner] = prio[mutex[n].owner]
      <4>1. mutex[n].owner # NULL => mutex[n].owner # o
        BY <1>2, <1>9, <2>8 DEF PInv, OwnInv
      <4>2. mutex[n].owner \in Thread \cup {NULL}
        BY DEF IInv, TypeInv, MutexState
      <4> QED BY <2>2, <4>1, <4>2
    <3>2. \A t \in Thread : GivesUp(t, n)' <=> GivesUp(t, n)
      BY <2>5, <2>6, <2>8
    <3> QED BY <1>1, <1>9, <2>7, <3>1, <3>2, InheritFrame DEF PInv, InheritInv, IInv
  <2>9. InheritOf(m)'
    <3>1. BlockedOn(m)' = BlockedOn(m)
      BY <1>1 DEF BlockedOn
    <3>2. SortedBy(base, mutex[m].wait_q)
      BY <1>2, <1>9 DEF PInv, InheritInv, InheritOf
    <3> QED BY <1>1, <1>2, <2>1, <2>3, <2>5, <2>7, <3>1, <3>2 DEF InheritOf
  <2> QED BY <2>4, <2>8, <2>9 DEF PInv, InheritInv
<1> QED BY <1>6, <1>7, <1>8, <1>9 DEF IInv

\* A thread queues up for another's mutex, and the owner inherits its priority.
LEMMA WaitStep ==
  ASSUME IInv, NEW m \in Mtx, NEW forever \in BOOLEAN, k_mutex_lock_wait(m, forever)
  PROVE  IInv' /\ (Single /\ PInv => PInv')
<1> DEFINE c == current
           o == mutex[m].owner
           q == mutex[m].wait_q
           C == {w \in Thread : is_prio_higher(prio[c], prio[w])}
           ins == sys_dlist_insert_at(q, c, C)
           new == new_prio_for_inheritance(prio[c], prio[o])
<1>1. /\ c \in Thread /\ loc[c] = NotLocking /\ blk[c] = NULL /\ o # c
      /\ mutex[m].lock_count # 0 /\ UNCHANGED base
  BY DEF k_mutex_lock_wait, Call, IInv, TypeInv, ThreadInv
<1>2. mutex[m] \in MutexState /\ o \in Thread /\ q \in Seq(Thread) /\ NoDup(q) /\ ~Linked(q, c)
  <2>1. mutex[m] \in MutexState
    BY DEF IInv, TypeInv
  <2>2. o # NULL /\ NoDup(q) /\ ~Linked(q, c)
    BY <1>1, <2>1, MutexAssumption DEF IInv, LockInv, MutexState
  <2> QED BY <2>1, <2>2 DEF MutexState
<1>3. /\ prio' = [prio EXCEPT ![o] = new]
      /\ mutex' = [mutex EXCEPT ![m].wait_q = ins]
      /\ blk' = [blk EXCEPT ![c] = m] /\ tmo' = [tmo EXCEPT ![c] = ~forever]
      /\ loc' = [loc EXCEPT ![c] = SwapLoc(m, -1)]
  BY DEF k_mutex_lock_wait, adjust_owner_prio, WaitInsert, SwapLoc
<1>4. current' = NULL \/ (current' \in Thread /\ blk'[current'] = NULL)
  BY SwapProps DEF k_mutex_lock_wait
<1>5. \A t \in Thread : loc[t].at # "peeked"
  BY <1>1, LocProps DEF IInv, ThreadInv
<1>6. new \in Int
  BY <1>1, <1>2, InheritProps DEF IInv, TypeInv
<1> HIDE DEF c, o, q, C
<1>7. /\ ins \in Seq(Thread) /\ ins # << >> /\ NoDup(ins)
      /\ \A x : Linked(ins, x) <=> Linked(q, x) \/ x = c
  BY <1>1, <1>2, InsertAtProps
<1> HIDE DEF ins, new
<1>8. /\ mutex' \in [Mtx -> MutexState]
      /\ \A n \in Mtx : n # m => mutex'[n] = mutex[n]
      /\ mutex'[m].owner = o /\ mutex'[m].lock_count = mutex[m].lock_count
      /\ mutex'[m].owner_orig_prio = mutex[m].owner_orig_prio /\ mutex'[m].wait_q = ins
  BY <1>2, <1>3, <1>7 DEF IInv, TypeInv, MutexState, o
<1>9. /\ \A t \in Thread : t # c => loc'[t] = loc[t] /\ blk'[t] = blk[t] /\ tmo'[t] = tmo[t]
      /\ loc'[c] = SwapLoc(m, -1) /\ blk'[c] = m
      /\ \A t \in Thread : t # o => prio'[t] = prio[t]
      /\ prio'[o] = new
  BY <1>1, <1>2, <1>3 DEF IInv, TypeInv
<1>10. TypeInv'
  <2>1. prio' \in [Thread -> Int] /\ tmo' \in [Thread -> BOOLEAN]
    BY <1>2, <1>3, <1>6 DEF IInv, TypeInv
  <2>2. loc' \in [Thread -> LocState] /\ blk' \in [Thread -> Mtx \cup {"sleep", NULL}]
    BY <1>1, <1>3, LocProps DEF IInv, TypeInv
  <2> QED BY <1>1, <1>4, <1>8, <2>1, <2>2 DEF IInv, TypeInv
<1>11. LockInv'
  <2>1. ASSUME NEW n \in Mtx, n # m
        PROVE  /\ \A t \in Thread : Linked(mutex'[n].wait_q, t) <=> blk'[t] = n
               /\ \A t \in Thread : loc'[t] = SwapLoc(n, 0) => mutex'[n].owner = t
    BY <1>1, <1>8, <1>9, <2>1, LocProps, MutexAssumption, SMTT(60) DEF IInv, LockInv
  <2>2. /\ \A t \in Thread : Linked(mutex'[m].wait_q, t) <=> blk'[t] = m
        /\ \A t \in Thread : loc'[t] = SwapLoc(m, 0) => mutex'[m].owner = t
    <3>1. \A t \in Thread : Linked(q, t) <=> blk[t] = m
      BY DEF IInv, LockInv, q
    <3>2. \A t \in Thread : loc[t] = SwapLoc(m, 0) => o = t
      BY DEF IInv, LockInv, o
    <3>3. SwapLoc(m, -1) # SwapLoc(m, 0)
      BY LocProps
    <3> QED BY <1>1, <1>7, <1>8, <1>9, <3>1, <3>2, <3>3
  <2> QED BY <1>2, <1>7, <1>8, <2>1, <2>2, MutexAssumption DEF IInv, LockInv, o
<1>12. ThreadInv'
  BY <1>4, <1>5, <1>9, LocProps, MutexAssumption DEF IInv, ThreadInv
<1>13. ASSUME Single, PInv PROVE PInv'
  <2>1. \A n \in Mtx : mutex[n].owner # c
    BY <1>13, HeldOne DEF k_mutex_lock_wait, Single, c
  <2>2. /\ prio[c] = base[c] /\ prio[c] \in Int /\ prio[o] \in Int
        /\ prio[c] >= Ceiling /\ prio[o] >= Ceiling
    BY <1>1, <1>2, <1>13, <2>1 DEF PInv, OwnInv, IInv, TypeInv
  <2>3. new <= prio[c] /\ new <= prio[o] /\ (new = prio[c] \/ new = prio[o]) /\ new >= Ceiling
    BY <2>2, InheritProps DEF new
  <2>4. OwnInv'
    <3>1. \A n \in Mtx : mutex'[n].owner = mutex[n].owner /\ mutex'[n].owner_orig_prio = mutex[n].owner_orig_prio
      BY <1>8 DEF o
    <3>2. /\ \A n, k \in Mtx : mutex[n].owner = mutex[k].owner /\ mutex[n].owner # NULL => n = k
          /\ \A n \in Mtx, t \in Thread : mutex[n].owner = t => blk[t] \notin Mtx
          /\ \A t \in Thread : prio[t] >= Ceiling
          /\ \A t \in Thread : (\A n \in Mtx : mutex[n].owner # t) => prio[t] = base[t]
          /\ \A n \in Mtx : mutex[n].owner # NULL => mutex[n].owner_orig_prio = base[mutex[n].owner]
      BY <1>13 DEF PInv, OwnInv
    <3>3. \A t \in Thread : prio'[t] >= Ceiling
      BY <1>9, <2>3, <3>2
    <3>4. \A t \in Thread : (\A n \in Mtx : mutex[n].owner # t) => prio'[t] = base[t]
      BY <1>9, <3>2 DEF o
    <3>5. \A n \in Mtx, t \in Thread : mutex[n].owner = t => blk'[t] \notin Mtx
      BY <1>9, <2>1, <3>2
    <3> QED BY <1>1, <3>1, <3>2, <3>3, <3>4, <3>5 DEF OwnInv
  <2>5. \A n \in Mtx, t \in Thread : GivesUp(t, n)' <=> GivesUp(t, n)
    BY <1>1, <1>9, LocProps, MutexAssumption DEF GivesUp
  <2>6. \A t \in Thread, n \in Mtx, p \in Int : loc'[t] # PeekLoc(n, p)
    BY <1>5, <1>9, LocProps
  <2>7. ASSUME NEW n \in Mtx, n # m PROVE InheritOf(n)'
    <3>1. mutex[n].owner # NULL => prio'[mutex[n].owner] = prio[mutex[n].owner]
      <4>1. mutex[n].owner # NULL => mutex[n].owner # o
        BY <1>13, <2>7 DEF PInv, OwnInv, o
      <4>2. mutex[n].owner \in Thread \cup {NULL}
        BY DEF IInv, TypeInv, MutexState
      <4> QED BY <1>9, <4>1, <4>2
    <3>2. \A t \in Thread : blk'[t] = n <=> blk[t] = n
      BY <1>1, <1>9, <2>7, MutexAssumption
    <3> QED BY <1>1, <1>8, <1>13, <2>5, <2>6, <2>7, <3>1, <3>2, InheritFrame DEF PInv, InheritInv, IInv
  <2>8. InheritOf(m)'
    <3>1. BlockedOn(m)' = BlockedOn(m) \cup {c}
      BY <1>1, <1>9 DEF BlockedOn
    <3>2. /\ SortedBy(base, q) /\ Bounds(base, o, BlockedOn(m), prio[o])
          /\ (\A t \in Thread : ~GivesUp(t, m)) => Among(base, o, BlockedOn(m), prio[o])
      BY <1>2, <1>13, MutexAssumption DEF PInv, InheritInv, InheritOf, q, o
    <3>3. base \in [Thread -> Int] /\ \A t \in Thread : base[t] \in Int
      BY MutexAssumption DEF IInv, TypeInv
    <3>4. SortedBy(base, ins)
      <4>1. ASSUME NEW i \in 1..Len(q) PROVE q[i] \in C <=> base[c] < base[q[i]]
        <5>1. q[i] \in Thread /\ Linked(q, q[i])
          BY <1>2, ElementOfSeq DEF Linked
        <5>2. prio[q[i]] = base[q[i]]
          BY <1>13, <5>1, WaiterPrio DEF q
        <5> QED BY <2>2, <5>1, <5>2 DEF C, is_prio_higher
      <4> QED BY <1>1, <1>2, <3>2, <3>3, <4>1, InsertSorted DEF ins
    <3>5. Bounds(base, o, BlockedOn(m)', new)
      <4>1. prio[o] <= base[o] /\ \A t \in BlockedOn(m) : prio[o] <= base[t] /\ t \in Thread
        BY <3>2 DEF Bounds, BlockedOn
      <4>2. new <= base[o]
        BY <1>2, <1>6, <2>2, <2>3, <3>3, <4>1
      <4>3. ASSUME NEW t \in BlockedOn(m) \cup {c} PROVE new <= base[t]
        BY <1>1, <1>6, <2>2, <2>3, <3>3, <4>1
      <4> QED BY <3>1, <4>2, <4>3 DEF Bounds
    <3>6. (\A t \in Thread : ~GivesUp(t, m)) => Among(base, o, BlockedOn(m)', new)
      BY <2>2, <2>3, <3>1, <3>2 DEF Among
    <3> QED BY <1>1, <1>8, <1>9, <2>5, <2>6, <3>4, <3>5, <3>6 DEF InheritOf
  <2> QED BY <2>4, <2>7, <2>8 DEF PInv, InheritInv
<1> QED BY <1>10, <1>11, <1>12, <1>13 DEF IInv

\* A nested lock is undone.
LEMMA UnlockNested ==
  ASSUME IInv, NEW m \in Mtx, k_mutex_unlock(m), mutex[m].lock_count > 1
  PROVE  IInv' /\ (Single /\ PInv => PInv')
<1> DEFINE c == current
<1>1. /\ c \in Thread /\ loc[c] = NotLocking /\ blk[c] = NULL /\ mutex[m].owner = c
      /\ mutex[m] \in MutexState /\ mutex[m].lock_count \in Nat
  BY DEF k_mutex_unlock, Call, IInv, TypeInv, ThreadInv, MutexState
<1>2. /\ mutex' = [mutex EXCEPT ![m].lock_count = @ - 1]
      /\ UNCHANGED <<base, prio, blk, tmo, loc>> /\ Reschedule(prio', blk', loc')
  BY <1>1 DEF k_mutex_unlock
<1>3. /\ mutex' \in [Mtx -> MutexState]
      /\ \A n \in Mtx : n # m => mutex'[n] = mutex[n]
      /\ mutex'[m].owner = c /\ mutex'[m].lock_count = mutex[m].lock_count - 1
      /\ mutex'[m].owner_orig_prio = mutex[m].owner_orig_prio
      /\ mutex'[m].wait_q = mutex[m].wait_q
  <2> DEFINE r == [owner |-> c, lock_count |-> mutex[m].lock_count - 1,
                   owner_orig_prio |-> mutex[m].owner_orig_prio, wait_q |-> mutex[m].wait_q]
  <2>1. mutex[m].lock_count - 1 \in Nat
    BY <1>1
  <2>2. r \in MutexState
    BY <1>1, <2>1 DEF MutexState
  <2>3. [mutex[m] EXCEPT !.lock_count = @ - 1] = r
    BY <1>1 DEF MutexState
  <2>4. mutex' = [mutex EXCEPT ![m] = r]
    BY <1>2, <2>3
  <2> QED BY <2>2, <2>4 DEF IInv, TypeInv
<1>4. current' = NULL \/ (current' \in Thread /\ blk'[current'] = NULL)
  BY <1>1, <1>2, RescheduleProps DEF IInv, TypeInv
<1>5. \A t \in Thread : loc[t].at # "peeked"
  BY <1>1, LocProps DEF IInv, ThreadInv
<1> HIDE DEF c
<1>6. TypeInv'
  BY <1>2, <1>3, <1>4 DEF IInv, TypeInv
<1>7. LockInv'
  BY <1>1, <1>2, <1>3, MutexAssumption DEF IInv, LockInv
<1>8. ThreadInv'
  BY <1>2, <1>4, <1>5, MutexAssumption DEF IInv, ThreadInv
<1>9. ASSUME Single, PInv PROVE PInv'
  <2>1. \A n \in Mtx : /\ mutex'[n].owner = mutex[n].owner /\ mutex'[n].wait_q = mutex[n].wait_q
                       /\ mutex'[n].owner_orig_prio = mutex[n].owner_orig_prio
    BY <1>1, <1>3
  <2>2. OwnInv'
    BY <1>2, <1>9, <2>1 DEF PInv, OwnInv
  <2>3. \A n \in Mtx, t \in Thread : GivesUp(t, n)' <=> GivesUp(t, n)
    BY <1>2 DEF GivesUp
  <2>4. ASSUME NEW n \in Mtx PROVE InheritOf(n)'
    BY <1>2, <1>9, <2>1, <2>3, InheritFrame DEF PInv, InheritInv, IInv
  <2> QED BY <2>2, <2>4 DEF PInv, InheritInv
<1> QED BY <1>6, <1>7, <1>8, <1>9 DEF IInv

\* The last lock of a mutex nobody waits for is undone.
LEMMA UnlockFree ==
  ASSUME IInv, NEW m \in Mtx, k_mutex_unlock(m), mutex[m].lock_count = 1, mutex[m].wait_q = << >>
  PROVE  IInv' /\ (Single /\ PInv => PInv')
<1> DEFINE c == current
           orig == mutex[m].owner_orig_prio
<1>1. /\ c \in Thread /\ loc[c] = NotLocking /\ blk[c] = NULL /\ mutex[m].owner = c
      /\ mutex[m] \in MutexState /\ orig \in Int
  BY DEF k_mutex_unlock, Call, IInv, TypeInv, ThreadInv, MutexState
<1>2. /\ mutex' = [mutex EXCEPT ![m].lock_count = 0, ![m].owner = NULL]
      /\ prio' = [prio EXCEPT ![c] = orig]
      /\ UNCHANGED <<base, blk, tmo, loc>> /\ Reschedule(prio', blk', loc')
  BY <1>1 DEF k_mutex_unlock, adjust_owner_prio
<1>3. /\ mutex' \in [Mtx -> MutexState]
      /\ \A n \in Mtx : n # m => mutex'[n] = mutex[n]
      /\ mutex'[m].owner = NULL /\ mutex'[m].lock_count = 0
      /\ mutex'[m].wait_q = mutex[m].wait_q
  <2> DEFINE r == [owner |-> NULL, lock_count |-> 0, owner_orig_prio |-> orig,
                   wait_q |-> mutex[m].wait_q]
  <2>1. r \in MutexState
    BY <1>1 DEF MutexState
  <2>2. [[mutex[m] EXCEPT !.lock_count = 0] EXCEPT !.owner = NULL] = r
    <3>1. \A x \in MutexState : [x EXCEPT !.lock_count = 0] =
            [owner |-> x.owner, lock_count |-> 0, owner_orig_prio |-> x.owner_orig_prio,
             wait_q |-> x.wait_q]
      BY DEF MutexState
    <3>2. [mutex[m] EXCEPT !.lock_count = 0] =
            [owner |-> mutex[m].owner, lock_count |-> 0, owner_orig_prio |-> orig,
             wait_q |-> mutex[m].wait_q]
      BY <1>1, <3>1
    <3>3. [[owner |-> mutex[m].owner, lock_count |-> 0, owner_orig_prio |-> orig,
            wait_q |-> mutex[m].wait_q] EXCEPT !.owner = NULL] = r
      OBVIOUS
    <3> HIDE DEF r, orig
    <3> QED BY <3>2, <3>3
  <2>3. mutex' = [mutex EXCEPT ![m] = [[mutex[m] EXCEPT !.lock_count = 0] EXCEPT !.owner = NULL]]
    BY <1>2 DEF IInv, TypeInv
  <2>4. mutex' = [mutex EXCEPT ![m] = r]
    BY <2>2, <2>3
  <2> QED BY <2>1, <2>4 DEF IInv, TypeInv
<1>4. current' = NULL \/ (current' \in Thread /\ blk'[current'] = NULL)
  BY <1>1, <1>2, RescheduleProps DEF IInv, TypeInv
<1>5. \A t \in Thread : loc[t].at # "peeked"
  BY <1>1, LocProps DEF IInv, ThreadInv
<1> HIDE DEF c
<1>6. TypeInv'
  <2>1. prio' \in [Thread -> Int]
    BY <1>1, <1>2 DEF IInv, TypeInv
  <2> QED BY <1>2, <1>3, <1>4, <2>1 DEF IInv, TypeInv
<1>7. LockInv'
  <2>1. \A t \in Thread : loc[t] # SwapLoc(m, 0)
    BY <1>1, LocProps DEF IInv, LockInv
  <2> QED BY <1>1, <1>2, <1>3, <2>1 DEF IInv, LockInv
<1>8. ThreadInv'
  BY <1>2, <1>4, <1>5, MutexAssumption DEF IInv, ThreadInv
<1>9. ASSUME Single, PInv PROVE PInv'
  <2>1. orig = base[c] /\ \A n \in Mtx : mutex[n].owner = c => n = m
    BY <1>1, <1>9, MutexAssumption DEF PInv, OwnInv
  <2>2. prio'[c] = base[c] /\ \A t \in Thread : t # c => prio'[t] = prio[t]
    BY <1>1, <1>2, <2>1 DEF IInv, TypeInv
  <2>3. base[c] >= Ceiling
    BY <1>1, <1>9, MutexAssumption DEF Single, IInv, TypeInv
  <2>4. OwnInv'
    <3>1. /\ \A n, k \in Mtx : mutex[n].owner = mutex[k].owner /\ mutex[n].owner # NULL => n = k
          /\ \A n \in Mtx, t \in Thread : mutex[n].owner = t => blk[t] \notin Mtx
          /\ \A t \in Thread : prio[t] >= Ceiling
          /\ \A t \in Thread : (\A n \in Mtx : mutex[n].owner # t) => prio[t] = base[t]
          /\ \A n \in Mtx : mutex[n].owner # NULL => mutex[n].owner_orig_prio = base[mutex[n].owner]
      BY <1>9 DEF PInv, OwnInv
    <3>2. \A t \in Thread : (\A n \in Mtx : mutex'[n].owner # t) => prio'[t] = base[t]
      BY <1>1, <1>3, <2>1, <2>2, <3>1
    <3>3. \A n \in Mtx, t \in Thread : mutex'[n].owner = t => blk[t] \notin Mtx
      BY <1>3, <3>1, MutexAssumption
    <3>4. \A t \in Thread : prio'[t] >= Ceiling
      BY <2>2, <2>3, <3>1
    <3> QED BY <1>2, <1>3, <3>1, <3>2, <3>3, <3>4 DEF OwnInv
  <2>5. \A n \in Mtx, t \in Thread : GivesUp(t, n)' <=> GivesUp(t, n)
    BY <1>2 DEF GivesUp
  <2>6. ASSUME NEW n \in Mtx, n # m PROVE InheritOf(n)'
    <3>1. mutex[n].owner # NULL => prio'[mutex[n].owner] = prio[mutex[n].owner]
      <4>1. mutex[n].owner \in Thread \cup {NULL} /\ mutex[n].owner # c
        BY <2>1, <2>6 DEF IInv, TypeInv, MutexState
      <4> QED BY <2>2, <4>1
    <3> QED BY <1>2, <1>3, <1>9, <2>5, <2>6, <3>1, InheritFrame DEF PInv, InheritInv, IInv
  <2>7. InheritOf(m)'
    BY <1>2, <1>3, <1>9 DEF InheritOf, InheritInv, PInv
  <2> QED BY <2>4, <2>6, <2>7 DEF PInv, InheritInv
<1> QED BY <1>6, <1>7, <1>8, <1>9 DEF IInv

\* The mutex is handed to the first waiter.
LEMMA UnlockHandover ==
  ASSUME IInv, NEW m \in Mtx, k_mutex_unlock(m), mutex[m].lock_count = 1, mutex[m].wait_q # << >>
  PROVE  IInv' /\ (Single /\ PInv => PInv')
<1> DEFINE c == current
           orig == mutex[m].owner_orig_prio
           q == mutex[m].wait_q
           tail == Tail(q)
<1>1. /\ c \in Thread /\ loc[c] = NotLocking /\ blk[c] = NULL /\ mutex[m].owner = c
      /\ mutex[m] \in MutexState /\ orig \in Int /\ q \in Seq(Thread)
  BY DEF k_mutex_unlock, Call, IInv, TypeInv, ThreadInv, MutexState
<1>2. NoDup(q) /\ \A t \in Thread : Linked(q, t) <=> blk[t] = m
  BY DEF IInv, LockInv
<1>3. PICK h \in Thread : h = Head(q) /\ Linked(q, h)
  BY <1>1, <1>2, TailProps
<1>4. /\ tail \in Seq(Thread) /\ NoDup(tail)
      /\ \A x : Linked(tail, x) <=> Linked(q, x) /\ x # h
  BY <1>1, <1>2, <1>3, TailProps
<1>5. blk[h] = m /\ loc[h] = SwapLoc(m, -1) /\ h # c /\ h # NULL
  BY <1>1, <1>2, <1>3, MutexAssumption DEF IInv, ThreadInv
<1>6. /\ mutex' = [mutex EXCEPT ![m] = [owner |-> h, lock_count |-> 1,
                                        owner_orig_prio |-> prio'[h], wait_q |-> tail]]
      /\ prio' = [prio EXCEPT ![c] = orig]
      /\ blk' = [blk EXCEPT ![h] = NULL] /\ tmo' = [tmo EXCEPT ![h] = FALSE]
      /\ loc' = [loc EXCEPT ![h].ret = 0]
      /\ UNCHANGED base /\ Reschedule(prio', blk', loc')
  BY <1>1, <1>3 DEF k_mutex_unlock, adjust_owner_prio
<1>7. loc' = [loc EXCEPT ![h] = SwapLoc(m, 0)]
  <2>1. [loc[h] EXCEPT !.ret = 0] = SwapLoc(m, 0)
    BY <1>5 DEF SwapLoc
  <2> QED BY <1>6, <2>1
<1>8. current' = NULL \/ (current' \in Thread /\ blk'[current'] = NULL)
  BY <1>1, <1>6, RescheduleProps DEF IInv, TypeInv
<1>9. \A t \in Thread : loc[t].at # "peeked"
  BY <1>1, LocProps DEF IInv, ThreadInv
<1> HIDE DEF c, orig, q, tail
<1>10. /\ \A t \in Thread : t # h => loc'[t] = loc[t] /\ blk'[t] = blk[t] /\ tmo'[t] = tmo[t]
       /\ loc'[h] = SwapLoc(m, 0) /\ blk'[h] = NULL /\ ~tmo'[h]
       /\ \A t \in Thread : t # c => prio'[t] = prio[t]
       /\ prio'[c] = orig
  BY <1>1, <1>6, <1>7 DEF IInv, TypeInv
<1>11. /\ mutex' \in [Mtx -> MutexState]
       /\ \A n \in Mtx : n # m => mutex'[n] = mutex[n]
       /\ mutex'[m].owner = h /\ mutex'[m].lock_count = 1
       /\ mutex'[m].owner_orig_prio = prio[h] /\ mutex'[m].wait_q = tail
  <2>1. prio'[h] = prio[h] /\ prio[h] \in Int
    BY <1>5, <1>10 DEF IInv, TypeInv
  <2>2. [owner |-> h, lock_count |-> 1, owner_orig_prio |-> prio[h], wait_q |-> tail] \in MutexState
    BY <1>4, <2>1 DEF MutexState
  <2> QED BY <1>6, <2>1, <2>2 DEF IInv, TypeInv
<1>12. TypeInv'
  <2>1. prio' \in [Thread -> Int] /\ tmo' \in [Thread -> BOOLEAN]
    BY <1>1, <1>6 DEF IInv, TypeInv
  <2>2. loc' \in [Thread -> LocState] /\ blk' \in [Thread -> Mtx \cup {"sleep", NULL}]
    BY <1>6, <1>7, LocProps, ZenonT(60) DEF IInv, TypeInv
  <2> QED BY <1>6, <1>8, <1>11, <2>1, <2>2 DEF IInv, TypeInv
<1>13. LockInv'
  <2>1. \A t \in Thread : loc[t] # SwapLoc(m, 0)
    BY <1>1, LocProps DEF IInv, LockInv
  <2>2. ASSUME NEW n \in Mtx, n # m
        PROVE  /\ \A t \in Thread : Linked(mutex'[n].wait_q, t) <=> blk'[t] = n
               /\ \A t \in Thread : loc'[t] = SwapLoc(n, 0) => mutex'[n].owner = t
    <3>1. SwapLoc(m, 0) # SwapLoc(n, 0)
      BY <2>2, LocProps
    <3> QED BY <1>5, <1>10, <1>11, <2>2, <3>1, MutexAssumption DEF IInv, LockInv
  <2>3. \A t \in Thread : Linked(mutex'[m].wait_q, t) <=> blk'[t] = m
    BY <1>2, <1>4, <1>10, <1>11, MutexAssumption
  <2>4. \A t \in Thread : loc'[t] = SwapLoc(m, 0) => mutex'[m].owner = t
    BY <1>10, <1>11, <2>1
  <2> QED BY <1>4, <1>5, <1>11, <2>2, <2>3, <2>4 DEF IInv, LockInv
<1>14. ThreadInv'
  BY <1>5, <1>8, <1>9, <1>10, LocProps, MutexAssumption DEF IInv, ThreadInv
<1>15. ASSUME Single, PInv PROVE PInv'
  <2>1. orig = base[c] /\ \A n \in Mtx : mutex[n].owner = c => n = m
    BY <1>1, <1>15, MutexAssumption DEF PInv, OwnInv, orig
  <2>2. prio[h] = base[h] /\ \A n \in Mtx : mutex[n].owner # h
    BY <1>5, <1>15 DEF PInv, OwnInv
  <2>3. /\ base \in [Thread -> Int] /\ \A t \in Thread : base[t] >= Ceiling /\ base[t] \in Int
    BY <1>15, MutexAssumption DEF Single, IInv, TypeInv
  <2>4. OwnInv'
    <3>1. /\ \A n, k \in Mtx : mutex[n].owner = mutex[k].owner /\ mutex[n].owner # NULL => n = k
          /\ \A n \in Mtx, t \in Thread : mutex[n].owner = t => blk[t] \notin Mtx
          /\ \A t \in Thread : prio[t] >= Ceiling
          /\ \A t \in Thread : (\A n \in Mtx : mutex[n].owner # t) => prio[t] = base[t]
          /\ \A n \in Mtx : mutex[n].owner # NULL => mutex[n].owner_orig_prio = base[mutex[n].owner]
      BY <1>15 DEF PInv, OwnInv
    <3>2. \A t \in Thread : (\A n \in Mtx : mutex'[n].owner # t) => prio'[t] = base[t]
      BY <1>1, <1>10, <1>11, <2>1, <3>1
    <3>3. \A n \in Mtx, t \in Thread : mutex'[n].owner = t => blk'[t] \notin Mtx
      BY <1>5, <1>10, <1>11, <2>2, <3>1, MutexAssumption
    <3>4. \A t \in Thread : prio'[t] >= Ceiling
      BY <1>1, <1>10, <2>1, <2>3, <3>1
    <3>5. \A n, k \in Mtx : mutex'[n].owner = mutex'[k].owner /\ mutex'[n].owner # NULL => n = k
      BY <1>11, <2>2, <3>1
    <3>6. \A n \in Mtx : mutex'[n].owner # NULL => mutex'[n].owner_orig_prio = base[mutex'[n].owner]
      BY <1>11, <2>2, <3>1
    <3> QED BY <1>6, <3>2, <3>3, <3>4, <3>5, <3>6 DEF OwnInv
  <2>5. \A n \in Mtx, t \in Thread : GivesUp(t, n)' <=> GivesUp(t, n)
    <3>1. \A n \in Mtx : SwapLoc(m, 0) # SwapLoc(n, -1) /\ SwapLoc(m, 0).at # "peeked"
      BY LocProps
    <3> QED BY <1>5, <1>10, <3>1, MutexAssumption DEF GivesUp
  <2>6. \A t \in Thread, n \in Mtx, p \in Int : loc'[t] # PeekLoc(n, p)
    BY <1>9, <1>10, LocProps, SMTT(60)
  <2>7. ASSUME NEW n \in Mtx, n # m PROVE InheritOf(n)'
    <3>1. mutex[n].owner # NULL => prio'[mutex[n].owner] = prio[mutex[n].owner]
      <4>1. mutex[n].owner \in Thread \cup {NULL} /\ mutex[n].owner # c
        BY <2>1, <2>7 DEF IInv, TypeInv, MutexState
      <4> QED BY <1>10, <4>1
    <3>2. \A t \in Thread : blk'[t] = n <=> blk[t] = n
      BY <1>5, <1>10, <2>7, MutexAssumption
    <3> QED BY <1>6, <1>11, <1>15, <2>5, <2>6, <2>7, <3>1, <3>2, InheritFrame DEF PInv, InheritInv, IInv
  <2>8. InheritOf(m)'
    <3>1. SortedBy(base, q)
      BY <1>15 DEF PInv, InheritInv, InheritOf, q
    <3>2. SortedBy(base, tail) /\ \A x : Linked(q, x) => base[h] <= base[x]
      BY <1>1, <1>3, <2>3, <3>1, HeadSorted DEF tail, q
    <3>3. \A t \in BlockedOn(m)' : t \in Thread /\ Linked(q, t)
      BY <1>2, <1>10, MutexAssumption DEF BlockedOn
    <3>4. prio'[h] = base[h]
      BY <1>5, <1>10, <2>2
    <3>5. Bounds(base, h, BlockedOn(m)', base[h]) /\ Among(base, h, BlockedOn(m)', base[h])
      BY <2>3, <3>2, <3>3 DEF Bounds, Among
    <3> QED BY <1>6, <1>11, <2>6, <3>2, <3>4, <3>5 DEF InheritOf
  <2> QED BY <2>4, <2>7, <2>8 DEF PInv, InheritInv
<1> QED BY <1>12, <1>13, <1>14, <1>15 DEF IInv

\* A sleep or a wait times out.
LEMMA TimeoutStep ==
  ASSUME IInv, NEW t \in Thread, handle_one_timeout(t)
  PROVE  IInv' /\ (Single /\ PInv => PInv')
<1>1. /\ tmo[t] /\ tmo' = [tmo EXCEPT ![t] = FALSE] /\ blk' = [blk EXCEPT ![t] = NULL]
      /\ mutex' = [m \in Mtx |-> [mutex[m] EXCEPT !.wait_q = sys_dlist_remove(mutex[m].wait_q, t)]]
      /\ UNCHANGED <<base, prio, loc>> /\ Reschedule(prio, blk', loc)
  BY DEF handle_one_timeout
<1>2. blk[t] # NULL
  BY <1>1 DEF IInv, ThreadInv
<1>3. ASSUME NEW n \in Mtx
      PROVE  /\ mutex'[n] \in MutexState
             /\ mutex'[n].owner = mutex[n].owner /\ mutex'[n].lock_count = mutex[n].lock_count
             /\ mutex'[n].owner_orig_prio = mutex[n].owner_orig_prio
             /\ mutex'[n].wait_q = sys_dlist_remove(mutex[n].wait_q, t)
             /\ mutex[n].wait_q \in Seq(Thread) /\ mutex'[n].wait_q \in Seq(Thread)
             /\ NoDup(mutex'[n].wait_q)
             /\ \A x : Linked(mutex'[n].wait_q, x) <=> Linked(mutex[n].wait_q, x) /\ x # t
  <2> DEFINE q == mutex[n].wait_q
             l == sys_dlist_remove(q, t)
  <2>1. mutex[n] \in MutexState /\ q \in Seq(Thread) /\ NoDup(q)
    BY DEF IInv, TypeInv, MutexState, LockInv
  <2>2. mutex'[n] = [mutex[n] EXCEPT !.wait_q = l]
    BY <1>1
  <2> HIDE DEF q
  <2>3. l \in Seq(Thread) /\ NoDup(l) /\ \A x : Linked(l, x) <=> Linked(q, x) /\ x # t
    BY <2>1, UnlinkProps
  <2> HIDE DEF l
  <2>4. mutex'[n] \in MutexState
    BY <2>1, <2>2, <2>3 DEF MutexState
  <2>5. /\ mutex'[n].owner = mutex[n].owner /\ mutex'[n].lock_count = mutex[n].lock_count
        /\ mutex'[n].owner_orig_prio = mutex[n].owner_orig_prio /\ mutex'[n].wait_q = l
    BY <2>1, <2>2 DEF MutexState
  <2> QED BY <2>1, <2>3, <2>4, <2>5 DEF l, q
<1>4. /\ current' = NULL \/ (current' \in Thread /\ blk'[current'] = NULL)
      /\ \A u \in Thread : loc[u].at = "peeked" => current' = u /\ current = u
  <2>1. /\ current' = NULL \/ (current' \in Thread /\ blk'[current'] = NULL)
        /\ current # NULL /\ blk'[current] = NULL /\ loc[current] # NotLocking => current' = current
    BY <1>1, RescheduleProps DEF IInv, TypeInv
  <2>2. ASSUME NEW u \in Thread, loc[u].at = "peeked" PROVE current' = u /\ current = u
    <3>1. current = u /\ blk[u] = NULL /\ u # NULL /\ loc[u] # NotLocking
      BY <2>2, LocProps, MutexAssumption DEF IInv, ThreadInv
    <3>2. blk'[u] = NULL
      BY <1>1, <3>1 DEF IInv, TypeInv
    <3> QED BY <2>1, <3>1, <3>2
  <2> QED BY <2>1, <2>2
<1>5. \A u \in Thread : /\ u # t => blk'[u] = blk[u] /\ tmo'[u] = tmo[u]
                        /\ blk'[t] = NULL /\ ~tmo'[t]
  BY <1>1 DEF IInv, TypeInv
<1>6. TypeInv'
  <2>1. mutex' \in [Mtx -> MutexState]
    BY <1>1, <1>3
  <2>2. blk' \in [Thread -> Mtx \cup {"sleep", NULL}] /\ tmo' \in [Thread -> BOOLEAN]
    BY <1>1 DEF IInv, TypeInv
  <2> QED BY <1>1, <1>4, <2>1, <2>2 DEF IInv, TypeInv
<1>7. LockInv'
  <2> SUFFICES ASSUME NEW n \in Mtx
               PROVE  /\ mutex'[n].owner # NULL <=> mutex'[n].lock_count > 0
                      /\ NoDup(mutex'[n].wait_q)
                      /\ \A u \in Thread : Linked(mutex'[n].wait_q, u) <=> blk'[u] = n
                      /\ mutex'[n].wait_q # << >> => mutex'[n].owner # NULL
                      /\ \A u \in Thread : loc'[u] = SwapLoc(n, 0) => mutex'[n].owner = u
    BY DEF LockInv
  <2>1. \A u \in Thread : Linked(mutex'[n].wait_q, u) <=> blk'[u] = n
    <3>1. \A u \in Thread : Linked(mutex[n].wait_q, u) <=> blk[u] = n
      BY DEF IInv, LockInv
    <3>2. blk'[t] # n
      BY <1>5, MutexAssumption
    <3> QED BY <1>3, <1>5, <3>1, <3>2
  <2>2. mutex'[n].wait_q # << >> => mutex[n].wait_q # << >>
    <3>1. mutex'[n].wait_q # << >> => \E x : Linked(mutex'[n].wait_q, x)
      BY <1>3, EmptyUnlinked
    <3>2. (\E x : Linked(mutex[n].wait_q, x)) => mutex[n].wait_q # << >>
      BY <1>3, EmptyUnlinked
    <3> QED BY <1>3, <3>1, <3>2
  <2> QED BY <1>1, <1>3, <2>1, <2>2 DEF IInv, LockInv
<1>8. ThreadInv'
  <2> SUFFICES ASSUME NEW u \in Thread
               PROVE  /\ blk'[u] \in Mtx => loc[u] = SwapLoc(blk'[u], -1)
                      /\ blk'[u] = "sleep" => loc[u] = NotLocking
                      /\ tmo'[u] => blk'[u] # NULL
                      /\ current' = u => blk'[u] = NULL
                      /\ loc[u].at = "peeked" => current' = u
    BY <1>1 DEF ThreadInv
  <2>1. CASE u = t
    BY <1>4, <1>5, <2>1, MutexAssumption
  <2>2. CASE u # t
    BY <1>4, <1>5, <2>2, MutexAssumption DEF IInv, ThreadInv
  <2> QED BY <2>1, <2>2
<1>9. ASSUME Single, PInv PROVE PInv'
  <2>1. OwnInv'
    BY <1>1, <1>3, <1>5, <1>9, MutexAssumption, SMTT(60) DEF PInv, OwnInv
  <2>2. ASSUME NEW n \in Mtx, blk[t] # n PROVE InheritOf(n)'
    <3>1. mutex'[n].wait_q = mutex[n].wait_q
      <4>1. ~Linked(mutex[n].wait_q, t)
        BY <2>2 DEF IInv, LockInv
      <4> QED BY <1>3, <4>1, RemoveAbsent
    <3>2. \A u \in Thread : blk'[u] = n <=> blk[u] = n
      BY <1>5, <2>2, MutexAssumption
    <3>3. blk[t] \in Mtx \cup {"sleep"}
      BY <1>2 DEF IInv, TypeInv
    <3>4. loc[t] = NotLocking \/ \E m \in Mtx : m # n /\ loc[t] = SwapLoc(m, -1)
      BY <2>2, <3>3 DEF IInv, ThreadInv
    <3>5. ~(loc[t] = SwapLoc(n, -1) \/ (loc[t].at = "peeked" /\ loc[t].m = n))
      BY <3>4, LocProps
    <3>6. \A u \in Thread : GivesUp(u, n)' <=> GivesUp(u, n)
      BY <1>1, <1>5, <3>5 DEF GivesUp
    <3> QED BY <1>1, <1>3, <1>9, <3>1, <3>2, <3>6, InheritFrame DEF PInv, InheritInv, IInv
  <2>3. ASSUME NEW n \in Mtx, blk[t] = n PROVE InheritOf(n)'
    <3>1. BlockedOn(n)' \in SUBSET BlockedOn(n)
      BY <1>5, MutexAssumption DEF BlockedOn
    <3>2. GivesUp(t, n)'
      BY <1>1, <1>5, <2>3 DEF GivesUp, IInv, ThreadInv
    <3>3. base \in [Thread -> Int]
      BY MutexAssumption DEF IInv, TypeInv
    <3>4. SortedBy(base, mutex'[n].wait_q)
      <4>1. SortedBy(base, mutex[n].wait_q)
        BY <1>9 DEF PInv, InheritInv, InheritOf
      <4> QED BY <1>3, <3>3, <4>1, RemoveSorted
    <3>5. \A u \in Thread, p \in Int : loc[u] = PeekLoc(n, p) => u # t
      BY <1>2, LocProps DEF IInv, ThreadInv
    <3>6. \A b, o, p : Bounds(b, o, BlockedOn(n), p) => Bounds(b, o, BlockedOn(n)', p)
      BY <3>1 DEF Bounds
    <3>7. InheritOf(n)
      BY <1>9 DEF PInv, InheritInv
    <3>8. mutex'[n].owner = mutex[n].owner
      BY <1>3
    <3> QED BY <1>1, <3>2, <3>4, <3>5, <3>6, <3>7, <3>8 DEF InheritOf
  <2> QED BY <2>1, <2>2, <2>3 DEF PInv, InheritInv
<1> QED BY <1>6, <1>7, <1>8, <1>9 DEF IInv

LEMMA NextInv ==
  /\ IInv /\ [Next]_vars => IInv'
  /\ Single /\ IInv /\ PInv /\ [Next]_vars => PInv'
<1>1. ASSUME IInv, Next PROVE IInv' /\ (Single /\ PInv => PInv')
  <2>1. ASSUME NEW m \in Mtx, k_mutex_unlock(m) PROVE IInv' /\ (Single /\ PInv => PInv')
    <3>1. mutex[m].lock_count \in Nat /\ mutex[m].lock_count > 0
      BY <1>1, <2>1 DEF IInv, TypeInv, MutexState, k_mutex_unlock
    <3>2. \/ mutex[m].lock_count > 1
          \/ mutex[m].lock_count = 1
      BY <3>1
    <3> QED BY <1>1, <2>1, <3>2, UnlockNested, UnlockFree, UnlockHandover
  <2>2. ASSUME NEW m \in Mtx, k_mutex_lock(m) PROVE IInv' /\ (Single /\ PInv => PInv')
    BY <1>1, <2>2, LockStep
  <2>3. ASSUME NEW m \in Mtx, NEW forever \in BOOLEAN, k_mutex_lock_wait(m, forever)
        PROVE  IInv' /\ (Single /\ PInv => PInv')
    BY <1>1, <2>3, WaitStep
  <2>4. ASSUME NEW t \in Thread, handle_one_timeout(t) PROVE IInv' /\ (Single /\ PInv => PInv')
    BY <1>1, <2>4, TimeoutStep
  <2> QED BY <1>1, <2>1, <2>2, <2>3, <2>4, QuietStep, PeekStep, TimedOutStep DEF Next
<1>2. ASSUME UNCHANGED vars PROVE (IInv => IInv') /\ (PInv => PInv')
  <2>1. IInv => IInv'
    BY <1>2 DEF vars, IInv, TypeInv, LockInv, ThreadInv
  <2>2. PInv => PInv'
    BY <1>2, ZenonT(60) DEF vars, PInv, OwnInv, InheritInv, InheritOf, BlockedOn, GivesUp
  <2> QED BY <2>1, <2>2
<1> QED BY <1>1, <1>2

LEMMA InitPInv == Init /\ Single => PInv
<1> SUFFICES ASSUME Init, Single PROVE PInv
  OBVIOUS
<1>1. OwnInv
  BY MutexAssumption DEF Init, OwnInv, Single
<1>2. SortedBy(base, << >>)
  BY DEF SortedBy
<1> QED BY <1>1, <1>2 DEF Init, PInv, InheritInv, InheritOf

\* The mutexes, their wait queues and the places of the threads agree in every reachable
\* state, whatever the recursion, the timeouts and the handovers.
THEOREM MutexInvariant == Spec => []IInv
<1> QED BY InitInv, NextInv, PTL DEF Spec

\* LockConsistent (run Mutex): a mutex is locked exactly while it has an owner, its queue
\* holds the threads blocked on it, and k_mutex_lock() returns 0 only to the owner.
THEOREM MutexConsistent == Spec => []LockConsistent
<1>1. IInv => LockConsistent
  <2> SUFFICES ASSUME IInv, NEW m \in Mtx
               PROVE  /\ mutex[m].owner # NULL <=> mutex[m].lock_count > 0
                      /\ NoDup(mutex[m].wait_q)
                      /\ WaitersOf(m) = {t \in Thread : blk[t] = m}
                      /\ mutex[m].wait_q # << >> => mutex[m].owner # NULL
                      /\ \A t \in Thread : loc[t].at = "swap" /\ loc[t].m = m /\ loc[t].ret = 0
                                             => mutex[m].owner = t
    BY DEF LockConsistent
  <2>1. WaitersOf(m) = {t \in Thread : blk[t] = m}
    BY DEF IInv, LockInv, WaitersOf
  <2>2. ASSUME NEW t \in Thread, loc[t].at = "swap", loc[t].m = m, loc[t].ret = 0
        PROVE  mutex[m].owner = t
    <3>1. loc[t] = SwapLoc(m, 0)
      BY <2>2, LocProps DEF IInv, TypeInv
    <3> QED BY <3>1 DEF IInv, LockInv
  <2> QED BY <2>1, <2>2 DEF IInv, LockInv
<1> QED BY <1>1, MutexInvariant, PTL

\* What the inheritance rests on holds in every reachable state.
LEMMA InheritInvariant ==
  ASSUME Single
  PROVE  Spec => [](IInv /\ PInv)
<1>1. Init => IInv /\ PInv
  BY InitInv, InitPInv
<1>2. IInv /\ PInv /\ [Next]_vars => (IInv /\ PInv)'
  BY NextInv
<1> QED BY <1>1, <1>2, PTL DEF Spec

\* PriorityRestored (run Mutex): where a thread holds one mutex at a time, one that holds
\* none has the priority it had before it locked any.
THEOREM MutexRestores ==
  ASSUME Single
  PROVE  Spec => []PriorityRestored
<1>1. IInv /\ PInv => PriorityRestored
  BY DEF PInv, OwnInv, PriorityRestored, Owned
<1> QED BY <1>1, InheritInvariant, PTL

\* OwnerInherits (run Mutex): where a thread holds one mutex at a time and no priority is
\* above the ceiling, an owner is never less urgent than a thread that waits for it, and
\* is as urgent as it should be once every thread that timed out has said so.
THEOREM MutexInherits ==
  ASSUME Single
  PROVE  Spec => []OwnerInherits
<1>1. IInv /\ PInv => OwnerInherits
  <2> SUFFICES ASSUME IInv, PInv, NEW m \in Mtx, mutex[m].owner # NULL
               PROVE  LET o == mutex[m].owner
                          all == {mutex[m].owner_orig_prio} \cup {prio[t] : t \in WaitersOf(m)}
                      IN  /\ \A p \in all : prio[o] <= p
                          /\ GivingUp(m) = {} => prio[o] \in all
    BY DEF OwnerInherits
  <2> DEFINE o == mutex[m].owner
             W == BlockedOn(m)
             all == {mutex[m].owner_orig_prio} \cup {prio[t] : t \in WaitersOf(m)}
  <2>1. WaitersOf(m) = W /\ \A t \in W : t \in Thread /\ prio[t] = base[t]
    <3>1. WaitersOf(m) = W
      BY DEF IInv, LockInv, WaitersOf, BlockedOn
    <3>2. ASSUME NEW t \in W PROVE t \in Thread /\ prio[t] = base[t]
      BY <3>1, <3>2, WaiterPrio DEF WaitersOf
    <3> QED BY <3>1, <3>2
  <2>2. mutex[m].owner_orig_prio = base[o]
    BY DEF PInv, OwnInv
  <2>3. /\ Bounds(base, o, W, prio[o])
        /\ (\A t \in Thread : ~GivesUp(t, m)) => Among(base, o, W, prio[o])
    BY DEF PInv, InheritInv, InheritOf
  <2>4. \A t \in Thread : GivesUp(t, m) => t \in GivingUp(m)
    BY LocProps DEF GivesUp, GivingUp
  <2> HIDE DEF o, W
  <2>5. \A p \in all : prio[o] <= p
    BY <2>1, <2>2, <2>3 DEF Bounds
  <2>6. GivingUp(m) = {} => prio[o] \in all
    BY <2>1, <2>2, <2>3, <2>4 DEF Among
  <2> QED BY <2>5, <2>6 DEF o
<1> QED BY <1>1, InheritInvariant, PTL
=============================================================================
