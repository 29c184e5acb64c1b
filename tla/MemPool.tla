------------------------------ MODULE MemPool -------------------------------
(***************************************************************************)
(* Memory pools (mem_pool.c), and the heap made of one: blocks of a few    *)
(* sizes, each a quarter of the next, split off larger blocks and merged   *)
(* back when a request finds nothing else.                                 *)
(*                                                                         *)
(* A call holds the scheduler lock, so no other call runs meanwhile, but   *)
(* interrupts are open until it pends or looks at the waiters: in the      *)
(* windows the tick may take a waiter away.  The loop over the waiters is  *)
(* one action per waiter, with interrupts locked throughout.               *)
(*                                                                         *)
(* Addresses are counted in blocks of the smallest size.                   *)
(***************************************************************************)
EXTENDS DList, FiniteSets
LOCAL INSTANCE SequencesExt

CONSTANTS
  Thread, NULL,
  MinBlockSize,  \* pool->min_block_size
  NrBlockSets,   \* pool->nr_of_block_sets
  NrMaxBlocks,   \* pool->nr_of_maxblocks
  ReqSize,       \* the sizes that are asked for
  AppPrio,       \* priorities of the threads
  Policy,        \* CONFIG_MEM_POOL_*: the policies to check
  MaxHeld        \* bound: blocks held or waited for at any time

ASSUME MemPoolAssumption ==
  /\ {MinBlockSize, NrBlockSets, NrMaxBlocks, MaxHeld} \subseteq Nat \ {0}
  /\ ReqSize \subseteq Nat /\ AppPrio \subseteq Int /\ NULL \notin Thread
  /\ Policy \subseteq {"SPLIT_BEFORE_DEFRAG", "DEFRAG_BEFORE_SPLIT", "SPLIT_ONLY"}

VARIABLES
  block_set,  \* pool->block_set: a sequence of quad-blocks [mem_blocks, mem_status] per size
  wait_q,     \* pool->wait_q
  req_size,   \* swap_data of a waiting thread: the size it asked for, 0 if it does not wait
  held,       \* the blocks the application holds: [addr, size]
  lock,       \* who has the scheduler lock and where it is: [at, thread, size]
  prio,       \* base.prio
  policy      \* the policy the pool is built with

vars == <<block_set, wait_q, req_size, held, lock, prio, policy>>

Sets == 0..(NrBlockSets - 1)
BlockSize(j) == 4 ^ (NrBlockSets - 1 - j)
Unlocked == [at |-> "none", thread |-> NULL, size |-> 0]

\* Free blocks are bits set in mem_status.
AVAILABLE == 0..3
QuadBlock(addr, status) == [mem_blocks |-> addr, mem_status |-> status]

\* nr_of_entries of a block set, as _build_block_set computes it
NrOfEntries(j) == LET n == NrMaxBlocks * 4 ^ j IN n \div 4 + IF n % 4 = 0 THEN 0 ELSE 1

\* init_one_memory_pool(): the largest size owns it all, and the last quad-block
\* has only the blocks there are.
InitialSet ==
  [i \in 1..NrOfEntries(0) |->
     QuadBlock(4 * (i - 1) * BlockSize(0), {b \in AVAILABLE : 4 * (i - 1) + b < NrMaxBlocks})]

Init ==
  /\ block_set = [j \in Sets |-> IF j = 0 THEN InitialSet ELSE << >>]
  /\ wait_q = << >>
  /\ req_size = [t \in Thread |-> 0]
  /\ held = {}
  /\ lock = Unlocked
  /\ prio \in [Thread -> AppPrio]
  /\ policy \in Policy

(***************************************************************************)
(* The algorithms, on the block sets bs                                    *)
(***************************************************************************)

\* The set of the smallest blocks that hold the size; below 0 if none do
compute_block_set_index(size) ==
  NrBlockSets - 1 -
  (CHOOSE k \in 0..size : /\ size <= MinBlockSize * 4 ^ k
                          /\ k = 0 \/ size > MinBlockSize * 4 ^ (k - 1))

free_existing_block(bs, addr, j) ==
  [bs EXCEPT ![j] =
    [i \in DOMAIN @ |->
       LET q == @[i] IN
       QuadBlock(q.mem_blocks,
         q.mem_status \cup {b \in AVAILABLE : q.mem_blocks + b * BlockSize(j) = addr})]]

\* defrag() of one set.  A quad-block that is all free becomes one free block of the
\* set above, and the last quad-block of the array takes its place, to be looked at
\* in its turn.
defrag_set(bs, j) ==
  LET step(d, n) ==
        LET q == d.bs[j] IN
        IF q[d.i].mem_status = AVAILABLE
        THEN [bs |-> [free_existing_block(d.bs, q[d.i].mem_blocks, j - 1)
                        EXCEPT ![j] = Front([@ EXCEPT ![d.i] = Last(q)])],
              i |-> d.i]
        ELSE [d EXCEPT !.i = @ + 1]
  IN FoldLeft(step, [bs |-> bs, i |-> 1], bs[j]).bs

\* defrag(): the sets from the smallest blocks up to the one above which it stops
defrag(bs, start, last) ==
  FoldLeft(defrag_set, bs, [n \in 1..(start - last) |-> start - n + 1])

\* get_existing_block(): the first free block of the first quad-block that has one
HasFree(bs, j) == \E i \in DOMAIN bs[j] : bs[j][i].mem_status # {}

get_existing_block(bs, j) ==
  LET i == CHOOSE m \in DOMAIN bs[j] :
             /\ bs[j][m].mem_status # {}
             /\ \A n \in 1..(m - 1) : bs[j][n].mem_status = {}
      q == bs[j][i]
      b == CHOOSE c \in q.mem_status : \A d \in q.mem_status : c <= d
  IN [addr |-> q.mem_blocks + b * BlockSize(j),
      bs |-> [bs EXCEPT ![j][i].mem_status = @ \ {b}]]

Failed(bs) == [addr |-> NULL, bs |-> bs]

\* Mutant: the first quarter of a block that was split stays free.
split_all_free(bs, j, start) ==
  LET g == get_existing_block(bs, j) IN
  [addr |-> g.addr,
   bs |-> [m \in Sets |-> IF m \in (j + 1)..start
                          THEN Append(g.bs[m], QuadBlock(g.addr, AVAILABLE)) ELSE g.bs[m]]]

\* The block found in set j is split down to set start: each set on the way gets a
\* quad-block with its first block used.
split(bs, j, start) ==
  LET g == get_existing_block(bs, j) IN
  [addr |-> g.addr,
   bs |-> [m \in Sets |-> IF m \in (j + 1)..start
                          THEN Append(g.bs[m], QuadBlock(g.addr, AVAILABLE \ {0})) ELSE g.bs[m]]]

\* The sets from start up to the largest blocks, the nearest one with a free block
split_larger(bs, start) ==
  LET found == {j \in 0..start : HasFree(bs, j)}
  IN IF found = {} THEN Failed(bs)
     ELSE split(bs, CHOOSE j \in found : \A m \in found : m <= j, start)

\* get_block_recursive(pool, start, start): the address and the block sets after it
get_block_recursive(bs, start) ==
  IF start < 0 THEN Failed(bs)
  ELSE IF HasFree(bs, start) THEN get_existing_block(bs, start)
  ELSE LET merged == defrag(bs, NrBlockSets - 1, start)
       IN CASE policy = "SPLIT_ONLY" -> split_larger(bs, start)
            [] policy = "DEFRAG_BEFORE_SPLIT" -> split_larger(merged, start)
            [] OTHER -> LET g == split_larger(bs, start)
                        IN IF g.addr # NULL THEN g
                           ELSE IF HasFree(merged, start) THEN get_existing_block(merged, start)
                           ELSE Failed(merged)

Request(size) == get_block_recursive(block_set, compute_block_set_index(size))
Block(g, size) == [addr |-> g.addr, size |-> size]

(***************************************************************************)
(* The calls                                                               *)
(***************************************************************************)

Waiting(t) == req_size[t] # 0

\* k_mem_pool_alloc(), up to the unlock if it need not wait.  k_malloc() is one that
\* never waits.
k_mem_pool_alloc(t, size, wait) ==
  /\ lock = Unlocked /\ ~Waiting(t)
  /\ Cardinality(held) + Len(wait_q) < MaxHeld
  /\ LET g == Request(size) IN
     /\ block_set' = g.bs
     /\ held' = IF g.addr = NULL THEN held ELSE held \cup {Block(g, size)}
     /\ lock' = IF g.addr = NULL /\ wait THEN [at |-> "pend", thread |-> t, size |-> size]
                ELSE lock
  /\ UNCHANGED <<wait_q, req_size, prio, policy>>

\* Mutant: the queue is in the order of arrival.
pend_at_tail ==
  /\ lock.at = "pend"
  /\ wait_q' = Append(wait_q, lock.thread)
  /\ req_size' = [req_size EXCEPT ![lock.thread] = lock.size]
  /\ lock' = Unlocked
  /\ UNCHANGED <<block_set, held, prio, policy>>

\* irq_lock() and _pend_current_thread()
pend_current_thread ==
  /\ lock.at = "pend"
  /\ LET t == lock.thread IN
     /\ wait_q' = sys_dlist_insert_at(wait_q, t, {u \in Thread : prio[t] < prio[u]})
     /\ req_size' = [req_size EXCEPT ![t] = lock.size]
  /\ lock' = Unlocked
  /\ UNCHANGED <<block_set, held, prio, policy>>

\* k_mem_pool_free(), and k_free(), up to the look at the waiters
k_mem_pool_free(b) ==
  /\ lock = Unlocked
  /\ block_set' = free_existing_block(block_set, b.addr, compute_block_set_index(b.size))
  /\ held' = held \ {b}
  /\ lock' = [Unlocked EXCEPT !.at = "check"]
  /\ UNCHANGED <<wait_q, req_size, prio, policy>>

k_mem_pool_defrag ==
  /\ lock = Unlocked
  /\ block_set' = defrag(block_set, NrBlockSets - 1, 0)
  /\ lock' = [Unlocked EXCEPT !.at = "check"]
  /\ UNCHANGED <<wait_q, req_size, held, prio, policy>>

\* block_waiters_check(): irq_lock() and the first waiter
block_waiters_check ==
  /\ lock.at = "check"
  /\ lock' = IF wait_q = << >> THEN Unlocked
             ELSE [at |-> "loop", thread |-> Head(wait_q), size |-> 0]
  /\ UNCHANGED <<block_set, wait_q, req_size, held, prio, policy>>

\* The next waiter, NULL at the end of the queue
peek_next(t) == LET i == CHOOSE n \in DOMAIN wait_q : wait_q[n] = t
                IN IF i = Len(wait_q) THEN NULL ELSE wait_q[i + 1]

\* Mutant: the loop ends at the first waiter that cannot be served.
next_if_served(t, served) ==
  IF ~served \/ peek_next(t) = NULL THEN Unlocked
  ELSE [at |-> "loop", thread |-> peek_next(t), size |-> 0]

next_waiter(t, served) ==
  IF peek_next(t) = NULL THEN Unlocked ELSE [at |-> "loop", thread |-> peek_next(t), size |-> 0]

\* One turn of the loop.  A waiter that is served has its block from here on: it
\* returns from the call when it is scheduled.
serve_waiter ==
  /\ lock.at = "loop"
  /\ LET t == lock.thread
         g == Request(req_size[t]) IN
     /\ block_set' = g.bs
     /\ lock' = next_waiter(t, g.addr # NULL)
     /\ IF g.addr = NULL THEN UNCHANGED <<wait_q, req_size, held>>
        ELSE /\ held' = held \cup {Block(g, req_size[t])}
             /\ wait_q' = sys_dlist_remove(wait_q, t)
             /\ req_size' = [req_size EXCEPT ![t] = 0]
  /\ UNCHANGED <<prio, policy>>

\* _handle_one_timeout(), with the scheduler lock held or not
times_out(t) ==
  /\ lock.at # "loop" /\ Waiting(t)
  /\ wait_q' = sys_dlist_remove(wait_q, t)
  /\ req_size' = [req_size EXCEPT ![t] = 0]
  /\ UNCHANGED <<block_set, held, lock, prio, policy>>

Next ==
  \/ \E t \in Thread, size \in ReqSize, wait \in BOOLEAN : k_mem_pool_alloc(t, size, wait)
  \/ pend_current_thread
  \/ \E b \in held : k_mem_pool_free(b)
  \/ k_mem_pool_defrag
  \/ block_waiters_check
  \/ serve_waiter
  \/ \E t \in Thread : times_out(t)

Spec == Init /\ [][Next]_vars

(***************************************************************************)
(* Properties                                                              *)
(***************************************************************************)

Cells(addr, j) == addr..(addr + BlockSize(j) - 1)
PoolCells == 0..(NrMaxBlocks * BlockSize(0) - 1)

\* Free blocks, with their set, and what they and the held blocks cover
FreeBlocksOf(j) ==
  UNION {{[addr |-> block_set[j][i].mem_blocks + b * BlockSize(j), set |-> j] :
            b \in block_set[j][i].mem_status} : i \in DOMAIN block_set[j]}
FreeBlocks == UNION {FreeBlocksOf(j) : j \in Sets}
HeldBlocks == {[addr |-> b.addr, set |-> compute_block_set_index(b.size)] : b \in held}
FreeCells == UNION {Cells(b.addr, b.set) : b \in FreeBlocks}

\* However blocks were split and merged, every byte of the pool is in exactly one
\* block, free or held, and every array of quad-blocks has room for the quad-blocks in
\* it: no memory is handed out twice, lost, or accounted for past an array's end.
PoolPartition ==
  /\ LET F == FreeBlocks
         H == HeldBlocks
     IN \A c \in PoolCells : Cardinality({b \in F : c \in Cells(b.addr, b.set)})
                             + Cardinality({b \in H : c \in Cells(b.addr, b.set)}) = 1
  /\ \A j \in Sets : Len(block_set[j]) <= NrOfEntries(j)

\* Whether the pool could satisfy a request: with merging, if it has an aligned run
\* of free bytes of the block's size; without, if some block is free that is as large.
CouldServe(size) ==
  LET j == compute_block_set_index(size) IN
  /\ j >= 0
  /\ IF policy = "SPLIT_ONLY" THEN \E b \in FreeBlocks : b.set <= j
     ELSE LET F == FreeCells
          IN \E a \in PoolCells : a % BlockSize(j) = 0 /\ Cells(a, j) \subseteq F

\* Nobody waits for a block that the pool could give: neither the window before a
\* thread pends, nor a partial merge, nor a waiter that was passed over in a loop
\* leaves a thread waiting for memory that is there.
NobodyWaitsInVain == lock.at = "none" => \A t \in Thread : Waiting(t) => ~CouldServe(req_size[t])

\* A waiter gets a block only if no thread of higher priority, nor one of its own that
\* has waited longer, could have had one (block_waiters_check()).
Position(t) == CHOOSE i \in DOMAIN wait_q : wait_q[i] = t
GoesBefore(u, t) == prio[u] < prio[t] \/ (prio[u] = prio[t] /\ Position(u) < Position(t))
ServedInOrder ==
  [][\A t, u \in Thread :
       (lock.at = "loop" /\ Waiting(t) /\ req_size'[t] = 0 /\ Waiting(u) /\ GoesBefore(u, t))
         => ~CouldServe(req_size[u])]_vars
=============================================================================
