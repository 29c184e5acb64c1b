-------------------------------- MODULE Pipe --------------------------------
(***************************************************************************)
(* Pipes (pipes.c): byte streams through a circular buffer, or past it     *)
(* from a writer's memory straight to a reader's.                          *)
(*                                                                         *)
(* A call looks for the waiting threads it can serve with interrupts       *)
(* locked, then copies with only the scheduler locked, so that the tick    *)
(* may time out the thread it serves last, and then waits for the rest.    *)
(* No other thread runs meanwhile, and the copying asks nothing that the   *)
(* tick changes: it is one action with the end of the call.                *)
(*                                                                         *)
(* Each writer numbers the bytes it sends, and goes on from what its last  *)
(* call reported as written.  The memory of readers is left out: what      *)
(* reaches it is compared with what was due.                               *)
(***************************************************************************)
EXTENDS DList, FiniteSets
LOCAL INSTANCE SequencesExt

CONSTANTS
  Thread, NULL,
  Writer, Reader,   \* the threads that put, and those that get
  Size,      \* pipe->size
  MaxXfer,   \* bound: bytes asked for in one call
  AppPrio    \* priorities of the threads

ASSUME PipeAssumption ==
  /\ Writer \subseteq Thread /\ Reader \subseteq Thread /\ AppPrio \subseteq Int
  /\ Size \in Nat /\ MaxXfer \in Nat \ {0}

VARIABLES
  pipe,      \* [buffer, bytes_used, read_index, write_index]
  writers,   \* pipe->wait_q.writers
  readers,   \* pipe->wait_q.readers
  desc,      \* the call of each thread: [op, data, left, asked], data and asked a writer's
  st,        \* "run"; "call": has the lock; "wait": pended; "ready": to return from its call
  lock,      \* the call that has the scheduler lock: [at, thread, wait, xfer_list]
  sent,      \* the number of the next byte of each writer
  due,       \* the number of the next byte a reader is to see of each writer
  prio       \* base.prio

vars == <<pipe, writers, readers, desc, st, lock, sent, due, prio>>

\* Numbers wrap around, past all the bytes of a writer that are under way
Wrap == Size + MaxXfer + 1
NoCall == [op |-> "none", data |-> << >>, left |-> 0, asked |-> 0]
Unlocked == [at |-> "none", thread |-> NULL, wait |-> FALSE, xfer_list |-> << >>]
Smaller(a, b) == IF a < b THEN a ELSE b
Rest(s, n) == SubSeq(s, n + 1, Len(s))

\* k_pipe_init()
Init ==
  /\ pipe = [buffer |-> [i \in 0..(Size - 1) |-> NULL],
             bytes_used |-> 0, read_index |-> 0, write_index |-> 0]
  /\ writers = << >> /\ readers = << >>
  /\ desc = [t \in Thread |-> NoCall]
  /\ st = [t \in Thread |-> "run"]
  /\ lock = Unlocked
  /\ sent = [t \in Thread |-> 0] /\ due = [t \in Thread |-> 0]
  /\ prio \in [Thread -> AppPrio]

(***************************************************************************)
(* The circular buffer: at most one run up to the end of the array, and    *)
(* one from its start                                                      *)
(***************************************************************************)

Wrapped(i) == IF i = Size THEN 0 ELSE i

put_run(x) ==
  LET p == x.pipe
      run == Smaller(Smaller(Size - p.bytes_used, Size - p.write_index), Len(x.data))
  IN [pipe |-> [p EXCEPT
        !.buffer = [i \in DOMAIN @ |-> IF i \in p.write_index..(p.write_index + run - 1)
                                       THEN x.data[i - p.write_index + 1] ELSE @[i]],
        !.bytes_used = @ + run,
        !.write_index = Wrapped(@ + run)],
      data |-> Rest(x.data, run)]

\* Mutant: only up to the end of the array
pipe_buffer_put_once(p, data) == put_run([pipe |-> p, data |-> data])

\* _pipe_buffer_put(): the pipe, and the data there was no room for
pipe_buffer_put(p, data) == put_run(put_run([pipe |-> p, data |-> data]))

get_run(x) ==
  LET p == x.pipe
      run == Smaller(Smaller(p.bytes_used, Size - p.read_index), x.left)
  IN [pipe |-> [p EXCEPT
        !.buffer = [i \in DOMAIN @ |-> IF i \in p.read_index..(p.read_index + run - 1)
                                       THEN NULL ELSE @[i]],
        !.bytes_used = @ - run,
        !.read_index = Wrapped(@ + run)],
      out |-> x.out \o [i \in 1..run |-> p.buffer[p.read_index + i - 1]],
      left |-> x.left - run]

\* _pipe_buffer_get() of n bytes: the pipe, the bytes and how many more were asked for
pipe_buffer_get(p, n) == get_run(get_run([pipe |-> p, out |-> << >>, left |-> n]))

(***************************************************************************)
(* Calls                                                                   *)
(***************************************************************************)

\* The first waiters on q whose requests come to no more than n bytes all together
Total(q) == FoldLeft(LAMBDA sum, t : sum + desc[t].left, 0, q)
Satisfied(q, n) ==
  LET fit == {i \in 0..Len(q) : Total(SubSeq(q, 1, i)) <= n}
  IN SubSeq(q, 1, CHOOSE i \in fit : \A j \in fit : j <= i)

\* _pipe_xfer_prepare(): those are taken off the queue, and their timeouts aborted.  The
\* next one is to be served as far as it goes, and stays.  A call that does not wait
\* fails, and leaves no trace, if there is not enough for its minimum.
pipe_xfer_prepare(t, q, space, call, min_xfer, wait) ==
  LET full == Satisfied(q, call.left)
  IN /\ lock = Unlocked /\ st[t] = "run"
     /\ wait \/ Total(q) + space >= min_xfer
     /\ desc' = [desc EXCEPT ![t] = call]
     /\ st' = [u \in Thread |-> IF u = t THEN "call" ELSE IF Linked(full, u) THEN "ready" ELSE st[u]]
     /\ lock' = [at |-> call.op, thread |-> t, wait |-> wait,
                 xfer_list |-> SubSeq(q, 1, Smaller(Len(full) + 1, Len(q)))]
     /\ UNCHANGED <<pipe, sent, due, prio>>

k_pipe_put(t, n, min_xfer, wait) ==
  /\ pipe_xfer_prepare(t, readers, Size - pipe.bytes_used,
       [op |-> "put", left |-> n, asked |-> n,
        data |-> [i \in 1..n |-> [from |-> t, nr |-> (sent[t] + i - 1) % Wrap]]], min_xfer, wait)
  /\ readers' = Rest(readers, Len(Satisfied(readers, n)))
  /\ UNCHANGED writers

k_pipe_get(t, n, min_xfer, wait) ==
  /\ pipe_xfer_prepare(t, writers, pipe.bytes_used,
       [op |-> "get", left |-> n, asked |-> 0, data |-> << >>], min_xfer, wait)
  /\ writers' = Rest(writers, Len(Satisfied(writers, n)))
  /\ UNCHANGED readers

\* What readers see next of each writer, after the bytes out; -1 once one was not due
Seen(out) ==
  FoldLeft(LAMBDA d, b : [d EXCEPT ![b.from] = IF @ = b.nr THEN (b.nr + 1) % Wrap ELSE -1], due, out)

\* A writer's call is left with the bytes data.
KeepData(d, t, data) == [d EXCEPT ![t].data = data, ![t].left = Len(data)]

Pend(q, t) == sys_dlist_insert_at(q, t, {u \in Thread : prio[t] < prio[u]})

\* The end of the call of t: it returns, or pends for the bytes it has left.
xfer_end(t, left) ==
  LET pends == left > 0 /\ lock.wait
  IN /\ st' = [st EXCEPT ![t] = IF pends THEN "wait" ELSE "ready"]
     /\ writers' = IF pends /\ lock.at = "put" THEN Pend(writers, t) ELSE writers
     /\ readers' = IF pends /\ lock.at = "get" THEN Pend(readers, t) ELSE readers
     /\ lock' = Unlocked
     /\ UNCHANGED <<sent, prio>>

\* The copying of a put: to the readers in turn, then to the buffer
to_reader(x, r) ==
  LET k == Smaller(x.desc[r].left, Len(x.data))
  IN [desc |-> [x.desc EXCEPT ![r].left = @ - k],
      out |-> x.out \o SubSeq(x.data, 1, k), data |-> Rest(x.data, k)]

put_copy ==
  /\ lock.at = "put"
  /\ LET t == lock.thread
         x == FoldLeft(to_reader, [desc |-> desc, out |-> << >>, data |-> desc[t].data], lock.xfer_list)
         b == pipe_buffer_put(pipe, x.data)
     IN /\ desc' = KeepData(x.desc, t, b.data)
        /\ pipe' = b.pipe
        /\ due' = Seen(x.out)
        /\ xfer_end(t, Len(b.data))

\* Mutant: what goes to the buffer is not taken from the writer's request.
from_writer_twice(x, w) ==
  LET k == Smaller(x.left, Len(x.desc[w].data))
      b == pipe_buffer_put(x.pipe, Rest(x.desc[w].data, k))
  IN [desc |-> KeepData(x.desc, w, Rest(x.desc[w].data, k)), pipe |-> b.pipe,
      out |-> x.out \o SubSeq(x.desc[w].data, 1, k), left |-> x.left - k]

\* The copying of a get: from the buffer, then from the writers in turn, whose further
\* bytes go to the buffer
from_writer(x, w) ==
  LET k == Smaller(x.left, Len(x.desc[w].data))
      b == pipe_buffer_put(x.pipe, Rest(x.desc[w].data, k))
  IN [desc |-> KeepData(x.desc, w, b.data), pipe |-> b.pipe,
      out |-> x.out \o SubSeq(x.desc[w].data, 1, k), left |-> x.left - k]

get_copy ==
  /\ lock.at = "get"
  /\ LET t == lock.thread
         g == pipe_buffer_get(pipe, desc[t].left)
         x == FoldLeft(from_writer, [desc |-> desc, pipe |-> g.pipe, out |-> g.out, left |-> g.left],
                       lock.xfer_list)
     IN /\ desc' = [x.desc EXCEPT ![t].left = x.left]
        /\ pipe' = x.pipe
        /\ due' = Seen(x.out)
        /\ xfer_end(t, x.left)

\* _handle_one_timeout(), in the middle of another thread's call too
times_out(t) ==
  /\ st[t] = "wait"
  /\ writers' = sys_dlist_remove(writers, t)
  /\ readers' = sys_dlist_remove(readers, t)
  /\ st' = [st EXCEPT ![t] = "ready"]
  /\ UNCHANGED <<pipe, desc, lock, sent, due, prio>>

\* The return, with the bytes written: what was asked for less what is left
return(t) ==
  /\ lock = Unlocked /\ st[t] = "ready"
  /\ st' = [st EXCEPT ![t] = "run"]
  /\ sent' = [sent EXCEPT ![t] = (@ + desc[t].asked - Len(desc[t].data)) % Wrap]
  /\ desc' = [desc EXCEPT ![t] = NoCall]
  /\ UNCHANGED <<pipe, writers, readers, lock, due, prio>>

Next ==
  \/ \E n \in 1..MaxXfer :
       \E min_xfer \in 0..n, wait \in BOOLEAN :
         \/ \E t \in Writer : k_pipe_put(t, n, min_xfer, wait)
         \/ \E t \in Reader : k_pipe_get(t, n, min_xfer, wait)
  \/ put_copy \/ get_copy
  \/ \E t \in Thread : times_out(t) \/ return(t)

Spec == Init /\ [][Next]_vars

(***************************************************************************)
(* Properties                                                              *)
(***************************************************************************)

\* The bytes in the buffer, oldest first, and those of writer t that readers have yet
\* to see: in the buffer, then in the call it is in.
InBuffer == [i \in 1..pipe.bytes_used |-> pipe.buffer[(pipe.read_index + i - 1) % Size]]
Coming(t) == SelectSeq(InBuffer, LAMBDA b : b.from = t) \o desc[t].data

\* No byte is lost, repeated or overtaken by a later one of its writer: what readers are
\* to see of a writer goes on, without a gap, from what they have seen to what it has
\* left to send, and to the count its call will report.
StreamIntact ==
  \A t \in Thread :
    LET c == Coming(t)
    IN /\ \A i \in 1..Len(c) : c[i] # NULL /\ c[i].nr = (due[t] + i - 1) % Wrap
       /\ (due[t] + Len(c)) % Wrap = (sent[t] + desc[t].asked) % Wrap

\* The rules that _pipe_xfer_prepare() goes by: between calls, writers wait only while
\* the buffer is full and nobody reads, readers only while it is empty, and both only
\* for bytes they still lack.
WaitOnlyWhenStuck ==
  lock = Unlocked =>
    /\ writers # << >> => pipe.bytes_used = Size /\ readers = << >>
    /\ readers # << >> => pipe.bytes_used = 0
    /\ \A t \in Thread : st[t] = "wait" => desc[t].left > 0
=============================================================================
