------------------------------ MODULE MCPipe --------------------------------
(***************************************************************************)
(* Small instances of the pipe for TLC.                                    *)
(***************************************************************************)
EXTENDS Pipe

\* The numbers of a writer's bytes matter only as distances from the one readers are to
\* see next: nothing in the model but Wrap looks at the number itself.
Relative(b) == IF b = NULL \/ due[b.from] = -1 THEN b ELSE [b EXCEPT !.nr = (@ - due[b.from]) % Wrap]
RelativeSeq(data) == [i \in DOMAIN data |-> Relative(data[i])]

View ==
  <<[pipe EXCEPT !.buffer = RelativeSeq(@)], writers, readers, st, lock, prio,
    [t \in Thread |-> [desc[t] EXCEPT !.data = RelativeSeq(@)]],
    [t \in Thread |-> IF due[t] = -1 THEN -1 ELSE (sent[t] - due[t]) % Wrap]>>
=============================================================================
