----------------------------- MODULE MCMailbox ------------------------------
(***************************************************************************)
(* Small instances of the mailbox for TLC.                                 *)
(***************************************************************************)
EXTENDS Mailbox, TLC

\* Threads differ in their priorities alone, and those are a variable.
Symmetry == Permutations(Thread) \cup Permutations(Async) \cup Permutations(Block)
=============================================================================
