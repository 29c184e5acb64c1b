----------------------------- MODULE MCMemPool ------------------------------
(***************************************************************************)
(* Small instances of the memory pool for TLC.                             *)
(***************************************************************************)
EXTENDS MemPool, TLC

\* Threads differ in their priorities alone, and those are a variable.
Symmetry == Permutations(Thread)
=============================================================================
