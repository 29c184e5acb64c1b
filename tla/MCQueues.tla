------------------------------ MODULE MCQueues ------------------------------
(***************************************************************************)
(* A small instance of the data passing objects for TLC.                   *)
(***************************************************************************)
EXTENDS Queues, TLC

Symm == Permutations(Thread)
=============================================================================
