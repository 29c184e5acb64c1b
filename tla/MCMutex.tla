------------------------------ MODULE MCMutex ------------------------------
(***************************************************************************)
(* Small instances of the mutexes for TLC.                                 *)
(***************************************************************************)
EXTENDS Mutex, TLC

Symm == Permutations(Thread)
=============================================================================
