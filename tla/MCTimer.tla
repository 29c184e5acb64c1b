------------------------------ MODULE MCTimer ------------------------------
(***************************************************************************)
(* Small instances of the timers for TLC.                                  *)
(***************************************************************************)
EXTENDS Timer

CONSTANTS tm1, tm2, s1, s2, th1, th2
=============================================================================
