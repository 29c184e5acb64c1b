----------------------------- MODULE MCSemGroup -----------------------------
(***************************************************************************)
(* Small instances of the semaphore groups for TLC.                        *)
(***************************************************************************)
EXTENDS SemGroup

CONSTANTS s1, s2, s3

\* Overlapping groups, in either order, and a group of one
MCSemArray == {<<s1, s2>>, <<s2, s1>>, <<s2, s3>>, <<s1, s2, s3>>, <<s3>>}
=============================================================================
