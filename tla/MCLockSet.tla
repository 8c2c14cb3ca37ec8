------------------------------ MODULE MCLockSet ------------------------------
(* LockSet for TLC: three callers and two keys, and as many keyLocks as    *)
(* there are keys, which is all that are ever in use.  Liveness is checked *)
(* in the same run, so there is no symmetry.                               *)
EXTENDS LockSet

CONSTANTS c1, c2, c3, l1, l2

MCCallers == {c1, c2, c3}
MCLocks == {l1, l2}
MCKeys == 1..2
=============================================================================
