---------------------------- MODULE MCUniqueLock ----------------------------
(* Instances of UniqueLock for TLC. *)
EXTENDS UniqueLock

CONSTANTS t1, t2, m1, m2, l1, l2, l3

TwoThreads == {t1, t2}
TwoMutexes == {m1, m2}
ThreeLocks == {l1, l2, l3}

\* t1 has two lock objects, t2 has one.
MCOwner == [l \in Locks |-> IF l = l3 THEN t2 ELSE t1]
=============================================================================
