------------------------------ MODULE MCLatch ------------------------------
(* Instances of Latch for TLC. *)
EXTENDS Latch, TLC

CONSTANTS t1, t2, t3, t4

FourThreads == {t1, t2, t3, t4}
OneCV == {latchCv}

\* Two counters and three waiters; t2 is both.
TwoCounters == {t1, t2}
ThreeWaiters == {t2, t3, t4}

OneAndTwo == (t1 :> 1) @@ (t2 :> 2)
SamePriority == [t \in FourThreads |-> 1]
=============================================================================
