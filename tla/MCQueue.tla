------------------------------ MODULE MCQueue ------------------------------
(* Instances of Queue for TLC. *)
EXTENDS Queue

CONSTANTS p1, p2, c1, c2

TwoProducers == {p1, p2}
TwoConsumers == {c1, c2}
FourThreads == TwoProducers \cup TwoConsumers
TwoCVs == {nonfull_, nonempty_}
SamePriority == [t \in FourThreads |-> 1]
=============================================================================
