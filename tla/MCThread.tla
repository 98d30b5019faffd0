------------------------------ MODULE MCThread ------------------------------
(* Instances of Thread for TLC. *)
EXTENDS Thread

CONSTANTS t1, t2, o1, o2, o3

TwoTasks == {t1, t2}
TwoObjects == {o1, o2}
ThreeObjects == {o1, o2, o3}
=============================================================================
