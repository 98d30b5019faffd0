-------------------------- MODULE MCCondVarClassic --------------------------
(* Instances of CondVarClassic for TLC. *)
EXTENDS CondVarClassic, TLC

CONSTANTS t1, t2, t3

ThreeThreads == {t1, t2, t3}

\* The threads are interchangeable in the safety properties.
Symmetry == Permutations(Threads)
=============================================================================
