---------------------------- MODULE MCCondVarOpt ----------------------------
(* Instances of CondVarOpt for TLC. *)
EXTENDS CondVarOpt, TLC

CONSTANTS t1, t2, t3, c1, c2

ThreeThreads == {t1, t2, t3}
TwoCVs == {c1, c2}

\* Tasks of the same priority are alike, and so are the condition variables.
Symmetry == Permutations({t1, t2}) \cup Permutations({c1, c2})

\* t1 and t2 have the same priority, t3 a higher one.
MCPriority == [t \in Threads |-> IF t = t3 THEN 2 ELSE 1]
=============================================================================
