---------------------- MODULE MCCondVarClassicHistory ----------------------
(* An instance of CondVarClassicHistory for TLC. *)
EXTENDS CondVarClassicHistory

CONSTANTS t1, t2, t3

ThreeThreads == {t1, t2, t3}
=============================================================================
