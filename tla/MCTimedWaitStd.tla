--------------------------- MODULE MCTimedWaitStd ---------------------------
(* Instances of TimedWaitStd for TLC. *)
EXTENDS TimedWaitStd

\* Past and present deadlines, below, at and above the ceiling of 4, and above
\* what overflows.
MCDurations == {-1, 0, 1, 3, 4, 6, 10}
=============================================================================
