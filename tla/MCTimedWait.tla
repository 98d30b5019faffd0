---------------------------- MODULE MCTimedWait ----------------------------
(* Instances of TimedWait for TLC. *)
EXTENDS TimedWait

\* Deadlines in the past, now, within one tick, of several ticks, and of more
\* than kMaxTicksDelay ticks.
MCDurations == {-3, 0, 1, 4, 9, 13}
=============================================================================
