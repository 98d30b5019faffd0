------------------------------ MODULE TimedCall ------------------------------
(***************************************************************************)
(* What the timed operations of all three backends have in common: one     *)
(* task or thread that makes one call after the other, the uptime, and how *)
(* long a call has been kept from running by others.                       *)
(***************************************************************************)
EXTENDS Integers

CONSTANTS
  Durations,   \* the durations, and the distances of deadlines, of calls
  MaxTime,     \* a bound on the time
  MaxLag       \* a bound on how long a call waits for the processor

ASSUME DurationsAssumption == Durations \subseteq Int
ASSUME TimeAssumption == MaxTime \in Nat /\ MaxLag \in Nat

VARIABLES
  now,      \* Uptime::Now()
  lag,      \* how long the call has waited for the processor
  pc,       \* where the task is; "idle" is outside of an operation
  op,       \* the operation
  when,     \* its deadline
  wake      \* when the task is to be woken

\* A task that wants the processor does not always get it.
TimePasses(ready) ==
  /\ now < MaxTime
  /\ ready => lag < MaxLag
  /\ now' = now + 1
  /\ lag' = IF ready THEN lag + 1 ELSE lag

\* The task runs: from one place to another.
Move(from, to) ==
  /\ pc = from
  /\ pc' = to
  /\ lag' = IF to = "idle" THEN 0 ELSE lag
  /\ UNCHANGED now
=============================================================================
