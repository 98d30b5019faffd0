---------------------------- MODULE TimedWaitStd ----------------------------
(***************************************************************************)
(* The timed operations of the two other backends, of one thread, against  *)
(* the clock: sleep_for, sleep_until and the four timed waits of a         *)
(* condition variable, over std::condition_variable and                    *)
(* std::this_thread (impl/cppstd), or over roo_time::Delay                 *)
(* (impl/singlethreaded), where nobody can notify.                         *)
(*                                                                         *)
(* All of them hand over a duration, so what was left of the time is       *)
(* computed before the thread blocks; it can be kept from running in       *)
(* between, for MaxLag in one call altogether.                             *)
(***************************************************************************)
EXTENDS TimedCall

CONSTANTS
  kMaxSafeWaitMicros,  \* the longest wait that is asked of the library
  Overflow             \* a wait this long makes some libraries overflow

ASSUME CeilingAssumption ==
  kMaxSafeWaitMicros \in Nat /\ Overflow \in Nat /\ kMaxSafeWaitMicros < Overflow

\* op is "sleep", "wait", "loop" (with a predicate) or "std" (the library's loop),
\* and wake the time when the library or the delay ends.
VARIABLES
  backend,  \* "cppstd" or "singlethreaded", whichever the program is built for
  pred,     \* the predicate
  started,  \* when the call was made
  rel       \* the duration that is handed over

varsStd == <<backend, now, lag, pred, pc, op, started, when, rel, wake>>
callStd == <<op, started, when>>

TypeOKStd ==
  /\ backend \in {"cppstd", "singlethreaded"}
  /\ now \in 0 .. MaxTime
  /\ lag \in 0 .. MaxLag
  /\ pred \in BOOLEAN
  /\ pc \in {"idle", "predicate", "compute", "block", "asleep", "timeout"}
  /\ op \in {"sleep", "wait", "loop", "std"}
  /\ started \in 0 .. now
  /\ when \in Int
  /\ rel \in Int
  /\ backend = "cppstd" => rel =< kMaxSafeWaitMicros
  /\ wake \in Int

InitStd ==
  /\ backend \in {"cppstd", "singlethreaded"}
  /\ now = 0
  /\ lag = 0
  /\ pred = FALSE
  /\ pc = "idle"
  /\ op = "sleep"
  /\ started = 0
  /\ when = 0
  /\ rel = 0
  /\ wake = 0

-----------------------------------------------------------------------------
(* Time and the rest of the program *)

ReadyStd == pc \notin {"idle", "asleep"} \/ (pc = "asleep" /\ now >= wake)

AdvanceStd ==
  /\ TimePasses(ReadyStd)
  /\ UNCHANGED <<pred, pc, callStd, rel, wake>>

PredicateChanges ==
  /\ pred' = ~pred
  /\ UNCHANGED <<now, lag, pc, callStd, rel, wake>>

GotoStd(from, to) == Move(from, to) /\ UNCHANGED pred

\* A notification, or a spurious wakeup: the library reports no_timeout if the
\* time is not over.
Notify ==
  /\ backend = "cppstd"
  /\ op # "sleep"
  /\ now < wake
  /\ GotoStd("asleep", IF op = "wait" THEN "idle" ELSE "predicate")
  /\ UNCHANGED <<callStd, rel, wake>>

-----------------------------------------------------------------------------
(* The calls *)

Begin(o, d, to) ==
  /\ GotoStd("idle", to)
  /\ op' = o
  /\ started' = now
  /\ when' = now + d
  /\ wake' = 0

\* Mutant: there is no ceiling.
SafeUnlimited(d) == d

\* The ceiling on what the standard library is asked for.
Safe(d) ==
  IF backend = "cppstd" /\ d > kMaxSafeWaitMicros THEN kMaxSafeWaitMicros ELSE d

sleep_for(d) == Begin("sleep", d, "block") /\ rel' = Safe(d)

sleep_until(d) == Begin("sleep", d, "compute") /\ rel' = 0

wait_for(d) == Begin("wait", d, "block") /\ rel' = Safe(d)

wait_until(d) == Begin("wait", d, "compute") /\ rel' = 0

wait_until_predicate(d) == Begin("loop", d, "predicate") /\ rel' = 0

\* With the standard library the loop is the library's.
wait_for_predicate(d) ==
  \/ backend = "cppstd" /\ Begin("std", d, "block") /\ rel' = Safe(d)
  \/ backend = "singlethreaded" /\ wait_until_predicate(d)

-----------------------------------------------------------------------------
(* Inside of a call *)

Predicate ==
  /\ \/ pred /\ GotoStd("predicate", "idle")
     \/ ~pred /\ GotoStd("predicate", IF op = "std" THEN "asleep" ELSE "compute")
  /\ UNCHANGED <<callStd, rel, wake>>

\* Mutant: every turn of the loop waits for the whole duration.
ComputeOnce ==
  /\ GotoStd("compute", "block")
  /\ rel' = Safe(when - started)
  /\ UNCHANGED <<callStd, wake>>

\* when - Uptime::Now()
Compute ==
  /\ GotoStd("compute", "block")
  /\ rel' = Safe(when - now)
  /\ UNCHANGED <<callStd, wake>>

\* When the library, or the delay, will wake the thread.
WakeTime == IF backend = "cppstd" /\ rel >= Overflow THEN now ELSE now + rel

HandOver ==
  /\ GotoStd("block", IF op = "std" THEN "predicate" ELSE "asleep")
  /\ wake' = WakeTime
  /\ UNCHANGED <<callStd, rel>>

TimeIsUp ==
  /\ now >= wake
  /\ GotoStd("asleep", "timeout")
  /\ UNCHANGED <<callStd, rel, wake>>

\* The sleep is over, or timeout is returned, or the predicate.
ReportTimeout ==
  /\ GotoStd("timeout", "idle")
  /\ UNCHANGED <<callStd, rel, wake>>

RunningStd ==
  \/ Predicate
  \/ Compute
  \/ HandOver
  \/ TimeIsUp
  \/ ReportTimeout

\* A call whose deadline is beyond the bound would not return in the model.
CallStd ==
  \E d \in Durations :
    /\ now + d + MaxLag < MaxTime
    /\ now + MaxLag < MaxTime
    /\ \/ sleep_for(d)
       \/ sleep_until(d)
       \/ wait_for(d)
       \/ wait_until(d)
       \/ wait_for_predicate(d)
       \/ wait_until_predicate(d)

NextStd ==
  /\ UNCHANGED backend
  /\ AdvanceStd \/ PredicateChanges \/ Notify \/ CallStd \/ RunningStd

\* Time goes on, if only while the thread sleeps, and the thread gets to run.
FairnessStd ==
  /\ SF_varsStd(AdvanceStd /\ UNCHANGED backend)
  /\ WF_varsStd(RunningStd /\ UNCHANGED backend)

SpecStd == InitStd /\ [][NextStd]_varsStd /\ FairnessStd

-----------------------------------------------------------------------------
(* Properties *)

\* Nobody times out, or ends a sleep, before the deadline, except when the
\* ceiling of the standard library's backend has passed: the duration that is
\* handed over was computed before the thread blocks, never too short
\* (cppstd/condition_variable.h:49-91, cppstd/thread.h:37-55,
\* singlethreaded/condition_variable.h:48-75, singlethreaded/thread.h:88-99).
TimeoutNotEarly ==
  pc = "timeout" =>
    now >= when \/ (backend = "cppstd" /\ now >= started + kMaxSafeWaitMicros)

\* Whatever wakes the thread, however often, the next turn of the loop does not
\* ask for more than what is left, but for how long the thread was kept from
\* running (cppstd/condition_variable.h:49-60).
NoOversleepStd == pc = "asleep" => wake =< when + lag

\* Every timed operation returns, wakeups without a predicate that holds
\* included.
ReturnsStd == pc # "idle" ~> pc = "idle"

-----------------------------------------------------------------------------
(* The inductive invariant *)

\* The library, or the delay, has been told when to end: in the loop of the
\* library the predicate is looked at in between.
Armed == pc = "asleep" \/ (pc = "predicate" /\ op = "std")

\* What is handed over is not too short when it is, whatever time passes, and
\* not too long but for the lag.
IInvStd ==
  /\ TypeOKStd
  /\ pc = "block" =>
       /\ now + rel =< when + lag
       /\ now + rel >= when \/ (backend = "cppstd" /\ rel = kMaxSafeWaitMicros)
  /\ Armed =>
       /\ wake =< when + lag
       /\ wake >= when \/ (backend = "cppstd" /\ wake >= started + kMaxSafeWaitMicros)
  /\ TimeoutNotEarly
=============================================================================
