----------------------------- MODULE TimedWait -----------------------------
(***************************************************************************)
(* The timed operations of the FreeRTOS backend, of one task, against the  *)
(* clock: sleep_until and sleep_for (impl/freertos/thread.cpp),            *)
(* try_acquire_until and try_acquire_for of the semaphores                 *)
(* (impl/freertos/semaphore.h), wait_until and wait_for of the optimized   *)
(* condition variable (impl/freertos/condition_variable_opt.{h,cpp}).  The  *)
(* classic one waits by try_acquire_until and try_acquire_for.             *)
(*                                                                         *)
(* Two clocks run together: Uptime in microseconds, and the kernel's tick  *)
(* count, which wraps around.  Time passes between any two steps: other    *)
(* tasks can keep a ready task from running, for MaxLag in one call        *)
(* altogether.  now, and the ticks that are compared with Tick(now), are   *)
(* true time: the code sees the tick count only.                           *)
(***************************************************************************)
EXTENDS TimeUtil, TimedCall

CONSTANTS
  MaxTokens,   \* the semaphore's largest count
  unread       \* a clock that was not read yet

ASSUME TokensAssumption == MaxTokens \in Nat \ {0}
ASSUME UnreadAssumption == unread \notin Int
\* The part of the range above kMaxTicksDelay is for deadlines that have passed
\* (timeutil.h:15-16).
ASSUME LagAssumption ==
  MaxLag + 2 * Period =< (TickRange - kMaxTicksDelay) * Period

\* op is "sleep", "acquire" or "wait", and wake the tick at which the kernel wakes
\* the task.
VARIABLES
  offset,   \* how far the current tick has gone when now is 0
  boot,     \* the tick count then
  tokens,   \* the tokens of the semaphore, or pending notifications
  base,     \* the tick (not wrapped) that the deadline of a wait counts from
  span,     \* how many ticks from there
  delay     \* the ticks the task is about to block for

vars == <<now, offset, boot, lag, tokens, pc, op, when, base, span, delay, wake>>

clock == <<now, offset, boot>>
call == <<op, when, base, span>>

Tick(time) == (time + offset) \div Period

xTaskGetTickCount == (Tick(now) + boot) % TickRange

TypeOK ==
  /\ now \in 0 .. MaxTime
  /\ offset \in 0 .. Period - 1
  /\ boot \in 0 .. portMAX_DELAY
  /\ lag \in 0 .. MaxLag
  /\ tokens \in 0 .. MaxTokens
  /\ pc \in {"idle", "read", "check", "block", "asleep", "timeout"}
  /\ op \in {"sleep", "acquire", "wait"}
  /\ when \in Int
  /\ base \in Nat \cup {unread}
  /\ span \in 0 .. kMaxTicksDelay \cup {unread}
  /\ delay \in 0 .. portMAX_DELAY
  /\ wake \in Nat

Init ==
  /\ now = 0
  /\ offset \in 0 .. Period - 1
  /\ boot \in 0 .. portMAX_DELAY
  /\ lag = 0
  /\ tokens = 0
  /\ pc = "idle"
  /\ op = "sleep"
  /\ when = 0
  /\ base = unread
  /\ span = unread
  /\ delay = 0
  /\ wake = 0

-----------------------------------------------------------------------------
(* Time and the other tasks *)

\* The task wants the processor.
Ready == pc \notin {"idle", "asleep"} \/ (pc = "asleep" /\ Tick(now) >= wake)

Advance ==
  /\ TimePasses(Ready)
  /\ UNCHANGED <<offset, boot, tokens, pc, call, delay, wake>>

\* Semaphore release, or a notification.
Release ==
  /\ tokens' = IF tokens < MaxTokens THEN tokens + 1 ELSE tokens
  /\ UNCHANGED <<clock, lag, pc, call, delay, wake>>

Goto(from, to) == Move(from, to) /\ UNCHANGED clock

-----------------------------------------------------------------------------
(* The calls *)

SleepFor(d) ==
  /\ Goto("idle", "check")
  /\ op' = "sleep"
  /\ when' = now + d
  /\ UNCHANGED <<tokens, base, span, delay, wake>>

TryAcquireFor(d) ==
  /\ Goto("idle", "check")
  /\ op' = "acquire"
  /\ when' = CalculateDeadlineFromDuration(now, d)
  /\ UNCHANGED <<tokens, base, span, delay, wake>>

\* The deadline of wait_for is counted in ticks from the current one.
WaitFor(d) ==
  /\ Goto("idle", "check")
  /\ op' = "wait"
  /\ when' = now + d
  /\ base' = Tick(now)
  /\ span' = ToTicks(d)
  /\ UNCHANGED <<tokens, delay, wake>>

\* wait_until reads the tick count and the uptime, in either order.
WaitUntil(d) ==
  /\ Goto("idle", "read")
  /\ op' = "wait"
  /\ when' = now + d
  /\ UNCHANGED <<tokens, base, span, delay, wake>>

ReadTickCount ==
  /\ base = unread
  /\ Goto("read", IF span = unread THEN "read" ELSE "check")
  /\ base' = Tick(now)
  /\ UNCHANGED <<tokens, op, when, span, delay, wake>>

ReadUptime ==
  /\ span = unread
  /\ Goto("read", IF base = unread THEN "read" ELSE "check")
  /\ span' = ToTicks(when - now)
  /\ UNCHANGED <<tokens, op, when, base, delay, wake>>

-----------------------------------------------------------------------------
(* The loops *)

\* The ticks that vTaskDelay or xSemaphoreTake is called with.
DelayUntil(time) ==
  IF op = "sleep"
  THEN RoundedUp(RoundedUp(time - now, MicrosPerMilli), portTICK_PERIOD_MS)
         % TickRange
  ELSE ToTicks(time - now)

\* Mutant: the loop does not look at the deadline.
CheckNothing ==
  /\ op # "wait"
  /\ Goto("check", "block")
  /\ delay' = DelayUntil(when)
  /\ UNCHANGED <<tokens, call, wake>>

\* sleep_until and try_acquire_until look at the uptime.
Check ==
  /\ pc = "check" /\ op # "wait"
  /\ \/ /\ when =< now
        /\ Goto("check", "timeout")
        /\ UNCHANGED delay
     \/ /\ when > now
        /\ Goto("check", "block")
        /\ delay' = DelayUntil(when)
  /\ UNCHANGED <<tokens, call, wake>>

\* The deadline of wait_until_impl, as the code computes it.
Deadline == (base + boot + span) % TickRange

\* Mutant: the difference is computed in a wider, signed type.
RemainingSigned == Deadline - xTaskGetTickCount

\* Mutant: every turn of the loop waits for the whole duration.
RemainingAgain == span

\* Mutant: the deadline and the tick count are compared as numbers.
RemainingUnwrapped ==
  IF Deadline >= xTaskGetTickCount THEN Deadline - xTaskGetTickCount ELSE 0

Remaining == (Deadline - xTaskGetTickCount) % TickRange

\* wait_until_impl looks at the tick count.
CheckTicks ==
  /\ pc = "check" /\ op = "wait"
  /\ \/ /\ Remaining = 0 \/ Remaining > kMaxTicksDelay
        /\ Goto("check", "timeout")
        /\ UNCHANGED delay
     \/ /\ Remaining # 0 /\ Remaining =< kMaxTicksDelay
        /\ Goto("check", "block")
        /\ delay' = Remaining
  /\ UNCHANGED <<tokens, call, wake>>

\* The variables of the call are gone when it returns.
Forget ==
  /\ op' = "sleep"
  /\ when' = 0
  /\ base' = unread
  /\ span' = unread

\* The kernel puts the task to sleep: it wakes after delay tick interrupts.
Block ==
  /\ op = "sleep" \/ tokens = 0
  /\ Goto("block", "asleep")
  /\ wake' = Tick(now) + delay
  /\ delay' = 0
  /\ UNCHANGED <<tokens, call>>

\* A token or a notification is there, at once or while the task sleeps.
TakeToken(next) ==
  /\ op # "sleep"
  /\ tokens > 0
  /\ Goto("block", next) \/ Goto("asleep", next)
  /\ tokens' = tokens - 1
  /\ delay' = 0
  /\ wake' = 0

\* The operation returns: true, or cv_status::no_timeout, or from a wait whose
\* predicate holds.
Take == TakeToken("idle") /\ Forget

\* The predicate of a wait is false still: wait_until_impl is called again, with
\* the same deadline.  Every turn takes time: MaxLag bounds the turns as well.
TakeInVain ==
  /\ op = "wait"
  /\ lag < MaxLag
  /\ TakeToken("check")
  /\ UNCHANGED call

\* Once more round the loop.
WakeUp ==
  /\ Goto("asleep", "check")
  /\ wake' = 0
  /\ UNCHANGED <<tokens, call, delay>>

\* The task has slept for its ticks.
Wake == Tick(now) >= wake /\ WakeUp

\* The kernel wakes the task before that, without a token: it was suspended and
\* resumed, or its delay was aborted.  MaxLag bounds these turns too.
WakeEarly == lag < MaxLag /\ WakeUp

\* The operation returns: cv_status::timeout, false, or from its sleep; a wait
\* with a predicate evaluates it a last time.
ReturnTimeout ==
  /\ Goto("timeout", "idle")
  /\ Forget
  /\ UNCHANGED <<tokens, delay, wake>>

-----------------------------------------------------------------------------

Running ==
  \/ ReadTickCount
  \/ ReadUptime
  \/ Check
  \/ CheckTicks
  \/ Block
  \/ Take
  \/ TakeInVain
  \/ Wake
  \/ ReturnTimeout

\* A call whose deadline is beyond the bound would not return in the model.
Call ==
  \E d \in Durations :
    /\ now + d + 2 * Period + MaxLag =< MaxTime
    /\ now + 2 * Period + MaxLag =< MaxTime
    /\ SleepFor(d) \/ TryAcquireFor(d) \/ WaitFor(d) \/ WaitUntil(d)

Next == Advance \/ Release \/ WakeEarly \/ Call \/ Running

\* Time goes on and the task gets to run.  The kernel need not wake it early.
Fairness == WF_vars(Advance) /\ WF_vars(Running)

Spec == Init /\ [][Next]_vars /\ Fairness

-----------------------------------------------------------------------------
(* Properties *)

\* The code's arithmetic on wrapping tick counts is right: wait_until_impl
\* gives up only when the true tick count has reached the true deadline, and
\* while it has not, it sleeps for what remains.  It takes more than the lag
\* of the task to fill the part of the range above kMaxTicksDelay
\* (condition_variable_opt.cpp:91-95, 117-119, timeutil.h:21-27).
WrapSafe ==
  /\ op = "wait" /\ pc = "timeout" => Tick(now) >= base + span
  /\ op = "wait" /\ pc = "block" =>
       Tick(now) + delay =< base + span + RoundedUp(lag, Period)

\* A task that blocks until a deadline sleeps at least until the next tick
\* interrupt: it never goes round the loop without time going on
\* (timeutil.h:29-41, semaphore.h:54-62, condition_variable_opt.cpp:111-120).
NoSpin == pc = "block" => delay > 0

\* How much the rounding to ticks adds at most: to each sleep the rest of a tick,
\* and to a wait one more, as the ticks that are left of it are counted from the
\* beginning of the current one each time that it blocks.
Slack == IF op = "wait" THEN 2 * Period ELSE Period

\* The kernel is never asked to wake the task later than the deadline, but for
\* what the rounding adds and for how long the task was kept from running after
\* it read the clock, however often it was woken early or in vain and blocked
\* again (semaphore.h:57-58, condition_variable_opt.cpp:112-118,
\* condition_variable_opt.h:63-64, 80-82).
NoOversleep ==
  pc = "asleep" => wake * Period - offset =< when + Slack + lag

\* A timed wait does not time out earlier than a tick before its deadline,
\* apart from how long the task was kept from running between the reads of the
\* two clocks: the ticks are counted from one that has begun already
\* (condition_variable_opt.h:51-73).  A wait for longer than kMaxTicksDelay is
\* cut down to that, and its end is reported as a timeout as well
\* (timeutil.h:33-36); the loops over the uptime go on instead.
TimeoutNearDeadline ==
  pc = "timeout" =>
    \/ now > when - Period - lag
    \/ op = "wait" /\ span = kMaxTicksDelay /\ Tick(now) >= base + span

\* Every timed operation returns, although the kernel may wake it early and a
\* wait may be notified again and again while its predicate is false
\* (thread.cpp:132-140, semaphore.h:53-63, condition_variable_opt.cpp:111-120,
\* condition_variable_opt.h:63-65, 80-83).
Returns == pc # "idle" ~> pc = "idle"

-----------------------------------------------------------------------------
(* The inductive invariant: the ticks, and what they have to do with the    *)
(* deadline                                                                *)

\* The tick at which a timed wait is over.
EndTick == base + span

\* The current time is in tick n or later, and its lag away from it at most.
NearTick(n) == n * Period =< now + offset /\ now + offset < (n + 1) * Period + lag

\* What is known of a timed wait that has read its clocks.
WaitSound ==
  /\ base \in Nat /\ span \in 0 .. kMaxTicksDelay
  /\ base * Period =< now + offset
  /\ now + offset < (EndTick + 2) * Period + lag
  /\ pc = "block" => delay \in 1 .. kMaxTicksDelay /\ NearTick(EndTick - delay)
  /\ pc = "asleep" =>
       wake >= EndTick /\ wake * Period < (EndTick + 1) * Period + lag
  /\ pc = "timeout" => EndTick * Period =< now + offset

TicksSound ==
  /\ TypeOK
  /\ pc = "idle" => op = "sleep"
  /\ op # "wait" => base = unread /\ span = unread
  /\ pc = "read" =>
       /\ op = "wait"
       /\ base = unread \/ span = unread
       /\ base # unread => NearTick(base)
  /\ op = "wait" /\ pc # "read" => WaitSound
  /\ op = "sleep" /\ pc # "idle" => \E d \in Durations : when =< now + d

\* Blocking now for n ticks ends not much later than the deadline.
EndsInTime(n, slack) == now + n * Period < when + slack + lag

\* The last tick of a wait has come, or it comes within a period of the deadline.
EndTickInTime ==
  \/ EndTick * Period =< now + offset
  \/ EndTick * Period < when + offset + Period + lag

\* What the ticks have to do with the deadline, in microseconds.
DeadlineSound ==
  /\ pc = "block" => EndsInTime(delay, Slack)
  /\ pc = "timeout" /\ op # "wait" => when =< now
  /\ pc = "read" /\ span # unread =>
       /\ span = 0 \/ EndsInTime(span, Period)
       /\ span = kMaxTicksDelay \/ when =< now + span * Period
  /\ op = "wait" /\ pc # "read" =>
       /\ span = kMaxTicksDelay \/ when + offset < (EndTick + 1) * Period + lag
       /\ EndTickInTime
  /\ NoOversleep

IInv == TicksSound /\ DeadlineSound
=============================================================================
