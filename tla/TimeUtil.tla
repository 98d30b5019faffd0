------------------------------ MODULE TimeUtil ------------------------------
(***************************************************************************)
(* Conversions between durations, points in time and ticks                 *)
(* (impl/freertos/timeutil.h).  Time is counted in microseconds; a         *)
(* millisecond has MicrosPerMilli of them and a tick portTICK_PERIOD_MS    *)
(* milliseconds.                                                           *)
(***************************************************************************)
EXTENDS Integers

CONSTANTS
  MicrosPerMilli,      \* 1000
  portTICK_PERIOD_MS,  \* the length of a tick
  portMAX_DELAY,       \* the largest TickType_t
  kTenDaysInTicks,     \* the portable ceiling for a delay
  UptimeMax            \* Uptime::Max()

ASSUME PeriodAssumption ==
  MicrosPerMilli \in Nat \ {0} /\ portTICK_PERIOD_MS \in Nat \ {0}
ASSUME TickAssumption ==
  portMAX_DELAY \in Nat \ {0, 1} /\ kTenDaysInTicks \in Nat \ {0}
ASSUME UptimeAssumption == UptimeMax \in Nat

TickRange == portMAX_DELAY + 1

Period == MicrosPerMilli * portTICK_PERIOD_MS

kHalfRangeMaxTicksDelay == portMAX_DELAY \div 2

kMaxTicksDelay ==
  IF kHalfRangeMaxTicksDelay < kTenDaysInTicks THEN kHalfRangeMaxTicksDelay
                                               ELSE kTenDaysInTicks

RoundedUp(n, unit) == (n + unit - 1) \div unit

\* Mutant: the last division rounds down.
ToTicksDown(micros) ==
  CASE micros =< 0 -> 0
    [] micros > 0 /\ micros >= kMaxTicksDelay * Period -> kMaxTicksDelay
    [] OTHER -> RoundedUp(micros, MicrosPerMilli) \div portTICK_PERIOD_MS

ToTicks(micros) ==
  CASE micros =< 0 -> 0
    [] micros > 0 /\ micros >= kMaxTicksDelay * Period -> kMaxTicksDelay
    [] OTHER -> RoundedUp(RoundedUp(micros, MicrosPerMilli), portTICK_PERIOD_MS)

\* The sum now + duration does not overflow.
CalculateDeadlineFromDuration(now, duration) ==
  IF duration =< UptimeMax - now THEN now + duration ELSE UptimeMax
=============================================================================
