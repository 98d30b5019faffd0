-------------------------- MODULE TimedWaitProofs --------------------------
(***************************************************************************)
(* Theorems about TimedWait, for every width of the tick count, length of  *)
(* a tick, ceiling, and set of durations; and, in the last section, about  *)
(* TimedWaitStd, for every ceiling that does not overflow and every set of *)
(* durations.                                                              *)
(***************************************************************************)
EXTENDS TimedWait, TimedWaitStd, TLAPS

-----------------------------------------------------------------------------
(* Arithmetic *)

\* What the integer quotient and remainder are.
LEMMA Division ==
  ASSUME NEW a \in Int, NEW b \in Nat \ {0}
  PROVE  /\ a \div b \in Int
         /\ (a \div b) * b =< a
         /\ a < (a \div b) * b + b
         /\ a % b \in 0 .. (b - 1)
         /\ a % b = a - (a \div b) * b
  OBVIOUS

\* Products with a positive number keep the order.
LEMMA Monotonic ==
  ASSUME NEW a \in Int, NEW b \in Int, NEW c \in Nat \ {0}
  PROVE  a =< b <=> a * c =< b * c
  OBVIOUS

\* Sums and differences are multiplied out.
LEMMA Distributive ==
  ASSUME NEW a \in Int, NEW b \in Int, NEW c \in Int
  PROVE  /\ (a + b) * c = a * c + b * c
         /\ (a - b) * c = a * c - b * c
  OBVIOUS

\* A remainder is known by its range.
LEMMA Remainder ==
  ASSUME NEW r \in Int, NEW n \in Nat \ {0}, NEW k \in Int, r \in 0 .. (n - 1)
  PROVE  (r + k * n) % n = r
<1> DEFINE q == (r + k * n) \div n
<1>1. /\ q \in Int
      /\ q * n =< r + k * n
      /\ r + k * n < q * n + n
      /\ (r + k * n) % n = r + k * n - q * n
  BY Division
<1> HIDE DEF q
<1> DEFINE d == q - k
<1>2. d \in Int /\ d * n =< r /\ r < d * n + n
  BY <1>1
<1> HIDE DEF d
<1>3. d < 1
  <2>1. CASE d >= 1
    <3>1. 1 * n =< d * n
      BY <1>2, <2>1, Monotonic
    <3> QED
      BY <1>2, <3>1
  <2> QED
    BY <1>2, <2>1
<1>4. d > -1
  <2>1. CASE d =< -1
    <3>1. d * n =< (-1) * n
      BY <1>2, <2>1, Monotonic
    <3> QED
      BY <1>2, <3>1
  <2> QED
    BY <1>2, <2>1
<1>5. q = k
  BY <1>1, <1>2, <1>3, <1>4 DEF d
<1> QED
  BY <1>1, <1>5

\* Division that rounds up.
LEMMA RoundingUp ==
  ASSUME NEW n \in Int, NEW unit \in Nat \ {0}
  PROVE  /\ RoundedUp(n, unit) \in Int
         /\ n =< RoundedUp(n, unit) * unit
         /\ RoundedUp(n, unit) * unit < n + unit
  BY Division DEF RoundedUp

\* A tick has a length.
LEMMA PeriodPositive == Period \in Nat \ {0}
  BY PeriodAssumption DEF Period

\* The longest delay is at most half of the range, and not zero (timeutil.h:19-27).
LEMMA CeilingInRange ==
  /\ kMaxTicksDelay \in Nat \ {0}
  /\ 2 * kMaxTicksDelay =< portMAX_DELAY
  /\ portMAX_DELAY \in Nat /\ TickRange \in Nat \ {0}
  /\ TickRange = portMAX_DELAY + 1
  BY TickAssumption DEF kMaxTicksDelay, kHalfRangeMaxTicksDelay, TickRange

\* A positive number is rounded up to something positive, and not beyond a
\* multiple that it does not exceed.
LEMMA RoundingUpRange ==
  ASSUME NEW n \in Int, NEW unit \in Nat \ {0}, NEW limit \in Int,
         0 < n, n =< limit * unit
  PROVE  RoundedUp(n, unit) \in 1 .. limit
<1> DEFINE r == RoundedUp(n, unit)
<1>1. r \in Int /\ n =< r * unit /\ r * unit < n + unit
  BY RoundingUp
<1> HIDE DEF r
<1>2. r > 0
  <2>1. CASE r =< 0
    <3>1. r * unit =< 0 * unit
      BY <1>1, <2>1, Monotonic
    <3> QED
      BY <1>1, <3>1
  <2> QED
    BY <1>1, <2>1
<1>3. r =< limit
  <2>1. CASE limit + 1 =< r
    <3>1. (limit + 1) * unit =< r * unit
      BY <1>1, <2>1, Monotonic
    <3>2. (limit + 1) * unit = limit * unit + unit
      OBVIOUS
    <3> QED
      BY <1>1, <3>1, <3>2
  <2> QED
    BY <1>1, <2>1
<1> QED
  BY <1>1, <1>2, <1>3 DEF r

\* Both roundings together.
LEMMA TicksRoundedUp ==
  ASSUME NEW micros \in Int, NEW limit \in Nat,
         0 < micros, micros =< limit * Period
  PROVE  RoundedUp(RoundedUp(micros, MicrosPerMilli), portTICK_PERIOD_MS)
           \in 1 .. limit
<1> DEFINE millis == RoundedUp(micros, MicrosPerMilli)
<1>1. limit * portTICK_PERIOD_MS \in Int
      /\ (limit * portTICK_PERIOD_MS) * MicrosPerMilli = limit * Period
  BY PeriodAssumption DEF Period
<1>2. millis \in 1 .. (limit * portTICK_PERIOD_MS)
  BY <1>1, PeriodAssumption, RoundingUpRange
<1> HIDE DEF millis
<1>3. millis \in Int /\ 0 < millis /\ millis =< limit * portTICK_PERIOD_MS
  BY <1>1, <1>2
<1>4. RoundedUp(millis, portTICK_PERIOD_MS) \in 1 .. limit
  BY <1>3, PeriodAssumption, RoundingUpRange
<1> QED
  BY <1>4 DEF millis

\* ToTicks stays below the ceiling, and is zero only for what is not positive.
LEMMA ToTicksInRange ==
  ASSUME NEW micros \in Int
  PROVE  /\ ToTicks(micros) \in 0 .. kMaxTicksDelay
         /\ micros > 0 => ToTicks(micros) > 0
<1> USE CeilingInRange, PeriodPositive
<1>1. CASE micros =< 0
  BY <1>1 DEF ToTicks
<1>2. CASE micros > 0 /\ micros >= kMaxTicksDelay * Period
  BY <1>2 DEF ToTicks
<1>3. CASE micros > 0 /\ ~(micros >= kMaxTicksDelay * Period)
  <2>1. ToTicks(micros)
          = RoundedUp(RoundedUp(micros, MicrosPerMilli), portTICK_PERIOD_MS)
    BY <1>3 DEF ToTicks
  <2>2. kMaxTicksDelay * Period \in Int
    OBVIOUS
  <2>3. ToTicks(micros) \in 1 .. kMaxTicksDelay
    BY <1>3, <2>1, <2>2, TicksRoundedUp
  <2> QED
    BY <2>3
<1> QED
  BY <1>1, <1>2, <1>3

-----------------------------------------------------------------------------
(* The tick count *)

\* The current time is in the current tick.
LEMMA TickBounds ==
  ASSUME TypeOK
  PROVE  /\ Tick(now) \in Nat
         /\ Tick(now) * Period =< now + offset
         /\ now + offset < Tick(now) * Period + Period
         /\ now + offset \in Nat
<1> DEFINE x == now + offset
           q == x \div Period
<1>1. x \in Nat /\ Period \in Nat \ {0}
  BY PeriodPositive, TimeAssumption DEF TypeOK
<1> HIDE DEF x
<1>2. q \in Int /\ q * Period =< x /\ x < q * Period + Period
  BY <1>1, Division
<1> HIDE DEF q
<1>3. q >= 0
  <2>1. CASE q + 1 =< 0
    <3>1. (q + 1) * Period =< 0 * Period
      BY <1>1, <1>2, <2>1, Monotonic
    <3>2. (q + 1) * Period = q * Period + Period
      BY <1>1, <1>2
    <3> QED
      BY <1>1, <1>2, <3>1, <3>2
  <2> QED
    BY <1>2, <2>1
<1> QED
  BY <1>1, <1>2, <1>3 DEF x, q, Tick

\* The current tick is the last one that has begun.
LEMMA LastTick ==
  ASSUME TypeOK, NEW n \in Int
  PROVE  /\ n * Period =< now + offset => n =< Tick(now)
         /\ now + offset < n * Period => Tick(now) < n
<1>1. /\ Tick(now) \in Nat /\ Tick(now) * Period =< now + offset
      /\ now + offset < Tick(now) * Period + Period
      /\ Period \in Nat \ {0} /\ now + offset \in Nat
  BY TickBounds, PeriodPositive
<1>2. ASSUME n * Period =< now + offset, Tick(now) + 1 =< n
      PROVE  FALSE
  <2>1. (Tick(now) + 1) * Period =< n * Period
    BY <1>1, <1>2, Monotonic
  <2>2. (Tick(now) + 1) * Period = Tick(now) * Period + Period
    BY <1>1
  <2> QED
    BY <1>1, <1>2, <2>1, <2>2
<1>3. ASSUME now + offset < n * Period, n =< Tick(now)
      PROVE  FALSE
  <2>1. n * Period =< Tick(now) * Period
    BY <1>1, <1>3, Monotonic
  <2> QED
    BY <1>1, <1>3, <2>1
<1> QED
  BY <1>1, <1>2, <1>3

\* The unsigned difference of two tick counts is the difference of the ticks,
\* as long as that is in the range.
LEMMA Difference ==
  ASSUME NEW m \in Int, NEW n \in Int, NEW r \in 0 .. portMAX_DELAY,
         NEW k \in Int, m - n = r + k * TickRange
  PROVE  ((m % TickRange) - (n % TickRange)) % TickRange = r
<1> USE CeilingInRange
<1> DEFINE a == m \div TickRange
           b == n \div TickRange
<1>1. /\ a \in Int /\ m % TickRange = m - a * TickRange
      /\ b \in Int /\ n % TickRange = n - b * TickRange
  BY Division
<1> HIDE DEF a, b
<1>2. (m % TickRange) - (n % TickRange) = r + (k + b - a) * TickRange
  <2>1. (k + b - a) * TickRange = k * TickRange + b * TickRange - a * TickRange
    BY <1>1, Distributive
  <2>2. /\ k * TickRange \in Int /\ a * TickRange \in Int
        /\ b * TickRange \in Int /\ (k + b - a) * TickRange \in Int
        /\ r \in Int
    BY <1>1
  <2>3. (m % TickRange) - (n % TickRange)
          = (m - n) + b * TickRange - a * TickRange
    BY <1>1, <2>2
  <2> QED
    BY <2>1, <2>2, <2>3
<1>3. k + b - a \in Int /\ r \in Int /\ r \in 0 .. (TickRange - 1)
  BY <1>1
<1> QED
  BY <1>2, <1>3, Remainder

\* What is left of a timed wait, as the code computes it from wrapped tick
\* counts, is right while it is not over, and zero or above the ceiling once it
\* is, for any lag that LagAssumption admits.
LEMMA RemainingTicks ==
  ASSUME TypeOK, op = "wait", pc # "read", WaitSound
  PROVE  /\ Tick(now) < EndTick =>
              /\ Remaining = EndTick - Tick(now)
              /\ Remaining \in 1 .. kMaxTicksDelay
         /\ Tick(now) >= EndTick =>
              /\ Remaining \in Int
              /\ Remaining = 0 \/ Remaining > kMaxTicksDelay
<1> DEFINE t == Tick(now)
<1>1. /\ t \in Nat /\ boot \in Int /\ base \in Nat /\ EndTick \in Int
      /\ EndTick = base + span /\ span \in 0 .. kMaxTicksDelay
      /\ base =< t
  BY TickBounds, LastTick DEF TypeOK, WaitSound, EndTick
<1>2. Remaining = (((EndTick + boot) % TickRange) - ((t + boot) % TickRange))
                    % TickRange
  <2>1. base + boot + span = EndTick + boot
    BY <1>1
  <2>2. Deadline = (EndTick + boot) % TickRange
    BY <2>1 DEF Deadline
  <2>3. xTaskGetTickCount = (t + boot) % TickRange
    BY DEF xTaskGetTickCount
  <2> QED
    BY <2>2, <2>3 DEF Remaining
<1> HIDE DEF t
<1>3. /\ EndTick + boot \in Int /\ t + boot \in Int
      /\ (EndTick + boot) - (t + boot) = EndTick - t
  BY <1>1
<1>4. ASSUME t < EndTick
      PROVE  Remaining = EndTick - t /\ Remaining \in 1 .. kMaxTicksDelay
  <2>1. EndTick - t \in 1 .. kMaxTicksDelay
    BY <1>1, <1>4, CeilingInRange
  <2>2. EndTick - t \in 0 .. portMAX_DELAY
    BY <2>1, CeilingInRange
  <2>3. (EndTick + boot) - (t + boot) = (EndTick - t) + 0 * TickRange
    BY <1>1, <1>3, CeilingInRange
  <2>4. Remaining = EndTick - t
    BY <1>2, <1>3, <2>2, <2>3, Difference
  <2> QED
    BY <2>1, <2>4
<1>5. ASSUME t >= EndTick
      PROVE  Remaining \in Int /\ (Remaining = 0 \/ Remaining > kMaxTicksDelay)
  <2>1. t - EndTick < TickRange - kMaxTicksDelay
    <3> DEFINE n == EndTick + (TickRange - kMaxTicksDelay)
    <3>1. n \in Int
      BY <1>1, CeilingInRange
    <3>2. n * Period
            = EndTick * Period + (TickRange - kMaxTicksDelay) * Period
      BY <1>1, CeilingInRange, PeriodPositive, Distributive
    <3>3. (EndTick + 2) * Period = EndTick * Period + 2 * Period
      BY <1>1, PeriodPositive, Distributive
    <3>4. /\ EndTick * Period \in Int /\ 2 * Period \in Int
          /\ (TickRange - kMaxTicksDelay) * Period \in Int
          /\ now + offset \in Int /\ lag \in Int /\ lag =< MaxLag
          /\ MaxLag \in Int
      BY <1>1, CeilingInRange, PeriodPositive, TickBounds, TimeAssumption
         DEF TypeOK
    <3>5. now + offset < n * Period
      BY <3>2, <3>3, <3>4, LagAssumption DEF WaitSound
    <3>6. t < n
      BY <3>1, <3>5, LastTick DEF t
    <3> QED
      BY <3>6, <1>1, CeilingInRange
  <2>2. CASE t = EndTick
    <3>1. (EndTick + boot) - (t + boot) = 0 + 0 * TickRange
      BY <1>1, <2>2, CeilingInRange
    <3>2. 0 \in 0 .. portMAX_DELAY
      BY CeilingInRange
    <3> QED
      BY <1>2, <1>3, <3>1, <3>2, Difference
  <2>3. CASE t > EndTick
    <3> DEFINE r == TickRange - (t - EndTick)
    <3>1. /\ r \in 0 .. portMAX_DELAY /\ r > kMaxTicksDelay
          /\ (EndTick + boot) - (t + boot) = r + (-1) * TickRange
      BY <1>1, <2>1, <2>3, CeilingInRange
    <3> HIDE DEF r
    <3>2. Remaining = r
      BY <1>2, <1>3, <3>1, Difference
    <3> QED
      BY <3>1, <3>2
  <2> QED
    BY <1>1, <1>5, <2>2, <2>3
<1> QED
  BY <1>4, <1>5 DEF t

-----------------------------------------------------------------------------
(* The inductive invariant, action by action *)

\* Tick n + 1 begins no later than tick m + 1, and that one a period before
\* tick m + 2.
LEMMA Later ==
  ASSUME NEW m \in Int, NEW n \in Int, n =< m
  PROVE  /\ (n + 1) * Period =< (m + 1) * Period
         /\ (m + 1) * Period + Period = (m + 2) * Period
         /\ n * Period + Period = (n + 1) * Period
         /\ n * Period \in Int /\ (n + 1) * Period \in Int
         /\ (m + 1) * Period \in Int /\ (m + 2) * Period \in Int
         /\ Period > 0
<1>1. Period \in Nat \ {0} /\ n + 1 \in Int /\ m + 1 \in Int
  BY PeriodPositive
<1>2. (n + 1) * Period =< (m + 1) * Period
  BY <1>1, Monotonic
<1>3. /\ (m + 1) * Period = m * Period + 1 * Period
      /\ (m + 2) * Period = m * Period + 2 * Period
      /\ (n + 1) * Period = n * Period + 1 * Period
  BY <1>1, Distributive
<1> QED
  BY <1>1, <1>2, <1>3

\* Outside of an operation nothing is claimed.
LEMMA InitTicks == Init => TicksSound
BY PeriodPositive, CeilingInRange, TimeAssumption, TokensAssumption
   DEF Init, TicksSound, TypeOK

\* A ready task falls behind by its lag; one that sleeps reaches its wake tick
\* at most.
LEMMA AdvanceStep ==
  ASSUME TicksSound, Advance
  PROVE  TicksSound'
<1> USE DEF TicksSound, TypeOK, Advance, TimePasses, call, Ready
<1>1. TypeOK'
  BY TimeAssumption
<1>2. ASSUME NEW n \in Int, Ready, NearTick(n)
      PROVE  n * Period =< now' + offset' /\ now' + offset' < (n + 1) * Period + lag'
  <2>1. n * Period \in Int /\ (n + 1) * Period \in Int
    BY Later
  <2> QED
    BY <1>2, <2>1, TimeAssumption DEF NearTick
<1>3. pc' = "read" => (base' # unread => NearTick(base)')
  BY <1>2 DEF NearTick
<1>4. ASSUME op = "wait", pc # "read"
      PROVE  WaitSound'
  <2>1. /\ WaitSound /\ base \in Nat /\ EndTick \in Int /\ base \in Int
        /\ EndTick = EndTick' /\ pc # "idle"
    BY <1>4, CeilingInRange DEF WaitSound, EndTick
  <2>a. /\ (EndTick + 1) * Period + Period = (EndTick + 2) * Period
        /\ (EndTick + 1) * Period \in Int /\ (EndTick + 2) * Period \in Int
        /\ EndTick * Period \in Int /\ Period > 0 /\ base * Period \in Int
    BY <2>1, Later
  <2>2. /\ now + offset \in Nat /\ lag \in Nat
        /\ now' + offset' = now + offset + 1
    BY TimeAssumption, PeriodPositive
  <2>3. CASE Ready
    <3>1. pc = "block" => EndTick - delay \in Int
      BY <2>1
    <3>2. pc = "block" => NearTick(EndTick - delay)'
      BY <2>1, <2>3, <3>1, <1>2 DEF WaitSound, NearTick
    <3>3. lag' = lag + 1
      BY <2>3
    <3>4. pc = "asleep" => wake' * Period < (EndTick + 1) * Period + lag'
      <4>1. wake * Period \in Int
        BY PeriodPositive
      <4> QED
        BY <2>1, <2>a, <2>2, <3>3, <4>1 DEF WaitSound
    <3> QED
      BY <2>1, <2>a, <2>2, <3>2, <3>3, <3>4 DEF WaitSound
  <2>4. CASE ~Ready
    <3>1. pc = "asleep" /\ ~(Tick(now) >= wake) /\ lag' = lag
      BY <2>1, <2>4
    <3>2. wake \in Int /\ wake * Period \in Int /\ ~(wake =< Tick(now))
      BY <3>1, TickBounds, PeriodPositive
    <3>3. now + offset < wake * Period
      BY <3>2, <2>2, LastTick
    <3>4. /\ now' + offset' < (EndTick + 1) * Period + lag'
          /\ now' + offset' < (EndTick + 2) * Period + lag'
          /\ base * Period =< now' + offset'
      <4>1. /\ wake * Period < (EndTick + 1) * Period + lag
            /\ base * Period =< now + offset
        BY <2>1, <3>1 DEF WaitSound
      <4> QED
        BY <2>a, <2>2, <3>1, <3>2, <3>3, <4>1, PeriodPositive
    <3>5. /\ pc' = "asleep" /\ base' = base /\ span' = span /\ wake' = wake
      BY <3>1
    <3>6. base \in Nat /\ span \in 0 .. kMaxTicksDelay
          /\ wake >= EndTick /\ wake * Period < (EndTick + 1) * Period + lag
      BY <2>1, <3>1 DEF WaitSound
    <3> HIDE DEF TicksSound, TypeOK, Advance, TimePasses, call, Ready
    <3> QED
      BY <2>1, <3>1, <3>4, <3>5, <3>6 DEF WaitSound
  <2> QED
    BY <2>3, <2>4
<1>5. op = "sleep" /\ pc # "idle" => \E d \in Durations : when' =< now' + d
  BY DurationsAssumption
<1> QED
  BY <1>1, <1>3, <1>4, <1>5

\* A token or a notification changes no clock.
LEMMA ReleaseStep ==
  ASSUME TicksSound, Release
  PROVE  TicksSound'
<1> USE DEF TicksSound, TypeOK, Release, clock, call
<1>1. TypeOK'
  BY TokensAssumption
<1>2. WaitSound' <=> WaitSound
  BY DEF WaitSound, NearTick, EndTick
<1>3. pc' = "read" /\ base' # unread => NearTick(base)'
  BY DEF NearTick
<1> QED
  BY <1>1, <1>2, <1>3

\* A wait that has read both clocks is in time.
LEMMA ClocksRead ==
  ASSUME TypeOK, UNCHANGED <<now, offset, lag>>, pc' = "check",
         NEW b \in Nat, NEW s \in 0 .. kMaxTicksDelay, base' = b, span' = s,
         NearTick(b)
  PROVE  WaitSound'
<1>1. b + s \in Int /\ b \in Int /\ b =< b + s /\ EndTick' = b + s
  BY CeilingInRange DEF EndTick
<1>2. /\ (b + 1) * Period =< (b + s + 1) * Period
      /\ (b + s + 1) * Period + Period = (b + s + 2) * Period /\ Period > 0
      /\ (b + 1) * Period \in Int /\ (b + s + 1) * Period \in Int
      /\ (b + s + 2) * Period \in Int /\ b * Period \in Int
  BY <1>1, Later
<1>3. now + offset \in Int /\ lag \in Int
  BY TimeAssumption, TickBounds DEF TypeOK
<1>4. now' + offset' < (b + s + 2) * Period + lag'
  BY <1>2, <1>3, PeriodPositive DEF NearTick
<1> QED
  BY <1>1, <1>4 DEF WaitSound, NearTick

\* Reading the tick count yields the tick that has begun.
LEMMA NearNow ==
  ASSUME TypeOK
  PROVE  Tick(now) \in Nat /\ NearTick(Tick(now))
<1>1. /\ Tick(now) \in Nat /\ Tick(now) * Period =< now + offset
      /\ now + offset < Tick(now) * Period + Period
  BY TickBounds
<1>2. Tick(now) * Period + Period = (Tick(now) + 1) * Period
      /\ (Tick(now) + 1) * Period \in Int
  BY <1>1, Later
<1>3. now + offset \in Int /\ lag \in Nat
  BY TimeAssumption, TickBounds DEF TypeOK
<1> QED
  BY <1>1, <1>2, <1>3 DEF NearTick

\* A call of wait_for has read both clocks, the others none.
LEMMA CallStep ==
  ASSUME TicksSound, NEW d \in Durations,
         SleepFor(d) \/ TryAcquireFor(d) \/ WaitFor(d) \/ WaitUntil(d)
  PROVE  TicksSound'
<1>1. d \in Int /\ now \in Int /\ TypeOK /\ pc = "idle" /\ op = "sleep"
      /\ base = unread /\ span = unread
      /\ UNCHANGED <<now, offset, boot, lag, tokens, delay, wake>>
  BY DurationsAssumption, TimeAssumption
     DEF TicksSound, TypeOK, SleepFor, TryAcquireFor, WaitFor, WaitUntil, Goto, Move, clock
<1>2. CASE SleepFor(d)
  BY <1>1, <1>2 DEF SleepFor, Goto, Move, TicksSound, TypeOK
<1>3. CASE TryAcquireFor(d)
  <2>1. CalculateDeadlineFromDuration(now, d) \in Int
    BY <1>1, UptimeAssumption DEF CalculateDeadlineFromDuration
  <2> QED
    BY <1>1, <1>3, <2>1 DEF TryAcquireFor, Goto, Move, TicksSound, TypeOK
<1>4. CASE WaitFor(d)
  <2>1. /\ op' = "wait" /\ pc' = "check" /\ when' = now + d
        /\ base' = Tick(now) /\ span' = ToTicks(d)
    BY <1>4 DEF WaitFor, Goto, Move
  <2>2. /\ Tick(now) \in Nat /\ NearTick(Tick(now))
        /\ ToTicks(d) \in 0 .. kMaxTicksDelay
    BY <1>1, NearNow, ToTicksInRange
  <2>3. WaitSound'
    BY <1>1, <2>1, <2>2, ClocksRead
  <2>4. TypeOK'
    BY <1>1, <2>1, <2>2 DEF TypeOK
  <2> QED
    BY <2>1, <2>3, <2>4 DEF TicksSound
<1>5. CASE WaitUntil(d)
  BY <1>1, <1>5 DEF WaitUntil, Goto, Move, TicksSound, TypeOK
<1> QED
  BY <1>2, <1>3, <1>4, <1>5

\* wait_until reads the tick count, first or last.
LEMMA ReadTickCountStep ==
  ASSUME TicksSound, ReadTickCount
  PROVE  TicksSound'
<1>1. /\ TypeOK /\ pc = "read" /\ base = unread /\ base' = Tick(now)
      /\ pc' = IF span = unread THEN "read" ELSE "check"
      /\ op = "wait"
      /\ UNCHANGED <<now, offset, boot, lag, tokens, op, when, span, delay, wake>>
  BY DEF TicksSound, ReadTickCount, Goto, Move, clock
<1>2. Tick(now) \in Nat /\ NearTick(Tick(now))
  BY <1>1, NearNow
<1>3. TypeOK'
  BY <1>1, <1>2 DEF TypeOK
<1>4. CASE span = unread
  BY <1>1, <1>2, <1>3, <1>4 DEF TicksSound, NearTick
<1>5. CASE span # unread
  <2>1. span \in 0 .. kMaxTicksDelay
    BY <1>1, <1>5 DEF TypeOK
  <2>2. WaitSound'
    BY <1>1, <1>2, <1>5, <2>1, ClocksRead
  <2> QED
    BY <1>1, <1>3, <1>5, <2>2 DEF TicksSound
<1> QED
  BY <1>4, <1>5

\* wait_until reads the uptime, first or last.
LEMMA ReadUptimeStep ==
  ASSUME TicksSound, ReadUptime
  PROVE  TicksSound'
<1>1. /\ TypeOK /\ pc = "read" /\ span = unread /\ span' = ToTicks(when - now)
      /\ pc' = IF base = unread THEN "read" ELSE "check"
      /\ op = "wait"
      /\ base # unread => NearTick(base)
      /\ UNCHANGED <<now, offset, boot, lag, tokens, op, when, base, delay, wake>>
  BY DEF TicksSound, ReadUptime, Goto, Move, clock
<1>2. span' \in 0 .. kMaxTicksDelay
  <2>1. when - now \in Int
    BY <1>1, TimeAssumption DEF TypeOK
  <2> QED
    BY <1>1, <2>1, ToTicksInRange
<1>3. TypeOK'
  BY <1>1, <1>2 DEF TypeOK
<1>4. CASE base = unread
  BY <1>1, <1>2, <1>3, <1>4 DEF TicksSound, NearTick
<1>5. CASE base # unread
  <2>1. base \in Nat
    BY <1>1, <1>5 DEF TypeOK
  <2>2. base' = base /\ NearTick(base) /\ pc' = "check"
        /\ UNCHANGED <<now, offset, lag>>
    BY <1>1, <1>5
  <2>3. WaitSound'
    BY <1>1, <1>2, <2>1, <2>2, ClocksRead
  <2> QED
    BY <1>1, <1>3, <1>5, <2>3 DEF TicksSound
<1> QED
  BY <1>4, <1>5

\* The loops over the uptime.
LEMMA CheckStep ==
  ASSUME TicksSound, Check
  PROVE  TicksSound'
<1>1. /\ TypeOK /\ pc = "check" /\ op # "wait"
      /\ pc' \in {"timeout", "block"}
      /\ pc' = "timeout" => delay' = delay
      /\ pc' = "block" => delay' = DelayUntil(when)
      /\ UNCHANGED <<now, offset, boot, lag, tokens, op, when, base, span, wake>>
  BY DEF TicksSound, Check, Goto, Move, clock, call
<1>2. DelayUntil(when) \in 0 .. portMAX_DELAY
  <2>1. when - now \in Int
    BY <1>1, TimeAssumption DEF TypeOK
  <2> DEFINE ticks == RoundedUp(RoundedUp(when - now, MicrosPerMilli),
                                portTICK_PERIOD_MS)
  <2>2. ticks \in Int
    BY <2>1, PeriodAssumption, RoundingUp
  <2> HIDE DEF ticks
  <2>3. ticks % TickRange \in 0 .. portMAX_DELAY
    <3>1. ticks % TickRange \in 0 .. (TickRange - 1)
      BY <2>2, CeilingInRange, Division
    <3> QED
      BY <3>1, CeilingInRange
  <2>4. ToTicks(when - now) \in 0 .. portMAX_DELAY
    BY <2>1, ToTicksInRange, CeilingInRange
  <2> QED
    BY <2>3, <2>4 DEF DelayUntil, ticks
<1>3. TypeOK'
  BY <1>1, <1>2 DEF TypeOK
<1> QED
  BY <1>1, <1>3 DEF TicksSound

\* A wait gives up when its end has come, and else sleeps for what is left.
LEMMA CheckTicksStep ==
  ASSUME TicksSound, CheckTicks
  PROVE  TicksSound'
<1>1. /\ TypeOK /\ pc = "check" /\ op = "wait" /\ WaitSound
      /\ UNCHANGED <<now, offset, boot, lag, tokens, op, when, base, span, wake>>
  BY DEF TicksSound, CheckTicks, Goto, Move, clock, call
<1>2. /\ Tick(now) \in Nat /\ Tick(now) * Period =< now + offset
      /\ EndTick \in Int /\ NearTick(Tick(now))
  BY <1>1, TickBounds, NearNow, CeilingInRange DEF WaitSound, EndTick
<1>3. /\ EndTick' = EndTick /\ base \in Nat /\ span \in 0 .. kMaxTicksDelay
      /\ base * Period =< now' + offset'
      /\ now' + offset' < (EndTick + 2) * Period + lag'
  BY <1>1 DEF WaitSound, EndTick
<1>4. CASE Remaining = 0 \/ Remaining > kMaxTicksDelay
  <2>1. pc' = "timeout" /\ delay' = delay
    <3>1. Remaining \in Int
      BY <1>1, <1>2, RemainingTicks
    <3> QED
      BY <1>4, <3>1, CeilingInRange DEF CheckTicks, Goto, Move
  <2>2. EndTick =< Tick(now)
    BY <1>1, <1>2, <1>4, RemainingTicks, CeilingInRange
  <2>3. EndTick * Period =< now' + offset'
    <3>1. EndTick * Period =< Tick(now) * Period
      BY <1>2, <2>2, PeriodPositive, Monotonic
    <3>2. /\ now + offset \in Int /\ EndTick * Period \in Int
          /\ Tick(now) * Period \in Int
      BY <1>1, <1>2, TickBounds, PeriodPositive
    <3> QED
      BY <1>1, <1>2, <3>1, <3>2
  <2>4. WaitSound'
    BY <1>1, <1>3, <2>1, <2>3 DEF WaitSound
  <2>5. TypeOK'
    BY <1>1, <2>1 DEF TypeOK
  <2> QED
    BY <1>1, <2>1, <2>4, <2>5 DEF TicksSound
<1>5. CASE ~(Remaining = 0 \/ Remaining > kMaxTicksDelay)
  <2>1. pc' = "block" /\ delay' = Remaining
    BY <1>5 DEF CheckTicks, Goto, Move
  <2>2. /\ Remaining = EndTick - Tick(now)
        /\ Remaining \in 1 .. kMaxTicksDelay
    BY <1>1, <1>2, <1>5, RemainingTicks
  <2>3. EndTick - Remaining = Tick(now)
    BY <1>2, <2>2
  <2>4. NearTick(EndTick - delay)'
    BY <1>1, <1>2, <1>3, <2>1, <2>3 DEF NearTick
  <2>5. WaitSound'
    BY <1>1, <1>3, <2>1, <2>2, <2>4 DEF WaitSound
  <2>6. TypeOK'
    BY <1>1, <2>1, <2>2, CeilingInRange DEF TypeOK
  <2> QED
    BY <1>1, <2>1, <2>5, <2>6 DEF TicksSound
<1> QED
  BY <1>4, <1>5

\* The wake tick is the end of the wait, or later by how long the task has been
\* kept from blocking.
LEMMA BlockStep ==
  ASSUME TicksSound, Block
  PROVE  TicksSound'
<1>1. /\ TypeOK /\ pc = "block" /\ pc' = "asleep"
      /\ wake' = Tick(now) + delay /\ delay' = 0
      /\ UNCHANGED <<now, offset, boot, lag, tokens, op, when, base, span>>
  BY DEF TicksSound, Block, Goto, Move, clock, call
<1>2. Tick(now) \in Nat /\ delay \in Nat /\ wake' \in Nat
  BY <1>1, TickBounds, CeilingInRange DEF TypeOK
<1>3. TypeOK'
  BY <1>1, <1>2, CeilingInRange DEF TypeOK
<1>4. ASSUME op = "wait"
      PROVE  WaitSound'
  <2>1. /\ EndTick' = EndTick /\ base \in Nat /\ span \in 0 .. kMaxTicksDelay
        /\ base * Period =< now' + offset'
        /\ now' + offset' < (EndTick + 2) * Period + lag'
        /\ NearTick(EndTick - delay) /\ EndTick \in Int
    BY <1>1, <1>4, CeilingInRange DEF TicksSound, WaitSound, EndTick
  <2>2. wake' >= EndTick
    <3>1. EndTick - delay =< Tick(now)
      BY <1>1, <1>2, <2>1, LastTick DEF NearTick
    <3> QED
      BY <1>1, <1>2, <2>1, <3>1
  <2>3. wake' * Period < (EndTick + 1) * Period + lag
    <3> DEFINE n == EndTick - delay
    <3>1. n \in Int /\ EndTick + 1 = n + 1 + delay /\ n + 1 \in Int
      BY <1>2, <2>1
    <3>2. /\ now + offset < (n + 1) * Period + lag
          /\ Tick(now) * Period =< now + offset
      BY <1>1, <2>1, TickBounds DEF NearTick
    <3> HIDE DEF n
    <3>3. /\ wake' * Period = Tick(now) * Period + delay * Period
          /\ (n + 1 + delay) * Period = (n + 1) * Period + delay * Period
      BY <1>1, <1>2, <3>1, PeriodPositive, Distributive
    <3>4. /\ Tick(now) * Period \in Int /\ delay * Period \in Int
          /\ (n + 1) * Period \in Int /\ now + offset \in Int /\ lag \in Int
      BY <1>1, <1>2, <3>1, PeriodPositive, TickBounds, TimeAssumption DEF TypeOK
    <3> QED
      BY <3>1, <3>2, <3>3, <3>4
  <2> QED
    BY <1>1, <2>1, <2>2, <2>3 DEF WaitSound
<1> QED
  BY <1>1, <1>3, <1>4 DEF TicksSound

\* A call that returns forgets its deadline.
LEMMA TakeStep ==
  ASSUME TicksSound, Take
  PROVE  TicksSound'
BY CeilingInRange, TimeAssumption, TokensAssumption
   DEF TicksSound, TypeOK, Take, TakeToken, Forget, Goto, Move, clock

\* A wait in vain goes on with the same deadline.
LEMMA TakeInVainStep ==
  ASSUME TicksSound, TakeInVain
  PROVE  TicksSound'
<1>1. /\ TypeOK /\ op = "wait" /\ WaitSound
      /\ pc' = "check" /\ tokens > 0 /\ tokens' = tokens - 1
      /\ delay' = 0 /\ wake' = 0
      /\ UNCHANGED <<now, offset, boot, lag, op, when, base, span>>
  BY DEF TicksSound, TakeInVain, TakeToken, Goto, Move, clock, call
<1>2. WaitSound'
  BY <1>1 DEF WaitSound, EndTick
<1>3. TypeOK'
  BY <1>1, CeilingInRange, TokensAssumption DEF TypeOK
<1> QED
  BY <1>1, <1>2, <1>3 DEF TicksSound

\* A task that wakes up, in time or early, goes round the loop, its deadline
\* unchanged.
LEMMA WakeUpStep ==
  ASSUME TicksSound, WakeUp
  PROVE  TicksSound'
<1>1. WaitSound => WaitSound'
  BY DEF WakeUp, Goto, Move, WaitSound, EndTick, clock, call
<1> QED
  BY <1>1 DEF TicksSound, TypeOK, WakeUp, Goto, Move, clock, call

\* A call that has timed out forgets its deadline.
LEMMA ReturnTimeoutStep ==
  ASSUME TicksSound, ReturnTimeout
  PROVE  TicksSound'
BY TimeAssumption DEF TicksSound, TypeOK, ReturnTimeout, Forget, Goto, Move, clock

\* The arithmetic on wrapping ticks is right in every reachable state.
LEMMA TicksInvariance == Spec => []TicksSound
<1>1. Init => TicksSound
  BY InitTicks
<1>2. TicksSound /\ [Next]_vars => TicksSound'
  <2> SUFFICES ASSUME TicksSound, [Next]_vars PROVE TicksSound'
    OBVIOUS
  <2>1. CASE Advance
    BY <2>1, AdvanceStep
  <2>2. CASE Release
    BY <2>2, ReleaseStep
  <2>3. CASE Call
    BY <2>3, CallStep DEF Call
  <2>4. CASE Running \/ WakeEarly
    BY <2>4, ReadTickCountStep, ReadUptimeStep, CheckStep, CheckTicksStep,
       BlockStep, TakeStep, TakeInVainStep, WakeUpStep, ReturnTimeoutStep
       DEF Running, Wake, WakeEarly
  <2>5. CASE UNCHANGED vars
    BY <2>5 DEF vars, TicksSound, TypeOK, WaitSound, NearTick, EndTick
  <2> QED
    BY <2>1, <2>2, <2>3, <2>4, <2>5 DEF Next
<1> QED
  BY <1>1, <1>2, PTL DEF Spec

-----------------------------------------------------------------------------
(* The ticks and the deadline *)

\* Both roundings together add less than a tick.
LEMMA TicksClose ==
  ASSUME NEW micros \in Int, micros > 0
  PROVE  LET ticks == RoundedUp(RoundedUp(micros, MicrosPerMilli),
                                portTICK_PERIOD_MS)
         IN  /\ ticks \in Nat
             /\ micros =< ticks * Period
             /\ ticks * Period < micros + Period
<1> DEFINE M == MicrosPerMilli
           T == portTICK_PERIOD_MS
           m == RoundedUp(micros, M)
           r == RoundedUp(m, T)
<1>1. /\ M \in Nat \ {0} /\ T \in Nat \ {0} /\ Period = M * T
  BY PeriodAssumption DEF Period
<1>2. m \in Int /\ micros =< m * M /\ m * M < micros + M
  BY <1>1, RoundingUp
<1> HIDE DEF m
<1>3. r \in Int /\ m =< r * T /\ r * T < m + T
  BY <1>1, <1>2, RoundingUp
<1> HIDE DEF r
<1>4. r * T \in Int /\ (r * T) * M = r * Period
  BY <1>1, <1>3
<1> HIDE DEF M, T
<1>5. m * M =< r * Period
  BY <1>1, <1>2, <1>3, <1>4, Monotonic
<1>6. r * Period =< m * M + Period - M
  <2>1. r * T =< m + T - 1 /\ m + T - 1 \in Int
    BY <1>1, <1>2, <1>3, <1>4
  <2>2. (r * T) * M =< (m + T - 1) * M
    BY <1>1, <1>4, <2>1, Monotonic
  <2>3. (m + T - 1) * M = m * M + M * T - M
    BY <1>1, <1>2
  <2> QED
    BY <1>1, <1>4, <2>2, <2>3
<1>7. m * M \in Int /\ r * Period \in Int /\ Period \in Int
  BY <1>1, <1>2, <1>3
<1>8. micros =< r * Period /\ r * Period < micros + Period
  BY <1>1, <1>2, <1>5, <1>6, <1>7
<1>9. r \in Nat
  <2>1. CASE r =< 0
    <3>1. r * Period =< 0 * Period
      BY <1>3, <2>1, PeriodPositive, Monotonic
    <3> QED
      BY <1>7, <1>8, <3>1
  <2> QED
    BY <1>3, <2>1
<1> QED
  BY <1>8, <1>9 DEF r, m, M, T

\* ToTicks rounds up, by less than a tick, unless it cuts the duration down.
LEMMA ToTicksClose ==
  ASSUME NEW micros \in Int
  PROVE  LET ticks == ToTicks(micros)
         IN  /\ ticks = kMaxTicksDelay \/ micros =< ticks * Period
             /\ ticks = 0 \/ ticks * Period < micros + Period
<1> USE CeilingInRange, PeriodPositive
<1>1. CASE micros =< 0
  BY <1>1 DEF ToTicks
<1>2. CASE micros > 0 /\ micros >= kMaxTicksDelay * Period
  <2>1. ToTicks(micros) = kMaxTicksDelay /\ kMaxTicksDelay * Period \in Int
    BY <1>2 DEF ToTicks
  <2> QED
    BY <1>2, <2>1
<1>3. CASE micros > 0 /\ ~(micros >= kMaxTicksDelay * Period)
  <2>1. ToTicks(micros)
          = RoundedUp(RoundedUp(micros, MicrosPerMilli), portTICK_PERIOD_MS)
    BY <1>3 DEF ToTicks
  <2> QED
    BY <1>3, <2>1, TicksClose
<1> QED
  BY <1>1, <1>2, <1>3

\* The number of ticks for a duration is the least that covers it, whatever the
\* length of a tick and although the code rounds twice; zero for what is past,
\* and the ceiling for what is longer (timeutil.h:29-41).
THEOREM TicksCoverDuration ==
  ASSUME NEW micros \in Int
  PROVE  LET ticks == ToTicks(micros)
         IN  /\ ticks \in 0 .. kMaxTicksDelay
             /\ micros =< 0 => ticks = 0
             /\ 0 < micros /\ micros =< kMaxTicksDelay * Period =>
                  (ticks - 1) * Period < micros /\ micros =< ticks * Period
             /\ micros > kMaxTicksDelay * Period => ticks = kMaxTicksDelay
<1> DEFINE ticks == ToTicks(micros)
<1> USE CeilingInRange, PeriodPositive
<1>1. /\ ticks \in 0 .. kMaxTicksDelay
      /\ micros > 0 => ticks > 0
  BY ToTicksInRange
<1>2. micros =< 0 => ticks = 0
  BY DEF ToTicks
<1>3. kMaxTicksDelay * Period \in Nat
  OBVIOUS
<1>4. micros > kMaxTicksDelay * Period => ticks = kMaxTicksDelay
  BY <1>3 DEF ToTicks
<1>5. /\ ticks = kMaxTicksDelay \/ micros =< ticks * Period
      /\ ticks = 0 \/ ticks * Period < micros + Period
  BY ToTicksClose
<1> HIDE DEF ticks
<1>6. (ticks - 1) * Period = ticks * Period - Period
  BY <1>1
<1>7. ASSUME 0 < micros, micros =< kMaxTicksDelay * Period
      PROVE  (ticks - 1) * Period < micros /\ micros =< ticks * Period
  <2>1. ticks * Period < micros + Period
    BY <1>1, <1>5, <1>7
  <2>2. micros =< ticks * Period
    BY <1>5, <1>7
  <2>3. ticks * Period \in Int
    BY <1>1
  <2> QED
    BY <1>6, <2>1, <2>2, <2>3
<1> QED
  BY <1>1, <1>2, <1>4, <1>7 DEF ticks

\* The numbers of a state are integers.
LEMMA Numbers ==
  ASSUME TypeOK
  PROVE  /\ now \in Nat /\ offset \in Nat /\ lag \in Nat /\ when \in Int
         /\ delay \in Nat /\ delay * Period \in Int
         /\ wake \in Nat /\ wake * Period \in Int
         /\ Period \in Nat \ {0}
         /\ offset < Period
BY PeriodPositive, CeilingInRange, TimeAssumption DEF TypeOK

\* What is true of the end of a wait stays true while the task is ready.
LEMMA EndsLater ==
  ASSUME TypeOK, NEW n \in Int, NEW slack \in Int, EndsInTime(n, slack),
         now' = now + 1, lag' = lag + 1, when' = when
  PROVE  now' + n * Period < when' + slack + lag'
<1>1. n * Period \in Int
  BY PeriodPositive
<1> QED
  BY <1>1, Numbers DEF EndsInTime

LEMMA WaitNumbers ==
  ASSUME TicksSound, op = "wait", pc # "read"
  PROVE  /\ base \in Nat /\ span \in Nat /\ span * Period \in Int
         /\ EndTick \in Nat /\ EndTick * Period \in Int
         /\ (EndTick + 1) * Period \in Int
         /\ (EndTick + 1) * Period = EndTick * Period + Period
         /\ EndTick = base + span
<1>1. base \in Nat /\ span \in Nat
  BY CeilingInRange DEF TicksSound, WaitSound
<1> QED
  BY <1>1, PeriodPositive, Distributive DEF EndTick

\* The slack is that of the operation, one or two periods.
LEMMA SlackInRange == Slack \in {Period, 2 * Period} /\ Slack \in Int
  BY PeriodPositive DEF Slack

\* Time passes: what is due comes nearer, and a ready task falls behind as much.
LEMMA AdvanceDeadline ==
  ASSUME TicksSound, DeadlineSound, Advance
  PROVE  DeadlineSound'
<1>1. /\ TypeOK /\ now' = now + 1 /\ offset' = offset
      /\ lag' = lag \/ lag' = lag + 1
      /\ UNCHANGED <<pc, op, when, base, span, delay, wake>>
      /\ pc \in {"read", "check", "block", "timeout"} => lag' = lag + 1
  BY DEF Advance, TimePasses, call, Ready, TicksSound
<1>2. /\ now \in Nat /\ offset \in Nat /\ lag \in Nat /\ when \in Int
      /\ delay \in Nat /\ delay * Period \in Int
      /\ wake * Period \in Int /\ Period \in Nat \ {0}
  BY <1>1, Numbers
<1>3. /\ pc = "block" => EndsInTime(delay, Slack)'
      /\ pc = "timeout" /\ op # "wait" => when =< now'
  <2>1. pc = "block" => EndsInTime(delay, Slack)'
    <3>1. Slack' = Slack /\ Slack \in Int
      BY <1>1, SlackInRange DEF Slack
    <3> QED
      BY <1>1, <1>2, <3>1, EndsLater DEF DeadlineSound, EndsInTime
  <2>2. pc = "timeout" /\ op # "wait" => when =< now'
    BY <1>1, <1>2 DEF DeadlineSound
  <2> QED
    BY <2>1, <2>2
<1>4. ASSUME pc = "read", span # unread
      PROVE  /\ span = 0 \/ EndsInTime(span, Period)'
             /\ span = kMaxTicksDelay \/ when =< now' + span * Period
  <2>1. span \in Int /\ span * Period \in Int /\ Period \in Int
    BY <1>1, <1>2, <1>4, CeilingInRange DEF TypeOK
  <2>2. span = 0 \/ EndsInTime(span, Period)'
    BY <1>1, <1>4, <2>1, EndsLater DEF DeadlineSound, EndsInTime
  <2>3. span = kMaxTicksDelay \/ when =< now' + span * Period
    BY <1>1, <1>2, <1>4, <2>1 DEF DeadlineSound
  <2> QED
    BY <2>2, <2>3
<1>5. ASSUME op = "wait", pc # "read"
      PROVE  /\ \/ span = kMaxTicksDelay
                \/ when + offset < (EndTick + 1) * Period + lag'
             /\ EndTickInTime'
  <2>1. /\ span \in Int /\ EndTick * Period \in Int
        /\ (EndTick + 1) * Period \in Int
    BY <1>5, WaitNumbers
  <2>2. \/ span = kMaxTicksDelay
        \/ when + offset < (EndTick + 1) * Period + lag'
    BY <1>1, <1>2, <1>5, <2>1 DEF DeadlineSound
  <2>3. EndTickInTime'
    <3>1. EndTickInTime /\ EndTick' = EndTick
      BY <1>1, <1>5 DEF DeadlineSound, EndTick
    <3> QED
      BY <1>1, <1>2, <2>1, <3>1 DEF EndTickInTime
  <2> QED
    BY <2>2, <2>3
<1>6. NoOversleep'
  <2>1. Slack' = Slack /\ Slack \in Int
    BY <1>1, SlackInRange DEF Slack
  <2> QED
    BY <1>1, <1>2, <2>1 DEF DeadlineSound, NoOversleep
<1> QED
  BY <1>1, <1>3, <1>4, <1>5, <1>6 DEF DeadlineSound, EndTick

\* A call sets its deadline; wait_for counts the ticks from the current one.
LEMMA CallDeadline ==
  ASSUME TicksSound, NEW d \in Durations,
         SleepFor(d) \/ TryAcquireFor(d) \/ WaitFor(d) \/ WaitUntil(d)
  PROVE  DeadlineSound'
<1>1. /\ d \in Int /\ TypeOK /\ pc = "idle" /\ op = "sleep"
      /\ base = unread /\ span = unread
      /\ UNCHANGED <<now, offset, boot, lag, tokens, delay, wake>>
  BY DurationsAssumption
     DEF TicksSound, SleepFor, TryAcquireFor, WaitFor, WaitUntil, Goto, Move, clock
<1>2. CASE SleepFor(d) \/ TryAcquireFor(d)
  BY <1>2 DEF SleepFor, TryAcquireFor, Goto, Move, DeadlineSound, NoOversleep
<1>3. CASE WaitUntil(d)
  BY <1>1, <1>3 DEF WaitUntil, Goto, Move, DeadlineSound, NoOversleep
<1>4. CASE WaitFor(d)
  <2>1. /\ op' = "wait" /\ pc' = "check" /\ when' = now + d
        /\ base' = Tick(now) /\ span' = ToTicks(d)
    BY <1>4 DEF WaitFor, Goto, Move
  <2>2. /\ Tick(now) \in Nat /\ ToTicks(d) \in Nat
        /\ Tick(now) * Period =< now + offset
        /\ now + offset < Tick(now) * Period + Period
    BY <1>1, TickBounds, ToTicksInRange, CeilingInRange
  <2>3. /\ now \in Nat /\ offset \in Nat /\ lag \in Nat /\ Period \in Nat \ {0}
    BY <1>1, Numbers
  <2>4. /\ (Tick(now) + ToTicks(d)) * Period
             = Tick(now) * Period + ToTicks(d) * Period
        /\ (Tick(now) + ToTicks(d) + 1) * Period
             = Tick(now) * Period + ToTicks(d) * Period + Period
        /\ Tick(now) * Period \in Int /\ ToTicks(d) * Period \in Int
    BY <2>2, <2>3, Distributive
  <2>5. EndTick' = Tick(now) + ToTicks(d)
    BY <2>1 DEF EndTick
  <2>6. ToTicks(d) = kMaxTicksDelay \/ when' + offset < (EndTick' + 1) * Period + lag
    BY <1>1, <2>1, <2>2, <2>3, <2>4, <2>5, ToTicksClose
  <2>7. EndTickInTime'
    <3>1. CASE ToTicks(d) = 0
      BY <1>1, <2>2, <2>4, <2>5, <3>1 DEF EndTickInTime
    <3>2. CASE ToTicks(d) * Period < d + Period
      BY <1>1, <2>1, <2>2, <2>3, <2>4, <2>5, <3>2 DEF EndTickInTime
    <3> QED
      BY <1>1, <3>1, <3>2, ToTicksClose
  <2> QED
    BY <1>1, <2>1, <2>6, <2>7 DEF DeadlineSound, NoOversleep
<1> QED
  BY <1>2, <1>3, <1>4

\* The tick count, read before the uptime or after it.
LEMMA ReadTickCountDeadline ==
  ASSUME TicksSound, DeadlineSound, ReadTickCount
  PROVE  DeadlineSound'
<1>1. /\ TypeOK /\ pc = "read" /\ base = unread /\ base' = Tick(now)
      /\ pc' = IF span = unread THEN "read" ELSE "check"
      /\ op = "wait"
      /\ UNCHANGED <<now, offset, boot, lag, tokens, op, when, span, delay, wake>>
  BY DEF TicksSound, ReadTickCount, Goto, Move, clock
<1>2. CASE span = unread
  BY <1>1, <1>2 DEF DeadlineSound, NoOversleep
<1>3. CASE span # unread
  <2>1. /\ span \in Nat /\ pc' = "check"
        /\ span = 0 \/ EndsInTime(span, Period)
        /\ span = kMaxTicksDelay \/ when =< now + span * Period
    BY <1>1, <1>3, CeilingInRange DEF TypeOK, DeadlineSound
  <2>2. /\ Tick(now) \in Nat /\ Tick(now) * Period =< now + offset
        /\ now + offset < Tick(now) * Period + Period
        /\ now \in Nat /\ offset \in Nat /\ lag \in Nat /\ when \in Int
        /\ Period \in Nat \ {0}
    BY <1>1, TickBounds, Numbers
  <2>3. /\ (Tick(now) + span) * Period = Tick(now) * Period + span * Period
        /\ (Tick(now) + span + 1) * Period
             = Tick(now) * Period + span * Period + Period
        /\ Tick(now) * Period \in Int /\ span * Period \in Int
    BY <2>1, <2>2, Distributive
  <2>4. EndTick' = Tick(now) + span
    BY <1>1 DEF EndTick
  <2>5. span = kMaxTicksDelay \/ when + offset < (EndTick' + 1) * Period + lag
    BY <2>1, <2>2, <2>3, <2>4
  <2>6. EndTickInTime'
    <3>1. CASE span = 0
      BY <1>1, <2>2, <2>3, <2>4, <3>1 DEF EndTickInTime
    <3>2. CASE EndsInTime(span, Period)
      BY <1>1, <2>1, <2>2, <2>3, <2>4, <3>2 DEF EndsInTime, EndTickInTime
    <3> QED
      BY <2>1, <3>1, <3>2
  <2> QED
    BY <1>1, <2>1, <2>5, <2>6 DEF DeadlineSound, NoOversleep
<1> QED
  BY <1>2, <1>3

\* The uptime, read after the tick count or before it.
LEMMA ReadUptimeDeadline ==
  ASSUME TicksSound, DeadlineSound, ReadUptime
  PROVE  DeadlineSound'
<1>1. /\ TypeOK /\ pc = "read" /\ span = unread /\ span' = ToTicks(when - now)
      /\ pc' = IF base = unread THEN "read" ELSE "check"
      /\ op = "wait"
      /\ base # unread => NearTick(base)
      /\ UNCHANGED <<now, offset, boot, lag, tokens, op, when, base, delay, wake>>
  BY DEF TicksSound, ReadUptime, Goto, Move, clock
<1>2. /\ now \in Nat /\ offset \in Nat /\ lag \in Nat /\ when \in Int
      /\ Period \in Nat \ {0} /\ when - now \in Int
  BY <1>1, Numbers
<1>3. /\ span' \in Nat /\ span' * Period \in Int
      /\ span' = kMaxTicksDelay \/ when =< now + span' * Period
      /\ span' = 0 \/ now + span' * Period < when + Period + lag
  <2>1. ToTicks(when - now) \in Nat
    BY <1>2, ToTicksInRange, CeilingInRange
  <2>2. ToTicks(when - now) * Period \in Int
    BY <1>2, <2>1
  <2>3. /\ ToTicks(when - now) = kMaxTicksDelay
           \/ when - now =< ToTicks(when - now) * Period
        /\ ToTicks(when - now) = 0
           \/ ToTicks(when - now) * Period < when - now + Period
    BY <1>2, ToTicksClose
  <2> QED
    BY <1>1, <1>2, <2>1, <2>2, <2>3
<1>4. CASE base = unread
  BY <1>1, <1>3, <1>4 DEF DeadlineSound, NoOversleep, EndsInTime
<1>5. CASE base # unread
  <2>1. /\ base \in Nat /\ pc' = "check"
        /\ base * Period =< now + offset
        /\ now + offset < (base + 1) * Period + lag
    BY <1>1, <1>5 DEF TypeOK, NearTick
  <2>2. /\ (base + 1) * Period = base * Period + Period
        /\ (base + span') * Period = base * Period + span' * Period
        /\ (base + span' + 1) * Period = base * Period + span' * Period + Period
        /\ base * Period \in Int
    BY <1>2, <1>3, <2>1, Distributive
  <2>3. EndTick' = base + span'
    BY <1>1 DEF EndTick
  <2>4. span' = kMaxTicksDelay \/ when + offset < (EndTick' + 1) * Period + lag
    <3> DEFINE x == span' * Period
               y == (base + 1) * Period
    <3>1. (EndTick' + 1) * Period = x + y /\ x \in Int /\ y \in Int
      BY <1>2, <1>3, <2>1, <2>2, <2>3
    <3>2. /\ span' = kMaxTicksDelay \/ when =< now + x
          /\ now + offset < y + lag
      BY <1>3, <2>1
    <3> HIDE DEF x, y
    <3> QED
      BY <1>2, <3>1, <3>2
  <2>5. EndTickInTime'
    <3>1. CASE span' = 0
      BY <1>1, <1>2, <2>1, <2>2, <2>3, <3>1 DEF EndTickInTime
    <3>2. CASE now + span' * Period < when + Period + lag
      <4> DEFINE x == span' * Period
      <4>1. EndTick' * Period = base * Period + x /\ x \in Int
        BY <1>3, <2>2, <2>3
      <4>2. now + x < when + Period + lag
        BY <3>2
      <4> HIDE DEF x
      <4>3. EndTick' * Period < when + offset + Period + lag
        BY <1>2, <2>1, <2>2, <4>1, <4>2
      <4> QED
        BY <1>1, <4>3 DEF EndTickInTime
    <3> QED
      BY <1>3, <3>1, <3>2
  <2> QED
    BY <1>1, <2>1, <2>4, <2>5 DEF DeadlineSound, NoOversleep
<1> QED
  BY <1>4, <1>5

\* The loops over the uptime block for no more ticks than there are left.
LEMMA CheckDeadline ==
  ASSUME TicksSound, DeadlineSound, Check
  PROVE  DeadlineSound'
<1>1. /\ TypeOK /\ pc = "check" /\ op # "wait"
      /\ \/ pc' = "timeout" /\ when =< now
         \/ pc' = "block" /\ when > now /\ delay' = DelayUntil(when)
      /\ UNCHANGED <<now, offset, boot, lag, tokens, op, when, base, span, wake>>
  BY DEF TicksSound, Check, Goto, Move, clock, call
<1>2. /\ now \in Nat /\ lag \in Nat /\ when \in Int /\ Period \in Nat \ {0}
      /\ when - now \in Int
  BY <1>1, Numbers
<1>3. ASSUME when > now
      PROVE  DelayUntil(when) \in Nat /\ DelayUntil(when) * Period < when - now + Period
  <2> DEFINE ticks == RoundedUp(RoundedUp(when - now, MicrosPerMilli),
                                portTICK_PERIOD_MS)
  <2>1. ticks \in Nat /\ ticks * Period < when - now + Period
    BY <1>2, <1>3, TicksClose
  <2> HIDE DEF ticks
  <2>2. ticks % TickRange \in Nat /\ ticks % TickRange =< ticks
    BY <2>1, CeilingInRange
  <2>3. (ticks % TickRange) * Period =< ticks * Period
    BY <1>2, <2>1, <2>2, Monotonic
  <2>4. (ticks % TickRange) * Period \in Int /\ ticks * Period \in Int
    BY <1>2, <2>1, <2>2
  <2>5. (ticks % TickRange) * Period < when - now + Period
    BY <1>2, <2>1, <2>3, <2>4
  <2>6. ToTicks(when - now) \in Nat
        /\ ToTicks(when - now) * Period < when - now + Period
    BY <1>2, <1>3, ToTicksInRange, ToTicksClose, CeilingInRange
  <2> QED
    BY <2>2, <2>5, <2>6 DEF DelayUntil, ticks
<1>4. pc' = "block" => EndsInTime(delay, Slack)'
  <2> SUFFICES ASSUME pc' = "block" PROVE now + delay' * Period < when + Period + lag
    BY <1>1 DEF EndsInTime, Slack
  <2> DEFINE x == delay' * Period
  <2>1. delay' \in Nat /\ x < when - now + Period
    BY <1>1, <1>3
  <2>2. x \in Int
    BY <1>2, <2>1
  <2> HIDE DEF x
  <2>3. now + x < when + Period + lag
    BY <1>2, <2>1, <2>2
  <2> QED
    BY <2>3 DEF x
<1> QED
  BY <1>1, <1>4 DEF DeadlineSound, NoOversleep

\* A wait that sleeps does so until its last tick, counted from the current one,
\* which may have begun a period ago.
LEMMA CheckTicksDeadline ==
  ASSUME TicksSound, DeadlineSound, CheckTicks
  PROVE  DeadlineSound'
<1>1. /\ TypeOK /\ pc = "check" /\ op = "wait" /\ WaitSound
      /\ \/ pc' = "timeout"
         \/ /\ pc' = "block" /\ delay' = Remaining
            /\ Remaining # 0 /\ Remaining =< kMaxTicksDelay
      /\ UNCHANGED <<now, offset, boot, lag, tokens, op, when, base, span, wake>>
  BY DEF TicksSound, CheckTicks, Goto, Move, clock, call
<1>2. /\ base \in Nat /\ span \in Nat /\ EndTick = base + span
      /\ EndTick \in Nat /\ EndTick * Period \in Int
  BY <1>1, WaitNumbers
<1>3. /\ Tick(now) \in Nat /\ now + offset < Tick(now) * Period + Period
      /\ now \in Nat /\ offset \in Nat /\ lag \in Nat /\ when \in Int
      /\ Period \in Nat \ {0}
  BY <1>1, TickBounds, Numbers
<1>4. ASSUME pc' = "block"
      PROVE  EndsInTime(delay, Slack)'
  <2>1. ~(Tick(now) >= EndTick)
    BY <1>1, <1>4, RemainingTicks, CeilingInRange
  <2>2. delay' = EndTick - Tick(now)
    BY <1>1, <1>2, <1>3, <1>4, <2>1, RemainingTicks
  <2>3. EndTick * Period < when + offset + Period + lag
    <3>1. ~(EndTick * Period =< now + offset)
      BY <1>1, <1>2, <1>3, <2>1, LastTick
    <3> QED
      BY <1>1, <3>1 DEF DeadlineSound, EndTickInTime
  <2>4. /\ delay' * Period = EndTick * Period - Tick(now) * Period
        /\ Tick(now) * Period \in Int
    BY <1>2, <1>3, <2>2, Distributive
  <2>5. now + delay' * Period < when + 2 * Period + lag
    <3> DEFINE x == delay' * Period
    <3>1. now + x < when + 2 * Period + lag
      BY <1>2, <1>3, <2>3, <2>4
    <3> QED
      BY <3>1
  <2> QED
    BY <1>1, <2>5 DEF EndsInTime, Slack
<1>5. EndTick' = EndTick /\ EndTickInTime' = EndTickInTime
  BY <1>1 DEF EndTick, EndTickInTime
<1> QED
  BY <1>1, <1>4, <1>5 DEF DeadlineSound, NoOversleep

\* The kernel counts whole ticks, from the one that has begun.
LEMMA BlockDeadline ==
  ASSUME TicksSound, DeadlineSound, Block
  PROVE  DeadlineSound'
<1>1. /\ TypeOK /\ pc = "block" /\ pc' = "asleep" /\ wake' = Tick(now) + delay
      /\ UNCHANGED <<now, offset, boot, lag, tokens, op, when, base, span>>
  BY DEF TicksSound, Block, Goto, Move, clock, call
<1>2. /\ now \in Nat /\ offset \in Nat /\ lag \in Nat /\ when \in Int
      /\ delay \in Nat /\ delay * Period \in Int /\ Period \in Nat \ {0}
      /\ Tick(now) \in Nat /\ Tick(now) * Period =< now + offset
  BY <1>1, Numbers, TickBounds
<1>3. EndsInTime(delay, Slack) /\ Slack' = Slack /\ Slack \in Int
  BY <1>1, SlackInRange DEF DeadlineSound, Slack
<1>4. wake' * Period = Tick(now) * Period + delay * Period
      /\ Tick(now) * Period \in Int
  BY <1>1, <1>2, Distributive
<1>5. NoOversleep'
  BY <1>1, <1>2, <1>3, <1>4 DEF NoOversleep, EndsInTime
<1> QED
  BY <1>1, <1>5 DEF DeadlineSound, EndTick, EndTickInTime

\* A task that wakes up, in time, early or in vain, keeps its last tick.
LEMMA WakeUpDeadline ==
  ASSUME TicksSound, DeadlineSound, WakeUp \/ TakeInVain
  PROVE  DeadlineSound'
<1>1. /\ pc \in {"asleep", "block"} /\ pc' = "check"
      /\ UNCHANGED <<now, offset, lag, op, when, base, span>>
  BY DEF WakeUp, TakeInVain, TakeToken, Goto, Move, clock, call
<1>2. EndTick' = EndTick /\ EndTickInTime' = EndTickInTime
  BY <1>1 DEF EndTick, EndTickInTime
<1> QED
  BY <1>1, <1>2 DEF DeadlineSound, NoOversleep

\* The ticks of every timed operation have to do with its deadline, in every
\* reachable state.
THEOREM Invariance == Spec => []IInv
<1>1. Init => DeadlineSound
  BY DEF Init, DeadlineSound, NoOversleep
<1>2. TicksSound /\ TicksSound' /\ DeadlineSound /\ [Next]_vars => DeadlineSound'
  <2> SUFFICES ASSUME TicksSound, TicksSound', DeadlineSound, [Next]_vars
               PROVE  DeadlineSound'
    OBVIOUS
  <2>1. CASE Advance
    BY <2>1, AdvanceDeadline
  <2>2. CASE Release \/ UNCHANGED vars
    BY <2>2 DEF Release, vars, clock, call, DeadlineSound, NoOversleep,
                EndsInTime, EndTick, EndTickInTime, Slack
  <2>3. CASE Call
    BY <2>3, CallDeadline DEF Call
  <2>4. CASE ReadTickCount \/ ReadUptime
    BY <2>4, ReadTickCountDeadline, ReadUptimeDeadline
  <2>5. CASE Check \/ CheckTicks \/ Block \/ TakeInVain \/ Wake \/ WakeEarly
    BY <2>5, CheckDeadline, CheckTicksDeadline, BlockDeadline, WakeUpDeadline
       DEF Wake, WakeEarly
  <2>6. CASE Take \/ ReturnTimeout
    BY <2>6 DEF Take, TakeToken, ReturnTimeout, Goto, Move, Forget, DeadlineSound,
                NoOversleep
  <2> QED
    BY <2>1, <2>2, <2>3, <2>4, <2>5, <2>6 DEF Next, Running
<1> QED
  BY <1>1, <1>2, TicksInvariance, PTL DEF Spec, IInv

-----------------------------------------------------------------------------
(* The properties *)

\* The comparisons of wait_until_impl, done on tick counts that wrap around,
\* are right about the true time, whatever the width of TickType_t and the
\* ceiling of delays (condition_variable_opt.cpp:91-95, 117-119).
THEOREM WrapsSafely == Spec => []WrapSafe
<1>1. TicksSound => WrapSafe
  <2> SUFFICES ASSUME TicksSound PROVE WrapSafe
    OBVIOUS
  <2>1. ASSUME op = "wait", pc = "timeout"
        PROVE  Tick(now) >= base + span
    <3>1. /\ TypeOK /\ EndTick \in Int /\ EndTick * Period =< now + offset
      BY <2>1, CeilingInRange DEF TicksSound, WaitSound, EndTick
    <3>2. EndTick =< Tick(now)
      BY <3>1, LastTick
    <3> QED
      BY <3>1, <3>2, TickBounds DEF EndTick
  <2>2. ASSUME op = "wait", pc = "block"
        PROVE  Tick(now) + delay =< base + span + RoundedUp(lag, Period)
    <3> DEFINE n == EndTick - delay
               c == RoundedUp(lag, Period)
    <3>1. /\ TypeOK /\ n \in Int /\ now + offset < (n + 1) * Period + lag
          /\ EndTick \in Int /\ delay \in Int
      BY <2>2, CeilingInRange DEF TicksSound, WaitSound, NearTick, EndTick
    <3>2. lag \in Int /\ c \in Int /\ lag =< c * Period
      BY <3>1, PeriodPositive, TimeAssumption, RoundingUp DEF TypeOK
    <3> HIDE DEF n, c
    <3>3. now + offset < (n + 1 + c) * Period
      <4>1. (n + 1 + c) * Period = (n + 1) * Period + c * Period
        BY <3>1, <3>2, PeriodPositive, Distributive
      <4>2. /\ now + offset \in Int /\ (n + 1) * Period \in Int
            /\ c * Period \in Int
        BY <3>1, <3>2, TickBounds, PeriodPositive
      <4> QED
        BY <3>1, <3>2, <4>1, <4>2
    <3>4. Tick(now) < n + 1 + c /\ Tick(now) \in Nat
      BY <3>1, <3>2, <3>3, LastTick, TickBounds
    <3>5. Tick(now) + delay =< EndTick + c
      BY <3>1, <3>2, <3>4 DEF n
    <3> QED
      BY <3>5 DEF EndTick, c
  <2> QED
    BY <2>1, <2>2 DEF WrapSafe
<1> QED
  BY <1>1, TicksInvariance, PTL

\* A task that blocks until a deadline sleeps for a tick at least, as long as no
\* sleep is for more ticks than a TickType_t counts (thread.cpp:137).
THEOREM NeverSpins ==
  ASSUME \A d \in Durations : d =< portMAX_DELAY * Period
  PROVE  Spec => []NoSpin
<1>1. Init => NoSpin
  BY DEF Init, NoSpin
<1>2. TicksSound /\ NoSpin /\ [Next]_vars => NoSpin'
  <2> SUFFICES ASSUME TicksSound, NoSpin, [Next]_vars, pc' = "block" PROVE delay' > 0
    BY DEF NoSpin
  <2>1. CASE Check
    <3>1. /\ TypeOK /\ pc = "check" /\ op # "wait" /\ when > now
          /\ delay' = DelayUntil(when) /\ when - now \in Int /\ when - now > 0
          /\ op = "sleep" => \E d \in Durations : when =< now + d
      BY <2>1, TimeAssumption DEF TicksSound, TypeOK, Check, Goto, Move
    <3>2. CASE op = "sleep"
      <4>1. PICK d \in Durations : when =< now + d
        BY <3>1, <3>2
      <4>2. /\ when - now =< portMAX_DELAY * Period
            /\ portMAX_DELAY * Period \in Int
        BY <3>1, <4>1, DurationsAssumption, PeriodPositive, CeilingInRange,
           TimeAssumption DEF TypeOK
      <4> DEFINE ticks == RoundedUp(RoundedUp(when - now, MicrosPerMilli),
                                    portTICK_PERIOD_MS)
      <4>3. ticks \in 1 .. portMAX_DELAY
        BY <3>1, <4>2, CeilingInRange, TicksRoundedUp
      <4>4. delay' = ticks % TickRange
        BY <3>1, <3>2 DEF DelayUntil
      <4> HIDE DEF ticks
      <4>5. (ticks + 0 * TickRange) % TickRange = ticks
        BY <4>3, CeilingInRange, Remainder
      <4>6. ticks + 0 * TickRange = ticks
        BY <4>3, CeilingInRange
      <4> QED
        BY <4>3, <4>4, <4>5, <4>6, CeilingInRange
    <3>3. CASE op # "sleep"
      BY <3>1, <3>3, ToTicksInRange DEF DelayUntil
    <3> QED
      BY <3>2, <3>3
  <2>2. CASE CheckTicks
    <3>1. TicksSound' /\ op' = "wait"
      BY <2>2, CheckTicksStep DEF TicksSound, TypeOK, CheckTicks, call
    <3>2. delay' \in 1 .. kMaxTicksDelay
      BY <3>1 DEF TicksSound, WaitSound
    <3> QED
      BY <3>2, CeilingInRange
  <2>3. CASE Advance \/ Release \/ UNCHANGED vars
    BY <2>3 DEF NoSpin, Advance, TimePasses, Release, vars
  <2>4. CASE Call
    BY <2>4 DEF Call, SleepFor, TryAcquireFor, WaitFor, WaitUntil, Goto, Move
  <2>5. CASE ReadTickCount \/ ReadUptime \/ Block \/ ReturnTimeout
    BY <2>5 DEF ReadTickCount, ReadUptime, Block, ReturnTimeout, Goto, Move
  <2>6. CASE Take \/ TakeInVain \/ Wake \/ WakeEarly
    BY <2>6 DEF Take, TakeInVain, TakeToken, Wake, WakeEarly, WakeUp, Goto, Move
  <2> QED
    BY <2>1, <2>2, <2>3, <2>4, <2>5, <2>6 DEF Next, Running
<1> QED
  BY <1>1, <1>2, TicksInvariance, PTL DEF Spec

\* No task sleeps beyond its deadline, but for what the rounding to ticks adds and
\* its lag, although it may be woken early or in vain any number of times
\* (semaphore.h:57-58, condition_variable_opt.cpp:112-118,
\* condition_variable_opt.h:63-64, 80-82).
THEOREM SleepsNoLonger == Spec => []NoOversleep
<1>1. IInv => NoOversleep
  BY DEF IInv, DeadlineSound
<1> QED
  BY <1>1, Invariance, PTL

\* A timeout is reported a tick before the deadline at the earliest, unless the
\* wait was cut down to the ceiling (condition_variable_opt.h:51-73,
\* timeutil.h:33-36).
THEOREM TimesOutInTime == Spec => []TimeoutNearDeadline
<1>1. IInv => TimeoutNearDeadline
  <2> SUFFICES ASSUME IInv, pc = "timeout"
               PROVE  \/ now > when - Period - lag
                      \/ op = "wait" /\ span = kMaxTicksDelay
                         /\ Tick(now) >= base + span
    BY DEF TimeoutNearDeadline
  <2>1. /\ TypeOK /\ now \in Nat /\ offset \in Nat /\ lag \in Nat /\ when \in Int
        /\ Period \in Nat \ {0} /\ Tick(now) \in Nat
    BY Numbers, TickBounds DEF IInv, TicksSound
  <2>2. CASE op # "wait"
    BY <2>1, <2>2 DEF IInv, DeadlineSound
  <2>3. CASE op = "wait"
    <3>1. /\ EndTick = base + span /\ EndTick \in Nat
          /\ EndTick * Period \in Int
          /\ (EndTick + 1) * Period = EndTick * Period + Period
          /\ EndTick * Period =< now + offset
      BY <2>3, WaitNumbers DEF IInv, TicksSound, WaitSound
    <3>2. CASE span = kMaxTicksDelay
      BY <2>1, <2>3, <3>1, <3>2, LastTick
    <3>3. CASE when + offset < (EndTick + 1) * Period + lag
      BY <2>1, <3>1, <3>3
    <3> QED
      BY <2>3, <3>2, <3>3 DEF IInv, DeadlineSound
  <2> QED
    BY <2>2, <2>3
<1> QED
  BY <1>1, Invariance, PTL

-----------------------------------------------------------------------------
(* The two other backends *)

\* Time passes; only a thread that waits for the processor falls behind.
LEMMA StdAdvanceStep ==
  ASSUME IInvStd, AdvanceStd, backend' = backend
  PROVE  IInvStd'
<1> USE TimeAssumption, CeilingAssumption
    DEF IInvStd, TypeOKStd, AdvanceStd, TimePasses, ReadyStd, callStd,
        Armed, TimeoutNotEarly
<1>1. TypeOKStd'
  OBVIOUS
<1>2. TimeoutNotEarly'
  OBVIOUS
<1> QED
  BY <1>1, <1>2

\* A call sets its deadline, and what it hands over if that is a duration.
LEMMA StdCallStep ==
  ASSUME IInvStd, backend' = backend, NEW d \in Durations,
         \/ sleep_for(d) \/ sleep_until(d) \/ wait_for(d)
         \/ wait_until(d) \/ wait_for_predicate(d)
         \/ wait_until_predicate(d)
  PROVE  IInvStd'
<1> USE TimeAssumption, CeilingAssumption, DurationsAssumption
    DEF IInvStd, TypeOKStd, Begin, GotoStd, Move
<1>1. /\ Safe(d) \in Int /\ Safe(d) =< d
      /\ backend = "cppstd" => Safe(d) =< kMaxSafeWaitMicros
      /\ Safe(d) >= d \/ (backend = "cppstd" /\ Safe(d) = kMaxSafeWaitMicros)
  BY DEF Safe
<1>2. \/ pc' = "block" /\ rel' = Safe(d) /\ op' \in {"sleep", "wait", "std"}
      \/ pc' \in {"compute", "predicate"} /\ rel' = 0 /\ op' \in {"sleep", "wait", "loop"}
  BY DEF sleep_for, sleep_until, wait_for, wait_until,
         wait_for_predicate, wait_until_predicate
<1>3. /\ pc = "idle" /\ UNCHANGED <<now, lag, pred>>
      /\ started' = now /\ when' = now + d /\ wake' = 0
  BY DEF sleep_for, sleep_until, wait_for, wait_until,
         wait_for_predicate, wait_until_predicate
<1>4. TypeOKStd'
  BY <1>1, <1>2, <1>3
<1>5. pc' = "block" =>
        /\ now' + rel' =< when' + lag'
        /\ now' + rel' >= when' \/ (backend = "cppstd" /\ rel' = kMaxSafeWaitMicros)
  BY <1>1, <1>2, <1>3
<1>6. ~Armed' /\ pc' # "timeout"
  BY <1>2 DEF Armed
<1> QED
  BY <1>4, <1>5, <1>6 DEF TimeoutNotEarly

\* What is left of the time is computed anew in every turn of the loop.
LEMMA StdComputeStep ==
  ASSUME IInvStd, Compute, backend' = backend
  PROVE  IInvStd'
<1> USE TimeAssumption, CeilingAssumption DEF IInvStd, TypeOKStd
<1>1. /\ pc' = "block" /\ rel' = Safe(when - now)
      /\ UNCHANGED <<now, lag, pred, op, started, when, wake>>
  BY DEF Compute, GotoStd, Move, callStd
<1>2. /\ Safe(when - now) \in Int /\ Safe(when - now) =< when - now
      /\ backend = "cppstd" => Safe(when - now) =< kMaxSafeWaitMicros
      /\ \/ Safe(when - now) = when - now
         \/ backend = "cppstd" /\ Safe(when - now) = kMaxSafeWaitMicros
  BY DEF Safe
<1> QED
  BY <1>1, <1>2 DEF Armed, TimeoutNotEarly

\* The library adds the duration to the time it has by then, and there is no
\* overflow.
LEMMA StdBlockStep ==
  ASSUME IInvStd, HandOver, backend' = backend
  PROVE  IInvStd'
<1> USE TimeAssumption, CeilingAssumption DEF IInvStd, TypeOKStd
<1>1. /\ pc = "block" /\ pc' \in {"predicate", "asleep"} /\ wake' = WakeTime
      /\ UNCHANGED <<now, lag, pred, op, started, when, rel>>
  BY DEF HandOver, GotoStd, Move, callStd
<1>2. WakeTime = now + rel
  BY DEF WakeTime
<1> QED
  BY <1>1, <1>2 DEF Armed, TimeoutNotEarly

\* The other steps leave the times alone.
LEMMA StdOtherStep ==
  ASSUME IInvStd, backend' = backend,
         \/ PredicateChanges \/ Notify \/ Predicate \/ TimeIsUp
         \/ ReportTimeout
  PROVE  IInvStd'
<1> USE TimeAssumption, CeilingAssumption
    DEF IInvStd, TypeOKStd, GotoStd, Move, callStd, Armed,
        TimeoutNotEarly
<1>1. CASE PredicateChanges
  BY <1>1 DEF PredicateChanges
<1>2. CASE Notify
  BY <1>2 DEF Notify
<1>3. CASE Predicate
  BY <1>3 DEF Predicate
<1>4. CASE TimeIsUp
  BY <1>4 DEF TimeIsUp
<1>5. CASE ReportTimeout
  BY <1>5 DEF ReportTimeout
<1> QED
  BY <1>1, <1>2, <1>3, <1>4, <1>5

\* What the two backends hand over is right while time passes, in every
\* reachable state (cppstd/condition_variable.h:49-91, cppstd/thread.h:37-55,
\* singlethreaded/condition_variable.h:48-75, singlethreaded/thread.h:88-99).
THEOREM StdInvariance == SpecStd => []IInvStd
<1>1. InitStd => IInvStd
  <2> SUFFICES ASSUME InitStd PROVE IInvStd
    OBVIOUS
  <2>1. pred \in BOOLEAN
    BY DEF InitStd
  <2>2. TypeOKStd
    BY <2>1, TimeAssumption, CeilingAssumption DEF InitStd, TypeOKStd
  <2> QED
    BY <2>2 DEF InitStd, IInvStd, Armed, TimeoutNotEarly
<1>2. IInvStd /\ [NextStd]_varsStd => IInvStd'
  <2> SUFFICES ASSUME IInvStd, [NextStd]_varsStd PROVE IInvStd'
    OBVIOUS
  <2>1. CASE UNCHANGED varsStd
    BY <2>1 DEF varsStd, IInvStd, TypeOKStd, Armed, TimeoutNotEarly
  <2>2. CASE NextStd
    BY <2>2, StdAdvanceStep, StdCallStep, StdComputeStep, StdBlockStep,
       StdOtherStep DEF NextStd, CallStd, RunningStd
  <2> QED
    BY <2>1, <2>2
<1> QED
  BY <1>1, <1>2, PTL DEF SpecStd

\* Nobody times out, or ends a sleep, before the deadline, unless the ceiling
\* has passed (cppstd/condition_variable.h:49-91, cppstd/thread.h:37-55).
THEOREM StdTimesOutInTime == SpecStd => []TimeoutNotEarly
<1>1. IInvStd => TimeoutNotEarly
  BY DEF IInvStd
<1> QED
  BY <1>1, StdInvariance, PTL

\* Nobody sleeps beyond the deadline, but for its lag, whatever wakes it in
\* between (cppstd/condition_variable.h:49-60).
THEOREM StdSleepsNoLonger == SpecStd => []NoOversleepStd
<1>1. IInvStd => NoOversleepStd
  BY DEF IInvStd, NoOversleepStd, Armed
<1> QED
  BY <1>1, StdInvariance, PTL
=============================================================================
