SPECIFICATION Spec
CONSTANTS
  MicrosPerMilli = 2
  portTICK_PERIOD_MS = 2
  portMAX_DELAY = 7
  kTenDaysInTicks = 10
  UptimeMax = 1000
  unread = unread
  Durations <- MCDurations
  MaxTime = 25
  MaxLag = 4
  MaxTokens = 1
INVARIANTS
  IInv
  WrapSafe
  NoSpin
  NoOversleep
  TimeoutNearDeadline
PROPERTY
  Returns
\* Nothing happens after MaxTime.
CHECK_DEADLOCK FALSE
