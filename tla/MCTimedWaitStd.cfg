SPECIFICATION SpecStd
CONSTANTS
  Durations <- MCDurations
  kMaxSafeWaitMicros = 4
  Overflow = 9
  MaxTime = 14
  MaxLag = 2
INVARIANTS
  IInvStd
  TimeoutNotEarly
  NoOversleepStd
PROPERTY
  ReturnsStd
