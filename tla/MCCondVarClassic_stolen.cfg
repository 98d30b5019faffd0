SPECIFICATION SpecHistory
CONSTANTS
  t1 = t1
  t2 = t2
  t3 = t3
  nullptr = nullptr
  Threads <- ThreeThreads
  kMaxTokens = 3
  MaxWaitCount = 4
INVARIANT
  NotifyAllWakesAll
CHECK_DEADLOCK FALSE
