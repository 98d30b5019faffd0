SPECIFICATION SpecLatch
CONSTANTS
  t1 = t1
  t2 = t2
  t3 = t3
  t4 = t4
  nullptr = nullptr
  latchCv = latchCv
  Threads <- FourThreads
  CVs <- OneCV
  Counters <- TwoCounters
  Waiters <- ThreeWaiters
  Decrement <- OneAndTwo
  Priority <- SamePriority
  kMaxWaitingThreads = 3
INVARIANTS
  IInvLatch
  NotBeforeZero
  NoCounterInside
  NoSleeperAfterZero
PROPERTY
  Terminates
