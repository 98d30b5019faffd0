SPECIFICATION Spec
CONSTANTS
  t1 = t1
  t2 = t2
  t3 = t3
  nullptr = nullptr
  Threads <- ThreeThreads
  kMaxTokens = 3
  MaxWaitCount = 4
SYMMETRY Symmetry
INVARIANTS
  IInv
  NotifyReaches
\* All threads can be asleep.
CHECK_DEADLOCK FALSE
