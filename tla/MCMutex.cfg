SPECIFICATION FairSpec
CONSTANTS
  t1 = t1
  t2 = t2
  t3 = t3
  Boot = Boot
  raw = raw
  free = free
  nullptr = nullptr
  Threads <- ThreeTasks
  LazyInitialize = TRUE
INVARIANTS
  IInv
  MutualExclusion
  CreatedBeforeUse
PROPERTIES
  ImplementsMutex
  TryAndUnlockReturn
\* Boot may start the scheduler while it holds the kernel's mutex: every lock()
\* then waits forever.
CHECK_DEADLOCK FALSE
