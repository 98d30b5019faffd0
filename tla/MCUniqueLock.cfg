SPECIFICATION Spec
CONSTANTS
  t1 = t1
  t2 = t2
  m1 = m1
  m2 = m2
  l1 = l1
  l2 = l2
  l3 = l3
  nullptr = nullptr
  none = none
  Threads <- TwoThreads
  Mutexes <- TwoMutexes
  Locks <- ThreeLocks
  Owner <- MCOwner
INVARIANTS
  IInv
  HeldByOne
\* A failed assert ends the program.
CHECK_DEADLOCK FALSE
