SPECIFICATION Spec
CONSTANTS
  t1 = t1
  t2 = t2
  t3 = t3
  c1 = c1
  c2 = c2
  nullptr = nullptr
  Threads <- ThreeThreads
  CVs <- TwoCVs
  kMaxWaitingThreads = 2
  Priority <- MCPriority
SYMMETRY Symmetry
INVARIANTS
  IInv
  NoLostWakeup
  RegistrationSound
  OverflowOnlyWhenFull
PROPERTY
  ImplementsCondVar
\* A failed assert, or all tasks waiting, ends an execution.
CHECK_DEADLOCK FALSE
