SPECIFICATION FairSpec
CONSTANTS
  t1 = t1
  t2 = t2
  o1 = o1
  o2 = o2
  o3 = o3
  Main = Main
  nullptr = nullptr
  garbage = garbage
  none = none
  Tasks <- TwoTasks
  Objects <- ThreeObjects
  Together = FALSE
INVARIANTS
  IInv
  NoUseAfterDelete
  JoinedIsOver
  OneOwner
PROPERTIES
  ImplementsThreads
  JoinReturns
\* A failed assert ends the program.
CHECK_DEADLOCK FALSE
