SPECIFICATION Spec
CONSTANTS
  t1 = t1
  t2 = t2
  o1 = o1
  o2 = o2
  o3 = o3
  Main = Main
  nullptr = nullptr
  garbage = garbage
  none = none
  Tasks <- TwoTasks
  Objects <- TwoObjects
  Together = TRUE
INVARIANT
  NoUseAfterDelete
\* A failed assert ends the program.
CHECK_DEADLOCK FALSE
