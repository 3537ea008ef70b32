SPECIFICATION FairSpec
CONSTANTS
  t1 = t1
  t2 = t2
  f1 = f1
  f2 = f2
  f3 = f3
  Callers <- MCCallers
  Functors <- MCFunctors
  EarlyQueue = FALSE
INVARIANTS TypeOK NoBlockedWork
PROPERTIES ImplementsTaskQueue Delivered QuitEndsLoop
CHECK_DEADLOCK FALSE
