SPECIFICATION FairThreadSpec
CONSTANTS
  main = main
  f1 = f1
  f2 = f2
  Callers <- MCCallers
  Functors <- MCFunctors
  Starter = main
  EarlyQueue = TRUE
INVARIANTS ThreadTypeOK PointerIsLive DestructorSafe
PROPERTIES StartLoopReturns QuitIsObeyed
CHECK_DEADLOCK FALSE
