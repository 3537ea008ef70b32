SPECIFICATION FairSpec
CONSTANTS
  t1 = t1
  t2 = t2
  t3 = t3
  Timers <- MCTimers
  Interval <- MCInterval
  MaxDelay = 2
  MaxSteps = 1
INVARIANTS OnceEach ArmedForEarliest
PROPERTIES EveryTimerRuns
