SPECIFICATION Spec
CONSTANTS
  Capacity = 3
  MaxLines = 7
  RollSize = 4
  CheckEveryN = 1
  FlushInterval = 0
  FlushAfter = 1
INVARIANTS NothingLost
CHECK_DEADLOCK FALSE
