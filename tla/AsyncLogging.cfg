SPECIFICATION FairSpec
CONSTANTS
  Capacity = 3
  MaxLines = 6
  RollSize = 4
  CheckEveryN = 1
  FlushInterval = 0
  FlushAfter = 1
INVARIANTS NeverNull LinesInOrder
PROPERTIES NoneDropped LineWritten
CHECK_DEADLOCK FALSE
