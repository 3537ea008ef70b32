SPECIFICATION ReadingSpec
CONSTANTS
  c1 = c1
  c2 = c2
  c3 = c3
  base = base
  io1 = io1
  io2 = io2
  u1 = u1
  Base = base
  MsgLen = 2
  Setups <- LiveSetups
PROPERTIES ClosedIsDestroyed ShutdownCompletes
CHECK_DEADLOCK FALSE
