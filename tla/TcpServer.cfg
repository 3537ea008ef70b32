SPECIFICATION Spec
CONSTANTS
  c1 = c1
  c2 = c2
  c3 = c3
  base = base
  io1 = io1
  io2 = io2
  u1 = u1
  Base = base
  MsgLen = 2
  Setups <- AllSetups
INVARIANTS TypeOK NoDanglingChannel WatchedAsNeeded StreamInOrder
INVARIANTS ShutdownFlushes CallbacksPaired
PROPERTIES ClosedIsFinal
CHECK_DEADLOCK FALSE
