SPECIFICATION VerifyFairSpec
CONSTANTS
  u1 = u1
  u2 = u2
  u3 = u3
  d1 = d1
  d2 = d2
  d3 = d3
  n1 = n1
  Names <- MCNames
  Users <- MCUsers
  Objects <- MCObjects
  minSize_ = 1
  maxSize_ = 2
  None = None
INVARIANTS TypeOK Exclusive CountExact NameTakenOnce
PROPERTIES ServedWhenReliable
CHECK_DEADLOCK FALSE
