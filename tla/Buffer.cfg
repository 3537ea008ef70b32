SPECIFICATION SessionFairSpec
CONSTANTS
  kCheapPrepend = 2
  kInitialSize = 3
  ExtraSize = 10
  MaxLen = 6
  MaxBytes = 26
  Scripts <- MCScripts
  FreeBytes = 12
  Edits <- MCEdits
  MaxReads = 3
  MaxEdits = 2
INVARIANTS TypeOK BytesInOrder AnswersMatch
PROPERTIES ClosedAfterAnswer
CHECK_DEADLOCK FALSE
