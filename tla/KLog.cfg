SPECIFICATION Spec
CONSTANTS
  Data = {1, 2, 3}
  Process = {p1, p2}
  LOGBLOCKS = 3
  MAXOPBLOCKS = 1
  NBUF = 3
  OpBlocks = 1
  MaxOps = 3
  MaxReads = 1
  MaxCrashes = 1
INVARIANTS  SleepersAwaited
PROPERTY ImplementsAtomicLog
CHECK_DEADLOCK FALSE
