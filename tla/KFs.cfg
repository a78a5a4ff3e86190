SPECIFICATION Spec
CONSTANTS
  Proc = {1, 2}
  NInodes = 5
  NBlocks = 13
  NDIRECT = 2
  NINDIRECT = 2
  NFILE = 2
  NOFILE = 1
  NINODE = 5
  MaxOps = 3
  MaxWrite = 2
  MkFiles <- NoFiles
  Long <- NoLongNames
  Crashes = 2
INVARIANTS CrashConsistent OrphansReclaimed IputNeverBlocks NoFsDeadlock PanicOnlyByDotDot RefsExact
CHECK_DEADLOCK FALSE
