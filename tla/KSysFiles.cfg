SPECIFICATION Spec
CONSTANTS
  NPROC = 6
  Proc <- MCProc
  NInodes = 11
  NBlocks = 30
  NDIRECT = 4
  NINDIRECT = 6
  NFILE = 6
  NOFILE = 4
  NINODE = 6
  MaxOps = 3
  MaxWrite = 2
  MkFiles <- MCFiles
  Long <- MCLong
  Crashes = 0
  PGSIZE = 2
  FAN = 4
  USERSTACK = 1
  NPIPE = 1
  PIPESIZE = 2
  NFRAMES = 60
  MAXPATH = 8
  Image <- MCImage
  Programs <- MCPrograms
  Full = 4
  Inodes = 12
  BadAddr = 999
  MCProgs <- FileTests
  Tests <- FileTestNames
INVARIANTS TestsPass SleepersWake ParentLives
