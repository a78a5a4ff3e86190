SPECIFICATION Spec
CONSTANTS
  NPROC = 5
  Proc <- MCProc
  NInodes = 11
  NBlocks = 30
  NDIRECT = 4
  NINDIRECT = 6
  NFILE = 9
  NOFILE = 8
  NINODE = 6
  MaxOps = 3
  MaxWrite = 2
  MkFiles <- MoreFiles
  Long <- MCLong
  Crashes = 0
  PGSIZE = 4
  FAN = 8
  USERSTACK = 1
  NPIPE = 3
  PIPESIZE = 2
  NFRAMES = 58
  MAXPATH = 8
  Image <- MCImage
  Programs <- MCPrograms
  Full = 4
  Inodes = 12
  BadAddr = 999
  MCProgs <- MoreTests
  Tests <- MoreTestNames
INVARIANTS TestsPass PagesConserved PipeEndsExact
