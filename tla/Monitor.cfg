CONSTANTS
    Client = {c1, c2, c3}
    NULL = NULL
    NoPid = NoPid
    MAX_NODES = 4
    MAX_LISTS = 3
    MAX_CONDS = 1
    InitArgs <- MCInitArgs
    CondArgs <- MCCondArgs
    InitFirst = FALSE
    Uses = {"any", "shallow"}
SPECIFICATION UseSpec
SYMMETRY ClientSymmetry
INVARIANTS TypeOK MutualExclusion NoCrashIfShallow HeldIsQueuedIfShallow
PROPERTY ImplementsHoareMonitor
CHECK_DEADLOCK FALSE
