\* MonInit first, queues of any length.
CONSTANTS
    Client = {c1, c2, c3}
    NULL = NULL
    NoPid = NoPid
    MAX_NODES = 4
    MAX_LISTS = 3
    MAX_CONDS = 1
    InitArgs <- MCInitArgs
    CondArgs <- MCCondArgs
    InitFirst = FALSE
    Uses = {"initialised"}
SPECIFICATION UseSpec
CHECK_DEADLOCK FALSE
INVARIANT NoCrash
