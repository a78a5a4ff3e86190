CONSTANTS
    Client = {mainp, r1, w1}
    Reader = {r1}
    Writer = {w1}
    mainp = mainp
    CallsInitialize = TRUE
    NULL = NULL
    NoPid = NoPid
    MAX_NODES = 5
    MAX_LISTS = 4
    MAX_CONDS = 2
    InitArgs <- MCInitArgs
    CondArgs <- MCCondArgs
    InitFirst = FALSE
SPECIFICATION RWFairSpec
INVARIANTS WriterAloneIfServed ConditionHoldsOnResume
PROPERTY EveryoneWorks
CHECK_DEADLOCK FALSE
