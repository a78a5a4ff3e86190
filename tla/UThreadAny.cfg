CONSTANTS
    MAX_THREAD = 4
    MaxCreated = 5
SPECIFICATION FairSpec
INVARIANT ContextsInPlace
PROPERTY EveryThreadRuns
CHECK_DEADLOCK FALSE
