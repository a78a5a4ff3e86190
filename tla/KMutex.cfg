CONSTANTS
    NPROC = 3
    NMUTEX = 1
    Flags <- MCFlags
    Ids <- MCIds
    Uses <- MCUses
SPECIFICATION FairSpec
INVARIANTS NoLostWakeup MutexExclusion OwnerOnlyIfLocked
PROPERTY SleeperIsWoken
CHECK_DEADLOCK FALSE
