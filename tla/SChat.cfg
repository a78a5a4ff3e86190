CONSTANTS
    left = left
    right = right
    Peer <- Two
    PeerOf <- FacingEachOther
    MAXLINE = 12
    Sessions <- MCSessions
    Paced = TRUE
    NULL = NULL
    MAX_NODES = 2
    MAX_LISTS = 2
SPECIFICATION FairSpec
INVARIANTS OneCopy ReceivedOnce DisplayedWasSent
PROPERTY LineIsDisplayed
CHECK_DEADLOCK FALSE
