SPECIFICATION FairSpec
CONSTANTS
    FirstHeight = 0
    FastCount = 13
    LastCount = 17
    BadHeights <- MCBad
    ChanCap = 3
    BatchSize = 5
    Chunk = 2
INVARIANTS
    Orderly
PROPERTIES
    ImplementsFeed
    Stops
CHECK_DEADLOCK FALSE
