SPECIFICATION FairSpec
CONSTANTS
    a1 = a1
    Addr <- MCAddr
    Top = 3
    Transfers <- MCTransfers
    Safe = 0
    QueueCap = 1
    MaxReorg = 1
    OwnTag = TRUE
    MaxBoots = 2
INVARIANTS
    StoredExact
    OnlyFinalBlocks
PROPERTIES
    ImplementsTransferLog
    CatchesUp
    StopsAtNextBlock
CHECK_DEADLOCK FALSE
