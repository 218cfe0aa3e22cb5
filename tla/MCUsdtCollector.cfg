SPECIFICATION FairSpec
CONSTANTS
    w1 = w1
    w2 = w2
    x = x
    usdt = usdt
    omni = omni
    None = None
    Addr <- MCAddr
    Watched <- MCWatched
    Property <- MCProperty
    Usdt = usdt
    Top = 6
    Txs <- MCTxs
    Safe = 1
    CollectThread = 2
    QueueCap = 1
    MaxBoots = 2
INVARIANTS
    StoredExact
PROPERTIES
    ImplementsTransferLog
    CatchesUp
CHECK_DEADLOCK FALSE
