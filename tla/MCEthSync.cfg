SPECIFICATION FairSpec
CONSTANTS
    k1 = k1
    k2 = k2
    Top = 4
    Trxs <- MCTrxs
    Round = 2
    Coroutines <- MCCoroutines
    MaxBoots = 2
INVARIANTS
    SyncSound
    RecordedOnce
PROPERTIES
    ImplementsEthLog
    CatchesUp
CHECK_DEADLOCK FALSE
