SPECIFICATION FairSpec
CONSTANTS
    o1 = o1
    o2 = o2
    o3 = o3
    o4 = o4
    o5 = o5
    Output <- MCOutput
    MaxHeight <- MCMaxHeight
    NumTx <- MCNumTx
    BlockEnd <- MCBlockEnd
    Vin <- MCVin
    Vout <- MCVout
INVARIANTS
    TypeOK
    Exact
    NoOutputLost
PROPERTIES
    ImplementsLedger
    CatchesUp
