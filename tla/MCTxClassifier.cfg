SPECIFICATION ClassifySpec
CONSTANTS
    w1 = w1
    w2 = w2
    x = x
    y = y
    yhex = yhex
    NoAddr = NoAddr
    Address <- MCAddr
    Watched <- MCWatched
    Witness <- MCWitness
    Hex <- MCHex
    Decimals = 2
    MaxUnits = 400
    Tx <- MCTx
INVARIANTS
    KindsRight
    
CHECK_DEADLOCK FALSE
