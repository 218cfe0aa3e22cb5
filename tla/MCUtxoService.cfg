SPECIFICATION ServiceSpec
CONSTANTS
    o1 = o1
    o2 = o2
    o3 = o3
    o4 = o4
    o5 = o5
    alice = alice
    bob = bob
    Output <- MCOutput
    MaxHeight <- MCMaxHeight
    NumTx <- MCNumTx
    BlockEnd <- MCBlockEnd
    Vin <- MCVin
    Vout <- MCVout
    Addr = {alice, bob}
    OwnerOf <- MCOwnerOf
    Amount <- MCAmount
    Dust = 1
    ListCap = 2
INVARIANTS
    ListExact
    BalanceInBounds
