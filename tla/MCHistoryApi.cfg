SPECIFICATION HistoryFairSpec
CONSTANTS
    Top = 5
    Row <- MCRow
    DepNum <- MCDepNum
    EthRow <- MCEthRow
    EthBase = 1
    EthAhead = 3
INVARIANTS
    PassesNothing
PROPERTIES
    Reaches
