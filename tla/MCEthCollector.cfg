SPECIFICATION FairSpec
CONSTANTS
    c1 = c1
    c2 = c2
    h1 = h1
    h2 = h2
    h3 = h3
    Collectors <- MCCollectors
    Handlers <- MCHandlers
    Interval = 2
    ChanCap = 2
    Top = 3
    MaxBoots = 2
INVARIANTS
    FedIsStored
    CheckpointSound
PROPERTIES
    Stops
    CatchesUp
CHECK_DEADLOCK FALSE
