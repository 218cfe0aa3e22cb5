SPECIFICATION BkFairSpec
CONSTANTS
    c1 = c1
    c2 = c2
    Contract <- MCContract
    BkTop = 3
    Window = 1
    BkMaxBoots = 2
INVARIANTS
    BookSound
PROPERTIES
    BookFollows
CHECK_DEADLOCK FALSE
