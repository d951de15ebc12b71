\* Two sizes of picture, packages of none, two and three, one take, five positions of the focus.
SPECIFICATION FairSpec
CONSTANTS
    Last = 2
    MaxSize = 2
    Retries = 1
    NSlots = 2
    Packages <- MCPackages
    Headroom = 0
    Header = 1
    Spare = 1
    FixedRoom = 1
    Sharpness <- MCSharpness
    FocusTop = 255
    FocusStep = 70
    MaxTakes = 1
    Pairs <- MCPairs
CHECK_DEADLOCK FALSE
INVARIANTS
    LeftLocked
    MemoryErrors
    InOrder
    BestFocus
PROPERTIES
    Served
